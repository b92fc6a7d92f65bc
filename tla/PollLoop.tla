----------------------------- MODULE PollLoop -----------------------------
(***************************************************************************)
(* Client.Start, Stop and pollLoop of internal/wechat/client.go, with the  *)
(* goroutines that call them, the iLink server that answers the long poll  *)
(* and the pipeline of main.go that takes the messages.                    *)
(*                                                                         *)
(* Start makes stopCh, done and pollCtx anew in one locked section, so the *)
(* fields always hold channels of the same generation: gen stands for the  *)
(* three.  A loop reads c.stopCh and c.done without the lock and gets the  *)
(* generation of that moment, which need not be the one it was started in. *)
(***************************************************************************)
EXTENDS Naturals, Sequences, FiniteSets, SequencesExt

CONSTANTS
  Starters, Stoppers,    \* goroutines that call Start, and Stop
  FromUser,              \* numbers of the messages with MessageType 1
  Capacity,              \* of msgCh: 100 in the code
  MayBeLate,             \* whether a loop may outlast the wait of 5 seconds
  MaxStarts, MaxMessages \* bounds

ASSUME PollAssumption ==
  /\ Starters \cap Stoppers = {} /\ FromUser \subseteq Nat
  /\ Capacity \in Nat \ {0} /\ MayBeLate \in BOOLEAN
  /\ MaxStarts \in Nat /\ MaxMessages \in Nat

VARIABLES
  gen,           \* stopCh, done and pollCtx: which generation
  stopClosed, doneClosed, cancelled,   \* the generations closed or cancelled
  pollRunning, status, getUpdatesBuf, lastContact, msgCh,
  loop,          \* each pollLoop goroutine, in the order they are started
  caller,        \* each caller: where it is, which done it waits for
  sent,          \* messages the server has for us, numbered from 1
  received,      \* what the pipeline took from msgCh
  panicked       \* a closed channel was closed: what follows is of no account

chans    == <<gen, stopClosed, doneClosed, cancelled>>
flags    == <<pollRunning, status>>
messages == <<getUpdatesBuf, lastContact, msgCh, sent, received>>
vars     == <<chans, flags, messages, loop, caller, panicked>>

Loops   == 1 .. MaxStarts
Callers == Starters \cup Stoppers
Nothing == [pc |-> "none", ch |-> 0, upto |-> 0, batch |-> <<>>]

\* Goroutines that are in pollLoop and have not yet decided to leave it.
Working == {l \in Loops : loop[l].pc \notin {"none", "exit", "flag", "gone"}}
\* Those that will still close c.done.
Closing == {l \in Loops : loop[l].pc \notin {"none", "flag", "gone"}}

Init ==
  /\ gen = 0 /\ stopClosed = {} /\ doneClosed = {} /\ cancelled = {}
  /\ pollRunning = FALSE /\ status = "disconnected"
  /\ getUpdatesBuf = 0 /\ lastContact = 0 /\ msgCh = <<>>
  /\ loop = [l \in Loops |-> Nothing]
  /\ caller = [k \in Callers |-> [pc |-> "idle", ch |-> 0]]
  /\ sent = 0 /\ received = <<>> /\ panicked = FALSE

-----------------------------------------------------------------------------
(* Start                                                                   *)

AtCaller(k, pc, ch) == caller' = [caller EXCEPT ![k] = [pc |-> pc, ch |-> ch]]

Begun == Cardinality({k \in Starters : caller[k].pc \in {"await", "fresh"}})

\* The first locked section.
StartSignal(k) ==
  /\ caller[k].pc = "idle" /\ gen + Begun < MaxStarts
  /\ stopClosed' = IF pollRunning THEN stopClosed \cup {gen} ELSE stopClosed
  /\ cancelled' = cancelled \cup {gen}
  /\ AtCaller(k, IF pollRunning THEN "await" ELSE "fresh", gen)
  /\ UNCHANGED <<gen, doneClosed, flags, messages, loop, panicked>>

\* Waiting for done, at most 5 seconds.  A loop that is told to stop leaves in
\* less unless MayBeLate; a done that no loop will close never closes.
Waited(k) ==
  \/ caller[k].ch \in doneClosed
  \/ MayBeLate \/ caller[k].ch # gen \/ Closing = {}

WaitsForNobody(k) ==
  /\ caller[k].pc = "await"
  /\ AtCaller(k, "fresh", gen)
  /\ UNCHANGED <<chans, flags, messages, loop, panicked>>
StartWaited(k) ==
  /\ caller[k].pc = "await" /\ Waited(k)
  /\ AtCaller(k, "fresh", gen)
  /\ UNCHANGED <<chans, flags, messages, loop, panicked>>

\* The second locked section.
StartFresh(k) ==
  /\ caller[k].pc = "fresh"
  /\ gen' = gen + 1 /\ pollRunning' = TRUE
  /\ AtCaller(k, "spawn", gen')
  /\ UNCHANGED <<stopClosed, doneClosed, cancelled, status, messages, loop,
                 panicked>>

StartSpawn(k) ==
  /\ caller[k].pc = "spawn"
  /\ status' = "connected"
  /\ \E l \in Loops :
       /\ loop[l] = Nothing /\ \A m \in 1 .. (l - 1) : loop[m] # Nothing
       /\ loop' = [loop EXCEPT ![l].pc = "top"]
  /\ AtCaller(k, "idle", 0)
  /\ UNCHANGED <<chans, pollRunning, messages, panicked>>

-----------------------------------------------------------------------------
(* Stop                                                                    *)

StopSignal(k) ==
  /\ caller[k].pc = "idle"
  /\ stopClosed' = stopClosed \cup {gen} /\ cancelled' = cancelled \cup {gen}
  /\ AtCaller(k, "await", gen)
  /\ UNCHANGED <<gen, doneClosed, flags, messages, loop, panicked>>

StopsAtOnce(k) ==
  /\ caller[k].pc = "await"
  /\ status' = "disconnected"
  /\ AtCaller(k, "idle", 0)
  /\ UNCHANGED <<chans, pollRunning, messages, loop, panicked>>
StopWaited(k) ==
  /\ caller[k].pc = "await" /\ Waited(k)
  /\ status' = "disconnected"
  /\ AtCaller(k, "idle", 0)
  /\ UNCHANGED <<chans, pollRunning, messages, loop, panicked>>

-----------------------------------------------------------------------------
(* pollLoop                                                                *)

LoopOnly == UNCHANGED <<chans, flags, messages, caller, panicked>>

Goto(l, pc) == loop' = [loop EXCEPT ![l].pc = pc]

\* A select that waits holds on to the stopCh it read when it began.
Select(l, pc) == loop' = [loop EXCEPT ![l].pc = pc, ![l].ch = gen]

Top(l) ==
  /\ loop[l].pc = "top"
  /\ Goto(l, IF gen \in stopClosed THEN "exit" ELSE "status")
  /\ LoopOnly

CheckStatus(l) ==
  /\ loop[l].pc = "status"
  /\ IF status = "connected" THEN Goto(l, "begin") ELSE Select(l, "pause")
  /\ LoopOnly

\* Two seconds, or stopCh.
WaitsForStop(l) ==
  /\ loop[l].pc = "pause" /\ loop[l].ch \in stopClosed
  /\ Goto(l, "exit")
  /\ LoopOnly
Pause(l) ==
  /\ loop[l].pc = "pause"
  /\ Goto(l, "top") \/ (loop[l].ch \in stopClosed /\ Goto(l, "exit"))
  /\ LoopOnly

\* PollMessages: the request carries the cursor and the context.
BeginPoll(l) ==
  /\ loop[l].pc = "begin"
  /\ loop' = [loop EXCEPT ![l].pc = "poll", ![l].ch = gen,
                          ![l].upto = getUpdatesBuf]
  /\ LoopOnly

\* The loop over the answer, of which the pipeline passes the user messages on.
NewMessages(from) ==
  LET msgs[n \in from .. sent] ==
        IF n = from THEN <<>>
        ELSE IF n \in FromUser THEN Append(msgs[n-1], n) ELSE msgs[n-1]
  IN  msgs[sent]

PollReturns(l) ==
  /\ loop[l].pc = "poll" /\ loop[l].ch \notin cancelled
  /\ loop' = [loop EXCEPT ![l].pc = "store", ![l].upto = sent,
                          ![l].batch = NewMessages(loop[l].upto)]
  /\ LoopOnly

\* It is cancelled, or the network or the server fails.
PollFails(l) ==
  /\ loop[l].pc = "poll"
  /\ Goto(l, "failed")
  /\ LoopOnly

LeavesOnError(l) ==
  /\ loop[l].pc = "failed"
  /\ Goto(l, "exit")
  /\ LoopOnly
CheckFailed(l) ==
  /\ loop[l].pc = "failed"
  /\ Goto(l, IF gen \in stopClosed THEN "exit" ELSE "lost")
  /\ LoopOnly

\* An error that is not due to Stop disconnects; nothing here reconnects.
Lost(l) ==
  /\ loop[l].pc = "lost"
  /\ status' = "disconnected"
  /\ Select(l, "pause")
  /\ UNCHANGED <<chans, pollRunning, messages, caller, panicked>>

KeepsCursor(l) ==
  /\ loop[l].pc = "store"
  /\ Goto(l, IF loop[l].batch = <<>> THEN "top" ELSE "contact")
  /\ LoopOnly
StoreCursor(l) ==
  /\ loop[l].pc = "store"
  /\ getUpdatesBuf' = loop[l].upto
  /\ Goto(l, IF loop[l].batch = <<>> THEN "top" ELSE "contact")
  /\ UNCHANGED <<chans, flags, lastContact, msgCh, caller, sent, received,
                 panicked>>

StoreContact(l) ==
  /\ loop[l].pc = "contact"
  /\ lastContact' = Head(loop[l].batch)
  /\ Select(l, "send")
  /\ UNCHANGED <<chans, flags, getUpdatesBuf, msgCh, caller, sent, received,
                 panicked>>

AfterSend(l) ==
  /\ loop' = [loop EXCEPT
       ![l].batch = Tail(@),
       ![l].pc = IF Tail(loop[l].batch) = <<>> THEN "top" ELSE "contact"]
  /\ UNCHANGED <<chans, flags, getUpdatesBuf, lastContact, caller, sent,
                 received, panicked>>

SendsWhenFull(l) ==
  /\ loop[l].pc = "send" /\ msgCh' = Append(msgCh, Head(loop[l].batch))
  /\ AfterSend(l)
SendOnly(l) ==
  /\ loop[l].pc = "send" /\ Len(msgCh) < Capacity
  /\ msgCh' = Append(msgCh, Head(loop[l].batch))
  /\ AfterSend(l)
\* Messages that are left when stopCh closes are dropped.
Told(l) == loop[l].pc = "send" /\ loop[l].ch \in stopClosed
Send(l) ==
  \/ SendOnly(l)
  \/ /\ Told(l)
     /\ loop' = [loop EXCEPT ![l].batch = <<>>, ![l].pc = "exit"]
     /\ LoopOnly

\* The deferred function: close(c.done), then, under the lock, the flag.
CloseDone(l) ==
  /\ loop[l].pc = "exit"
  /\ doneClosed' = doneClosed \cup {gen}
  /\ panicked' = (panicked \/ gen \in doneClosed)
  /\ Goto(l, "flag")
  /\ UNCHANGED <<gen, stopClosed, cancelled, flags, messages, caller>>

ClearRunning(l) ==
  /\ loop[l].pc = "flag"
  /\ pollRunning' = FALSE
  /\ Goto(l, "gone")
  /\ UNCHANGED <<chans, status, messages, caller, panicked>>

PollStep(l) ==
  \/ Top(l) \/ CheckStatus(l) \/ Pause(l) \/ BeginPoll(l) \/ PollReturns(l)
  \/ PollFails(l) \/ CheckFailed(l) \/ Lost(l) \/ StoreCursor(l)
  \/ StoreContact(l) \/ Send(l) \/ CloseDone(l) \/ ClearRunning(l)

-----------------------------------------------------------------------------
(* The server, the pipeline, and who else sets the status: the reconnect   *)
(* timer when the session is over, OnTokenSaved after a login; both need   *)
(* an earlier Start.                                                       *)

Receive ==
  /\ msgCh # <<>>
  /\ received' = Append(received, Head(msgCh)) /\ msgCh' = Tail(msgCh)
  /\ UNCHANGED <<chans, flags, getUpdatesBuf, lastContact, loop, caller, sent,
                 panicked>>

NewMessage ==
  /\ sent < MaxMessages /\ sent' = sent + 1
  /\ UNCHANGED <<chans, flags, getUpdatesBuf, lastContact, msgCh, loop, caller,
                 received, panicked>>

SetStatus ==
  /\ gen > 0 /\ status' \in {"connected", "expired"}
  /\ UNCHANGED <<chans, pollRunning, messages, loop, caller, panicked>>

Starting(k) ==
  StartSignal(k) \/ StartWaited(k) \/ StartFresh(k) \/ StartSpawn(k)
Stopping(k) == StopSignal(k) \/ StopWaited(k)

Next ==
  \/ \E k \in Starters : Starting(k)
  \/ \E k \in Stoppers : Stopping(k)
  \/ \E l \in Loops : PollStep(l)
  \/ Receive \/ NewMessage \/ SetStatus

Spec == Init /\ [][Next]_vars

\* The scheduler runs every loop and every caller; a poll that is not answered
\* fails with the http client's timeout.  The pipeline may be slow for ever.
Fairness ==
  /\ \A l \in Loops : WF_vars(PollStep(l))
  /\ \A k \in Starters :
       WF_vars(StartWaited(k) \/ StartFresh(k) \/ StartSpawn(k))
  /\ \A k \in Stoppers : WF_vars(StopWaited(k))

FairSpec == Spec /\ Fairness

-----------------------------------------------------------------------------
TypeOK ==
  /\ gen \in Nat /\ stopClosed \cup doneClosed \cup cancelled \subseteq 0 .. gen
  /\ pollRunning \in BOOLEAN
  /\ status \in {"connected", "disconnected", "expired"}
  /\ getUpdatesBuf \in 0 .. sent /\ lastContact \in 0 .. sent
  /\ msgCh \in Seq(FromUser) /\ Len(msgCh) <= Capacity
  /\ \A l \in Loops :
       /\ loop[l].pc \in {"none", "top", "status", "pause", "begin", "poll",
                          "failed", "lost", "store", "contact", "send", "exit",
                          "flag", "gone"}
       /\ loop[l].ch \in 0 .. gen /\ loop[l].upto \in 0 .. sent
       /\ loop[l].batch \in Seq(FromUser)
  /\ \A k \in Callers :
       /\ caller[k].pc \in {"idle", "await", "fresh", "spawn"}
       /\ caller[k].ch \in 0 .. gen
  /\ received \in Seq(FromUser) /\ panicked \in BOOLEAN

\* There is never a second loop: Start waits for the one before it, and what
\* it waits for cannot close early.
OneLoop == Cardinality(Working) <= 1 /\ ~panicked

\* What Stop waits for: once done is closed nobody polls or delivers.
DoneMeansGone == gen \in doneClosed => Working = {}

\* What is polled is delivered: the pipeline sees the messages in order and
\* none twice, and what the cursor has passed is lost only by a loop that is
\* told to stop while it delivers: neither a poll error nor a full channel
\* nor a restart loses or repeats a message.
Delivering == {l \in Loops : loop[l].pc \in {"contact", "send"}}
Abstract == INSTANCE Delivery WITH
  FromUser <- FromUser, sent <- sent, cursor <- getUpdatesBuf,
  pending <- IF Delivering = {} THEN <<>>
             ELSE loop[CHOOSE l \in Delivering : TRUE].batch,
  out <- received \o msgCh,
  stopping <- \E l \in Loops : Told(l)
ImplementsDelivery == Abstract!Spec

\* A loop that is told to stop ends, even when nobody takes its messages.
StopEndsLoop ==
  (Working # {} /\ gen \in stopClosed)
    ~> (Working = {} \/ gen \notin stopClosed)

\* While connected, a message comes through unless it is told to stop or the
\* channel is full: no pause or poll error leaves the loop asleep for good.
MessagesArrive ==
  \A m \in FromUser :
    sent >= m ~> \/ m \in ToSet(received \o msgCh)
                 \/ status # "connected" \/ stopClosed # {}
                 \/ Len(msgCh) = Capacity

-----------------------------------------------------------------------------
(* What the documentation says and the code does not do.                   *)

\* README.md: pollRunning tells whether a poll loop is running.
FlagMeansRunning == Working # {} => pollRunning

\* client.go: Start signals the running pollLoop, if any, to stop, so that
\* between two calls at most one is left.
StartReplacesLoop ==
  (\A k \in Callers : caller[k].pc = "idle") => Cardinality(Working) <= 1
=============================================================================
