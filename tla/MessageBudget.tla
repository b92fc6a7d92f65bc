--------------------------- MODULE MessageBudget ---------------------------
(***************************************************************************)
(* internal/budget/manager.go with its callers: the HTTP send handlers,    *)
(* PUT /settings, and the goroutine of main.go that feeds user messages to *)
(* OnUserMessage.  A section under m.mu is one action; everything the code *)
(* does outside the lock (an API call, a read of LastContact) is another.  *)
(* Payloads are abstracted to an id, given out in the order in which the   *)
(* locked sections accept the messages.                                    *)
(***************************************************************************)
EXTENDS Integers, SequencesExt

CONSTANTS
  Senders,         \* HTTP send handlers that may run at the same time
  Users,           \* WeChat users
  NoUser,          \* the zero ContactInfo, and an empty to_user_id
  Kinds,           \* the media types in use
  Limits,          \* send_budget_limit values PUT /settings may bring
  BufferSizes,     \* max_buffered_messages values PUT /settings may bring
  InitLimit, InitMaxBuffer,  \* the values of config.json at start
  ChanSize,        \* capacity of msgCh (100 in the code)
  MaxRequests,     \* bound: send requests in a behaviour
  MaxReplies       \* bound: user messages in a behaviour

MediaTypes == {"text", "image", "file", "video"}

ASSUME BudgetAssumption ==
  /\ NoUser \notin Users
  /\ Kinds \subseteq MediaTypes
  /\ Limits \subseteq Nat \ {0} /\ InitLimit \in Nat \ {0}
  /\ BufferSizes \subseteq Nat \ {0} /\ IsFiniteSet(BufferSizes)
  /\ InitMaxBuffer \in Nat \ {0}
  /\ ChanSize \in Nat \ {0}
  /\ MaxRequests \in Nat /\ MaxReplies \in Nat

VARIABLES
  sendBudget, bufferMode, msgBuffer, budgetLimit, maxBuffer,  \* Manager
  lastContact,     \* Client.lastContact
  inHand,          \* the message pollLoop is about to put on msgCh, if any
  msgCh,           \* Client.msgCh
  reqPc, reqMsg,   \* each send handler: where it is, and its message
  pipePc, flush, flushTo,  \* the pipeline goroutine inside doFlush
  (* observations *)
  nextId,          \* the next id to give out
  replies,         \* user messages received so far
  granted,         \* the budget given by the last reset,
  spent, flushed,  \* the direct and the flush calls made since,
  excess,          \* the messages that met an empty budget since,
  leastMax,        \* and the smallest maxBuffer since
  queued,          \* every message that ever entered msgBuffer
  answer,          \* what each accepted request was answered
  wire             \* the calls made to WeChat, in order

managerVars == <<sendBudget, bufferMode, msgBuffer, budgetLimit, maxBuffer>>
clientVars  == <<lastContact, inHand, msgCh, replies>>
reqVars     == <<reqPc, reqMsg, nextId, queued, answer>>
pipeVars    == <<pipePc, flush, flushTo>>
countVars   == <<granted, spent, flushed, excess, leastMax>>
vars == <<managerVars, clientVars, reqVars, pipeVars, countVars, wire>>

Requests == 1..MaxRequests
Message  == [id : Nat, kind : Kinds, to : Users]
Reply    == [from : Users, slash : BOOLEAN]
NoReply  == [from |-> NoUser, slash |-> FALSE]
NoMsg    == [id |-> 0, kind |-> "text", to |-> NoUser]
Call     == [via : {"direct", "flush", "reminder"}, ids : Seq(Nat),
             as : MediaTypes, to : Users]

Buffered(m) == [id |-> m.id, kind |-> m.kind]  \* bufferedMessage has no toID
Ids(s)      == [i \in DOMAIN s |-> s[i].id]
IdSet(s)    == {s[i].id : i \in DOMAIN s}
BufferedMessage == [id : Nat, kind : Kinds]

Init ==
  /\ sendBudget = InitLimit /\ budgetLimit = InitLimit
  /\ maxBuffer = InitMaxBuffer
  /\ bufferMode = FALSE /\ msgBuffer = <<>>
  /\ lastContact \in Users \cup {NoUser}   \* main restores a saved contact
  /\ inHand = NoReply /\ msgCh = <<>> /\ replies = 0
  /\ reqPc = [h \in Senders |-> "idle"]
  /\ reqMsg = [h \in Senders |-> NoMsg]
  /\ pipePc = "idle" /\ flush = <<>> /\ flushTo = NoUser
  /\ nextId = 1 /\ granted = InitLimit /\ spent = 0 /\ flushed = 0
  /\ excess = {} /\ leastMax = InitMaxBuffer
  /\ queued = {} /\ answer = [i \in Requests |-> "none"] /\ wire = <<>>

-----------------------------------------------------------------------------
(* The handlers of POST /send/{text,image,file,video}.                     *)

Pending == {h \in Senders : reqPc[h] = "resolved"}

resolveTarget(toID) == IF toID # NoUser THEN toID ELSE lastContact

\* Without a recipient the handler answers 503 and nothing changes.
HandleSend(h, kind, toID) ==
  /\ reqPc[h] = "idle"
  /\ nextId + Cardinality(Pending) <= MaxRequests
  /\ resolveTarget(toID) # NoUser
  /\ reqMsg' = [reqMsg EXCEPT ![h] =
                  [id |-> 0, kind |-> kind, to |-> resolveTarget(toID)]]
  /\ reqPc' = [reqPc EXCEPT ![h] = "resolved"]
  /\ UNCHANGED <<managerVars, clientVars, nextId, queued, answer, pipeVars,
                 countVars, wire>>

\* Faulty variants, named for the slip, precede the definition they vary.
SpendsLastTwice == sendBudget >= 0
HasBudget == sendBudget > 0

AlwaysFirstEntry == TRUE
enterBufferModeLocked == ~bufferMode       \* TRUE on the first entry

Texts(buf) == {i \in DOMAIN buf : buf[i].kind = "text"}

EvictsOldestOfAnyKind(buf, bm) ==
  IF Len(buf) < maxBuffer THEN Append(buf, bm) ELSE Append(Tail(buf), bm)
ReplacesInPlace(buf, bm) ==
  IF Len(buf) < maxBuffer THEN Append(buf, bm)
  ELSE IF Texts(buf) = {} THEN buf
  ELSE ReplaceAt(buf, Min(Texts(buf)), bm)
FullTooSoon(buf, bm) ==
  IF Len(buf) + 1 < maxBuffer \/ Texts(buf) = {} THEN Append(buf, bm)
  ELSE Append(RemoveAt(buf, Min(Texts(buf))), bm)
OneTooMany(buf, bm) ==
  IF Len(buf) <= maxBuffer \/ Texts(buf) = {} THEN Append(buf, bm)
  ELSE Append(RemoveAt(buf, Min(Texts(buf))), bm)
bufferMessageLocked(buf, bm) ==
  IF Len(buf) < maxBuffer THEN Append(buf, bm)
  ELSE IF Texts(buf) = {} THEN buf         \* dropped, with a log line
  ELSE Append(RemoveAt(buf, Min(Texts(buf))), bm)

Spend(h, m) ==
  /\ HasBudget
  /\ sendBudget' = sendBudget - 1
  /\ spent' = spent + 1
  /\ reqPc' = [reqPc EXCEPT ![h] = "sending"]
  /\ UNCHANGED <<bufferMode, msgBuffer, queued, answer, excess>>

EnterBuffer(h, m) ==
  /\ ~HasBudget
  /\ bufferMode' = TRUE
  /\ msgBuffer' = bufferMessageLocked(msgBuffer, Buffered(m))
  /\ excess' = excess \cup {m}
  /\ queued' = IF m.id \in IdSet(msgBuffer') THEN queued \cup {m} ELSE queued
  /\ reqPc' = [reqPc EXCEPT ![h] =
                 IF enterBufferModeLocked THEN "reminding" ELSE "idle"]
  /\ answer' = IF enterBufferModeLocked THEN answer
               ELSE [answer EXCEPT ![m.id] = "buffered"]
  /\ UNCHANGED <<sendBudget, spent>>

\* The locked section of BudgetedSend and of BudgetedSendMedia.
BudgetedSend(h) ==
  LET m == [reqMsg[h] EXCEPT !.id = nextId] IN
  /\ reqPc[h] = "resolved"
  /\ reqMsg' = [reqMsg EXCEPT ![h] = m]
  /\ nextId' = nextId + 1
  /\ Spend(h, m) \/ EnterBuffer(h, m)
  /\ UNCHANGED <<budgetLimit, maxBuffer, clientVars, pipeVars, granted, flushed,
                 leastMax, wire>>

\* The API call of a request within budget returns.  Its error only decides
\* between the answers "sent" and "error", which are one here.
FinishSend(h) ==
  /\ reqPc[h] = "sending"
  /\ wire' = Append(wire, [via |-> "direct", ids |-> <<reqMsg[h].id>>,
                           as |-> reqMsg[h].kind, to |-> reqMsg[h].to])
  /\ reqPc' = [reqPc EXCEPT ![h] = "idle"]
  /\ answer' = [answer EXCEPT ![reqMsg[h].id] = "called"]
  /\ UNCHANGED <<managerVars, clientVars, reqMsg, nextId, queued, pipeVars,
                 countVars>>

ReminderNeedsContact(h) ==
  /\ reqPc[h] = "reminding" /\ lastContact # NoUser
  /\ wire' = Append(wire, [via |-> "reminder", ids |-> <<>>,
                           as |-> "text", to |-> lastContact])
  /\ reqPc' = [reqPc EXCEPT ![h] = "idle"]
  /\ answer' = [answer EXCEPT ![reqMsg[h].id] = "buffered"]
  /\ UNCHANGED <<managerVars, clientVars, reqMsg, nextId, queued, pipeVars,
                 countVars>>
sendBufferActivationReminder(h) ==
  /\ reqPc[h] = "reminding"
  /\ wire' = IF lastContact = NoUser THEN wire
             ELSE Append(wire, [via |-> "reminder", ids |-> <<>>,
                                as |-> "text", to |-> lastContact])
  /\ reqPc' = [reqPc EXCEPT ![h] = "idle"]
  /\ answer' = [answer EXCEPT ![reqMsg[h].id] = "buffered"]
  /\ UNCHANGED <<managerVars, clientVars, reqMsg, nextId, queued, pipeVars,
                 countVars>>

SetLimits(limit, size) ==
  /\ budgetLimit' = limit
  /\ maxBuffer' = size
  /\ leastMax' = Min({leastMax, size})
  /\ UNCHANGED <<sendBudget, bufferMode, msgBuffer, clientVars, reqVars,
                 pipeVars, granted, spent, flushed, excess, wire>>

-----------------------------------------------------------------------------
(* A user writes: pollLoop records the contact, then hands the message on. *)

ReceiveMessage(u, slash) ==
  /\ inHand = NoReply /\ replies < MaxReplies
  /\ lastContact' = u
  /\ inHand' = [from |-> u, slash |-> slash]
  /\ replies' = replies + 1
  /\ UNCHANGED <<managerVars, msgCh, reqVars, pipeVars, countVars, wire>>

Enqueue ==
  /\ inHand # NoReply /\ Len(msgCh) < ChanSize
  /\ msgCh' = Append(msgCh, inHand)
  /\ inHand' = NoReply
  /\ UNCHANGED <<managerVars, lastContact, replies, reqVars, pipeVars,
                 countVars, wire>>

-----------------------------------------------------------------------------
(* The pipeline goroutine: OnUserMessage and the flush that follows it.    *)

FlushesFromTwo(slash) == slash \/ (bufferMode /\ Len(msgBuffer) > 1)
OnlySlashFlushes(slash) == slash
shouldFlush(slash) == slash \/ (bufferMode /\ Len(msgBuffer) > 0)

CollectsWithoutClearing == [data |-> msgBuffer, rest |-> msgBuffer]
collectFlushLocked == [data |-> msgBuffer, rest |-> <<>>]

OnUserMessage ==
  LET slash == Head(msgCh).slash
      taken == IF shouldFlush(slash) THEN collectFlushLocked
               ELSE [data |-> <<>>, rest |-> msgBuffer] IN
  /\ pipePc = "idle" /\ msgCh # <<>>
  /\ msgCh' = Tail(msgCh)
  /\ sendBudget' = budgetLimit
  /\ granted' = budgetLimit /\ spent' = 0 /\ flushed' = 0
  /\ excess' = {} /\ leastMax' = maxBuffer
  /\ flush' = taken.data /\ msgBuffer' = taken.rest
  /\ bufferMode' = FALSE
  /\ pipePc' = IF taken.data = <<>> THEN "idle" ELSE "collected"
  /\ UNCHANGED <<budgetLimit, maxBuffer, lastContact, inHand, replies, reqVars,
                 flushTo, wire>>

\* doFlush reads LastContact after the lock was released.
BeginFlush ==
  /\ pipePc = "collected"
  /\ IF lastContact = NoUser
       THEN pipePc' = "idle" /\ flush' = <<>> /\ UNCHANGED flushTo
       ELSE pipePc' = "flushing" /\ flushTo' = lastContact /\ UNCHANGED flush
  /\ UNCHANGED <<managerVars, clientVars, reqVars, countVars, wire>>

\* The texts at the head of data that go out joined in one message.
TextRun(data) ==
  {i \in DOMAIN data : \A j \in 1..i : data[j].kind = "text"}

FlushCall(ids, kind) ==
  /\ wire' = Append(wire, [via |-> "flush", ids |-> ids, as |-> kind,
                           to |-> flushTo])
  /\ flushed' = flushed + 1
  /\ UNCHANGED <<granted, spent, excess, leastMax>>

Flushed(n) ==
  /\ flush' = SubSeq(flush, n + 1, Len(flush))
  /\ pipePc' = IF Len(flush) = n THEN "idle" ELSE "flushing"

FlushText ==   \* a failed call is only logged
  LET n == Cardinality(TextRun(flush)) IN
  /\ pipePc = "flushing" /\ n > 0
  /\ FlushCall(Ids(SubSeq(flush, 1, n)), "text")
  /\ Flushed(n)
  /\ UNCHANGED <<managerVars, clientVars, reqVars, flushTo>>

FlushFile(ok) ==   \* any medium is first sent with SendFile
  /\ pipePc = "flushing" /\ TextRun(flush) = {}
  /\ FlushCall(<<flush[1].id>>, "file")
  /\ IF ok THEN Flushed(1) ELSE pipePc' = "fallback" /\ UNCHANGED flush
  /\ UNCHANGED <<managerVars, clientVars, reqVars, flushTo>>

RetriesTillSent ==
  /\ pipePc = "fallback"
  /\ FlushCall(<<flush[1].id>>, flush[1].kind)
  /\ Flushed(1) \/ UNCHANGED <<pipePc, flush>>
  /\ UNCHANGED <<managerVars, clientVars, reqVars, flushTo>>
FlushFallback ==   \* then with sendMedia; its error is ignored
  /\ pipePc = "fallback"
  /\ FlushCall(<<flush[1].id>>, flush[1].kind)
  /\ Flushed(1)
  /\ UNCHANGED <<managerVars, clientVars, reqVars, flushTo>>

-----------------------------------------------------------------------------
Handler(h) ==
  BudgetedSend(h) \/ FinishSend(h) \/ sendBufferActivationReminder(h)

Pipeline ==
  OnUserMessage \/ BeginFlush \/ FlushText \/ (\E ok \in BOOLEAN : FlushFile(ok))
    \/ FlushFallback

Next ==
  \/ \E h \in Senders : Handler(h)
  \/ \E h \in Senders, k \in Kinds, u \in Users \cup {NoUser} :
       HandleSend(h, k, u)
  \/ \E l \in Limits, s \in BufferSizes : SetLimits(l, s)
  \/ \E u \in Users, slash \in BOOLEAN : ReceiveMessage(u, slash)
  \/ Enqueue
  \/ Pipeline

Spec == Init /\ [][Next]_vars

\* Goroutines are scheduled and every API call ends (the HTTP clients have
\* timeouts); nothing makes a user write or a client send.
Fairness ==
  /\ \A h \in Senders : WF_vars(Handler(h))
  /\ WF_vars(Enqueue) /\ WF_vars(Pipeline)

FairSpec == Spec /\ Fairness

-----------------------------------------------------------------------------
TypeOK ==
  /\ sendBudget \in Nat /\ budgetLimit \in Nat \ {0}
  /\ maxBuffer \in Nat \ {0} /\ bufferMode \in BOOLEAN
  /\ msgBuffer \in Seq(BufferedMessage) /\ flush \in Seq(BufferedMessage)
  /\ lastContact \in Users \cup {NoUser} /\ flushTo \in Users \cup {NoUser}
  /\ inHand \in Reply \cup {NoReply} /\ msgCh \in Seq(Reply)
  /\ reqPc \in [Senders -> {"idle", "resolved", "sending", "reminding"}]
  /\ reqMsg \in [Senders -> Message \cup {NoMsg}]
  /\ pipePc \in {"idle", "collected", "flushing", "fallback"}
  /\ nextId \in Nat \ {0} /\ replies \in Nat
  /\ granted \in Nat /\ spent \in Nat /\ flushed \in Nat
  /\ excess \subseteq Message /\ leastMax \in Nat \ {0}
  /\ queued \subseteq Message
  /\ answer \in [Requests -> {"none", "called", "buffered"}]
  /\ wire \in Seq(Call)

\* No interleaving of send handlers and resets makes more direct calls than
\* the budget the last user message granted: the test and the decrement of
\* sendBudget are in one locked section.
BudgetNeverOverspent == spent <= granted

\* A message waits in the buffer only while the budget is used up, so a
\* reset never leaves one behind that later direct sends would overtake.
ExhaustedBeforeBuffering == sendBudget > 0 => msgBuffer = <<>> /\ ~bufferMode

\* bufferMode, which decides about the reminder and the flush, agrees with
\* what the buffer holds; otherwise a buffered message would wait for a "/"
\* or a round would go by without a reminder.
BufferModeIffBuffered == bufferMode <=> msgBuffer # <<>>

\* What makes these inductive: the budget is accounted for, the pipeline is
\* busy exactly while it has something left to flush, and neither a handler
\* nor a flush in progress is without a recipient.
IInv ==
  /\ TypeOK
  /\ spent + sendBudget = granted
  /\ ExhaustedBeforeBuffering
  /\ BufferModeIffBuffered
  /\ pipePc # "idle" <=> flush # <<>>
  /\ pipePc \in {"flushing", "fallback"} => flushTo # NoUser
  /\ \A h \in Senders : reqPc[h] # "idle" => reqMsg[h] \in Message

CallsOf(i) == {k \in DOMAIN wire : i \in Range(wire[k].ids)}
FlushCalls == {k \in DOMAIN wire : wire[k].via = "flush"}
Media      == {m \in queued : m.kind # "text"}

Increasing(s) == \A i, j \in DOMAIN s : i < j => s[i] < s[j]
NoneAfter(A, B) == \A i \in A, j \in B : i <= j

\* Buffered messages go out in the order in which they were accepted, over
\* all flushes, evictions and joined texts (a retried medium may repeat).
InAcceptOrder ==
  /\ Increasing(Ids(flush)) /\ Increasing(Ids(msgBuffer))
  /\ \A i \in IdSet(flush), j \in IdSet(msgBuffer) : i < j
  /\ \A k \in FlushCalls :
       /\ Increasing(wire[k].ids)
       /\ NoneAfter(Range(wire[k].ids), IdSet(flush) \cup IdSet(msgBuffer))
       /\ \A l \in FlushCalls :
            k < l => NoneAfter(Range(wire[k].ids), Range(wire[l].ids))

\* Once in the buffer, an image, file or video is never evicted and never
\* dropped by a flush: it is buffered, being flushed, or was sent.
NoMediaLost ==
  \A m \in Media :
    m.id \in IdSet(msgBuffer) \cup IdSet(flush) \/ CallsOf(m.id) # {}

\* No message is both sent directly and buffered, or flushed by two replies;
\* only a medium whose SendFile failed is called for a second time.
SentAtMostOnce ==
  \A i \in Requests :
    Cardinality(CallsOf(i)) + Cardinality({k \in DOMAIN flush : flush[k].id = i})
      + Cardinality({k \in DOMAIN msgBuffer : msgBuffer[k].id = i})
    <= IF i \in {m.id : m \in Media} THEN 2 ELSE 1

\* Of the messages that met an empty budget in this round as many wait as the
\* smallest buffer of the round takes, and as many of the media, which texts
\* make room for: evicting and dropping begin only when the buffer is full.
LosesOnlyAtLimit ==
  LET kept(ms) == Cardinality({m \in ms : m.id \in IdSet(msgBuffer)})
  IN  \A ms \in {excess, {m \in excess : m.kind # "text"}} :
        kept(ms) >= Min({Cardinality(ms), leastMax})

\* A round makes no more calls than its budget and what a full buffer takes,
\* two for a medium: a flush is over before the next reset, and no failure
\* makes it try for ever.
CallsPerRound ==
  spent + flushed <= granted + 2 * Max({InitMaxBuffer} \cup BufferSizes)

Reminders == {k \in DOMAIN wire : wire[k].via = "reminder"}
Reminding == {h \in Senders : reqPc[h] = "reminding"}
Processed == replies - Len(msgCh) - (IF inHand = NoReply THEN 0 ELSE 1)

\* The user is reminded at most once per round, however many requests meet
\* the empty budget at the same time.
ReminderOncePerRound ==
  Cardinality(Reminders) + Cardinality(Reminding) <= 1 + Processed

\* The buffer outgrows max_buffered_messages by no step, not even when the
\* setting was lowered below what is buffered.
BufferBounded ==
  [][Len(msgBuffer') > Len(msgBuffer) => Len(msgBuffer') <= maxBuffer]_vars

\* Every accepted request is answered, with or without a contact to remind.
RequestAnswered ==
  \A h \in Senders : (reqPc[h] # "idle") ~> (reqPc[h] = "idle")

\* A medium that is in the buffer when a user message reaches the pipeline
\* is sent, whatever the message says and whichever calls fail.
ReplySendsBufferedMedia ==
  \A i \in Requests :
    (msgCh # <<>> /\ i \in IdSet(msgBuffer) /\ i \in {m.id : m \in Media})
      ~> (CallsOf(i) # {})

-----------------------------------------------------------------------------
(* What the documentation says and the code does not do.                   *)

\* README.md: "buffered" means that the message is queued.
BufferedMeansQueued ==
  \A h \in Senders :
    (reqPc[h] = "idle" /\ reqMsg[h].id # 0 /\ answer[reqMsg[h].id] = "buffered")
      => reqMsg[h] \in queued

\* index.html: the limit is the number of replies after a user's message.
RepliesWithinLimit == spent + flushed <= granted

\* wechat_bot.go: a request that names a user is for that user.
DeliveredToAddressee ==
  \A m \in queued : \A k \in CallsOf(m.id) : wire[k].to = m.to

\* wechat_bot.go: a buffered image is sent as an image.
FlushKeepsKind ==
  \A m \in queued : \A k \in CallsOf(m.id) : wire[k].as = m.kind

\* index.html: the setting is the most messages the buffer holds.
BufferWithinLimit == Len(msgBuffer) <= maxBuffer
=============================================================================
