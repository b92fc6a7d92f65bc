--------------------------- MODULE IncomingQueue ---------------------------
(***************************************************************************)
(* internal/queue/queue.go, the pipeline goroutine that fills it (main.go) *)
(* and the API that reads it: GET /messages?since=... and DELETE.  A time  *)
(* is a number of ticks; a timestamp has a resolution of TicksPerSecond.   *)
(* The incremental client, which asks for what is newer than the last      *)
(* message it got, is the one the API page describes.                      *)
(***************************************************************************)
EXTENDS Integers, SequencesExt

CONSTANTS
  maxSize,          \* capacity of the queue
  Clients,          \* incremental clients
  TicksPerSecond,   \* RFC 3339 without a fraction: whole seconds
  MaxTime,          \* bound: ticks in a behaviour
  MaxPushes         \* bound: messages in a behaviour

ASSUME QueueAssumption ==
  /\ maxSize \in Nat \ {0}         \* NewIncomingQueue replaces sizes below 1
  /\ TicksPerSecond \in Nat \ {0}
  /\ MaxTime \in Nat /\ MaxPushes \in Nat

VARIABLES
  messages,   \* IncomingQueue.messages
  stamped,    \* the pipeline's message that has its Timestamp, not yet pushed
  now,        \* the clock
  since,      \* each client: the parameter of its next GET
  received,   \* each client: the ids it was given, in order
  (* observations *)
  pushed,     \* all messages pushed, in order
  cleared,    \* how many of them had been pushed at the last DELETE,
  pulled      \* and at each client's last GET

queueVars == <<messages, pushed, cleared>>
clientVars == <<since, received, pulled>>
vars == <<queueVars, stamped, now, clientVars>>

NoMessage == [id |-> 0, timestamp |-> 0]
NoSince   == -1                  \* the empty parameter
IncomingMessage == [id : Nat, timestamp : Nat]

Init ==
  /\ messages = <<>> /\ stamped = NoMessage /\ now = 0
  /\ since = [c \in Clients |-> NoSince]
  /\ received = [c \in Clients |-> <<>>]
  /\ pushed = <<>> /\ cleared = 0 /\ pulled = [c \in Clients |-> 0]

Tick ==
  /\ now < MaxTime
  /\ now' = now + 1
  /\ UNCHANGED <<queueVars, stamped, clientVars>>

\* time.Now().Format(RFC3339), evaluated before Push takes the lock.
Stamp ==
  /\ stamped = NoMessage /\ Len(pushed) < MaxPushes
  /\ stamped' = [id |-> Len(pushed) + 1, timestamp |-> now \div TicksPerSecond]
  /\ UNCHANGED <<queueVars, now, clientVars>>

\* Faulty variants, named for the slip, precede the definition they vary.
DropsNewest(msgs, m) == IF Len(msgs) >= maxSize THEN msgs ELSE Append(msgs, m)
OneTooMany(msgs, m) ==
  Append(IF Len(msgs) > maxSize THEN Tail(msgs) ELSE msgs, m)
Pushed(msgs, m) ==
  Append(IF Len(msgs) >= maxSize THEN Tail(msgs) ELSE msgs, m)

Push ==
  /\ stamped # NoMessage
  /\ messages' = Pushed(messages, stamped)
  /\ pushed' = Append(pushed, stamped)
  /\ stamped' = NoMessage
  /\ UNCHANGED <<cleared, now, clientVars>>

\* The loop over the queue: the elements of s whose index is in S.
Kept(s, S) ==
  LET kept[i \in 0 .. Len(s)] ==
        IF i = 0 THEN <<>>
        ELSE IF i \in S THEN Append(kept[i-1], s[i]) ELSE kept[i-1]
  IN  kept[Len(s)]

\* A parameter that is missing or does not parse filters nothing.
NotBefore(t) ==
  IF t = NoSince THEN messages
  ELSE Kept(messages, {i \in DOMAIN messages : messages[i].timestamp >= t})
WholeSecondLater(t) ==
  IF t = NoSince THEN messages
  ELSE Kept(messages, {i \in DOMAIN messages : messages[i].timestamp > t + 1})
List(t) ==
  IF t = NoSince THEN messages
  ELSE Kept(messages, {i \in DOMAIN messages : messages[i].timestamp > t})

HandleGetMessages(c) ==
  LET answer == List(since[c]) IN
  /\ received' = [received EXCEPT ![c] = @ \o [i \in DOMAIN answer |-> answer[i].id]]
  /\ since' = [since EXCEPT ![c] =
                 IF answer = <<>> THEN @ ELSE answer[Len(answer)].timestamp]
  /\ pulled' = [pulled EXCEPT ![c] = Len(pushed)]
  /\ UNCHANGED <<queueVars, stamped, now>>

Clear ==
  /\ messages' = <<>>
  /\ cleared' = Len(pushed)
  /\ UNCHANGED <<pushed, stamped, now, clientVars>>

Next ==
  \/ Tick \/ Stamp \/ Push \/ Clear
  \/ \E c \in Clients : HandleGetMessages(c)

Spec == Init /\ [][Next]_vars

-----------------------------------------------------------------------------
\* The queue holds the newest messages since the last DELETE, as many as fit,
\* in the order in which the pipeline pushed them.
Retained ==
  /\ Len(messages) = LET n == Len(pushed) - cleared
                     IN  IF n < maxSize THEN n ELSE maxSize
  /\ \A i \in 1..Len(messages) :
       messages[i] = pushed[Len(pushed) - Len(messages) + i]

\* The types of the queue's side, and Retained.
IInv ==
  /\ messages \in Seq(IncomingMessage) /\ pushed \in Seq(IncomingMessage)
  /\ stamped \in IncomingMessage /\ now \in Nat
  /\ cleared \in 0..Len(pushed)
  /\ Retained

\* A client that passes the timestamp of the last message it got is given no
\* message a second time and none out of order, over drops and DELETEs.
PulledOnceInOrder ==
  \A c \in Clients : \A i, j \in DOMAIN received[c] :
    i < j => received[c][i] < received[c][j]

\* What a DELETE, which says nothing of what its caller has seen, may take
\* from such a client: a message it was not given came after its last GET, or
\* shares a second with one it was given.
UnseenCameLater ==
  \A c \in Clients : \A i \in DOMAIN messages :
    \/ Contains(received[c], messages[i].id)
    \/ messages[i].id > pulled[c]
    \/ \E j \in DOMAIN received[c] :
         pushed[received[c][j]].timestamp = messages[i].timestamp

\* index.html, "incremental pull is supported": once the client has asked for
\* what is newer than the last message it knows, it knows all that is there.
IncrementalPullComplete ==
  [][\A c \in Clients : received'[c] # received[c] =>
       \A i \in DOMAIN messages : Contains(received'[c], messages[i].id)]_vars
=============================================================================
