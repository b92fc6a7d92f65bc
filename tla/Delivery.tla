----------------------------- MODULE Delivery -----------------------------
(***************************************************************************)
(* What pollLoop of internal/wechat/client.go promises of the messages the *)
(* iLink server has for us, numbered from 1: the cursor passes them in     *)
(* order, and what it has passed is handed over in that order, each once,  *)
(* unless the loop is being told to stop.                                  *)
(***************************************************************************)
EXTENDS Naturals, Sequences

CONSTANT FromUser            \* numbers of the messages with MessageType 1

VARIABLES
  sent,       \* messages the server has
  cursor,     \* the last of them that was passed
  pending,    \* passed, not yet handed over
  out,        \* handed over
  stopping    \* the loop is told to stop; set from outside

Increasing(s) == \A i, j \in DOMAIN s : i < j => s[i] < s[j]

\* The messages after m and up to n that come from users.
Lists(s, m, n) ==
  /\ s \in Seq(FromUser) /\ Increasing(s)
  /\ {s[i] : i \in DOMAIN s} = {x \in FromUser : m < x /\ x <= n}

Init == sent = 0 /\ cursor = 0 /\ pending = <<>> /\ out = <<>>

Arrive == sent' = sent + 1 /\ UNCHANGED <<cursor, pending, out>>

Take ==
  /\ pending = <<>>
  /\ cursor' \in cursor .. sent /\ Lists(pending', cursor, cursor')
  /\ UNCHANGED <<sent, out>>

HandOver ==
  /\ pending # <<>>
  /\ out' = Append(out, Head(pending)) /\ pending' = Tail(pending)
  /\ UNCHANGED <<sent, cursor>>

Drop == stopping /\ pending' = <<>> /\ UNCHANGED <<sent, cursor, out>>

Next == Arrive \/ Take \/ HandOver \/ Drop

Spec == Init /\ [][Next]_<<sent, cursor, pending, out>>

-----------------------------------------------------------------------------
\* Nothing is handed over twice or out of order, neither within a batch nor
\* across batches, restarts and dropped rests.
InOrder == Increasing(out \o pending)
=============================================================================
