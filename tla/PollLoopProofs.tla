--------------------------- MODULE PollLoopProofs ---------------------------
(***************************************************************************)
(* Theorems about PollLoop, about Delivery, which it implements, and about *)
(* Session, which puts the logins and disconnects on it: for every         *)
(* capacity and any number of loops, callers, messages and logins.         *)
(***************************************************************************)
EXTENDS Session, SequenceTheorems, FiniteSetTheorems, WellFoundedInduction,
        TLAPS

-----------------------------------------------------------------------------
(* What PollMessages returns.                                              *)

\* A nonempty set of numbers has a least element.
LEMMA LeastOf ==
  ASSUME NEW B \in SUBSET Nat, B # {}
  PROVE  \E k \in B : \A j \in B : k <= j
<1>1. PICK k \in B : \A j \in B : ~ (<<j, k>> \in OpToRel(<, Nat))
  BY NatLessThanWellFounded, WFMin
<1>2. ASSUME NEW j \in B, j < k PROVE FALSE
  <2>1. <<j, k>> \in Nat \X Nat
    OBVIOUS
  <2>2. <<j, k>> \in OpToRel(<, Nat)
    BY <1>2, <2>1 DEF OpToRel
  <2> QED BY <1>1, <2>2
<1> QED BY <1>2

\* The body of NewMessages' function: f is that function when it is its own.
Batch(from, upto, f) ==
  [n \in from .. upto |-> IF n = from THEN <<>>
                          ELSE IF n \in FromUser THEN Append(f[n-1], n)
                          ELSE f[n-1]]

\* Such a function exists for every length of the answer.
LEMMA BatchExists ==
  ASSUME NEW from \in Nat, NEW upto \in Nat, from <= upto
  PROVE  \E f : f = Batch(from, upto, f)
<1> DEFINE B == {k \in Nat : from <= k /\ ~ \E f : f = Batch(from, k, f)}
<1>1. SUFFICES ASSUME B # {} PROVE FALSE
  OBVIOUS
<1>2. PICK k \in B : \A j \in B : k <= j
  BY <1>1, LeastOf
<1>3. CASE k = from
  <2>1. [n \in from .. from |-> <<>>] = Batch(from, k, [n \in from .. from |-> <<>>])
    BY <1>3 DEF Batch
  <2> QED BY <1>2, <2>1
<1>4. CASE k > from
  <2>1. k - 1 \in Nat /\ from <= k - 1 /\ k - 1 \notin B
    BY <1>2, <1>4
  <2>2. PICK f : f = Batch(from, k - 1, f)
    BY <2>1
  <2> DEFINE g == [n \in from .. k |-> IF n < k THEN f[n]
                                       ELSE IF k \in FromUser
                                       THEN Append(f[k-1], k) ELSE f[k-1]]
  <2>3. ASSUME NEW n \in from .. k PROVE g[n] = Batch(from, k, g)[n]
    <3>1. CASE n = k
      <4>1. k # from /\ k - 1 \in from .. k /\ g[k-1] = f[k-1]
        BY <1>2, <1>4
      <4> QED BY <3>1, <4>1 DEF Batch
    <3>2. CASE n # k
      <4>1. n \in from .. (k-1) /\ g[n] = f[n]
        BY <1>2, <3>2
      <4>2. f[n] = IF n = from THEN <<>>
                   ELSE IF n \in FromUser THEN Append(f[n-1], n) ELSE f[n-1]
        BY <2>2, <4>1 DEF Batch
      <4>3. n # from => n - 1 \in from .. k /\ g[n-1] = f[n-1]
        BY <1>2, <4>1
      <4> HIDE DEF g
      <4> QED BY <4>1, <4>2, <4>3 DEF Batch
    <3> QED BY <3>1, <3>2
  <2>4. Batch(from, k, g) = [n \in from .. k |-> Batch(from, k, g)[n]]
    BY DEF Batch
  <2>5. g = [n \in from .. k |-> g[n]]
    OBVIOUS
  <2>6. g = Batch(from, k, g)
    BY <2>3, <2>4, <2>5
  <2> QED BY <1>2, <2>6
<1> QED BY <1>2, <1>3, <1>4

\* NewMessages, message by message.
LEMMA NewMessagesIs ==
  ASSUME NEW from \in Nat, sent \in Nat, from <= sent
  PROVE  \E f : /\ NewMessages(from) = f[sent] /\ f[from] = <<>>
                /\ \A n \in (from + 1) .. sent :
                     f[n] = IF n \in FromUser THEN Append(f[n-1], n) ELSE f[n-1]
<1> DEFINE g == CHOOSE f : f = Batch(from, sent, f)
<1>1. g = Batch(from, sent, g)
  BY BatchExists
<1>2. NewMessages(from) = g[sent]
  BY DEF NewMessages, Batch
<1> HIDE DEF g
<1>3. ASSUME NEW n \in from .. sent
      PROVE  g[n] = IF n = from THEN <<>>
                    ELSE IF n \in FromUser THEN Append(g[n-1], n) ELSE g[n-1]
  <2>1. g[n] = Batch(from, sent, g)[n]
    BY <1>1
  <2>2. Batch(from, sent, g)[n] =
          IF n = from THEN <<>>
          ELSE IF n \in FromUser THEN Append(g[n-1], n) ELSE g[n-1]
    BY DEF Batch
  <2> QED BY <2>1, <2>2
<1>4. /\ from \in from .. sent
      /\ \A n \in (from + 1) .. sent : n \in from .. sent /\ n # from
  OBVIOUS
<1> QED BY <1>2, <1>3, <1>4

\* One message more, from a user or not.
LEMMA ListsNext ==
  ASSUME FromUser \subseteq Nat, NEW s, NEW m \in Nat, NEW n \in Nat, m < n,
         Abstract!Lists(s, m, n - 1)
  PROVE  /\ n \in FromUser => Abstract!Lists(Append(s, n), m, n)
         /\ n \notin FromUser => Abstract!Lists(s, m, n)
<1>1. /\ s \in Seq(FromUser) /\ Abstract!Increasing(s)
      /\ {s[i] : i \in DOMAIN s} = {x \in FromUser : m < x /\ x <= n - 1}
  BY DEF Abstract!Lists
<1>2. CASE n \notin FromUser
  <2>1. {x \in FromUser : m < x /\ x <= n - 1} = {x \in FromUser : m < x /\ x <= n}
    <3>1. \A x \in Nat : x # n => (x <= n - 1 <=> x <= n)
      OBVIOUS
    <3>2. \A x \in FromUser : x \in Nat /\ x # n
      BY <1>2
    <3> QED BY <3>1, <3>2
  <2> QED BY <1>1, <1>2, <2>1 DEF Abstract!Lists
<1>3. CASE n \in FromUser
  <2> DEFINE t == Append(s, n)
  <2>1. /\ t \in Seq(FromUser) /\ Len(s) \in Nat
        /\ DOMAIN s = 1 .. Len(s) /\ DOMAIN t = 1 .. (Len(s) + 1)
        /\ t[Len(s) + 1] = n /\ \A i \in 1 .. Len(s) : t[i] = s[i]
    BY <1>1, <1>3, AppendProperties, LenProperties
  <2> HIDE DEF t
  <2>2. \A i \in DOMAIN s :
          s[i] \in FromUser /\ s[i] \in Nat /\ m < s[i] /\ s[i] <= n - 1
    <3>1. \A i \in DOMAIN s : s[i] \in {x \in FromUser : m < x /\ x <= n - 1}
      BY <1>1
    <3> QED BY <3>1
  <2>3. Abstract!Increasing(t)
    <3>1. SUFFICES ASSUME NEW i \in DOMAIN t, NEW j \in DOMAIN t, i < j
                   PROVE  t[i] < t[j]
      BY DEF Abstract!Increasing
    <3>2. i \in DOMAIN s /\ t[i] = s[i] /\ (j \in DOMAIN s \/ j = Len(s) + 1)
      BY <2>1, <3>1
    <3>3. CASE j \in DOMAIN s
      BY <1>1, <2>1, <3>1, <3>2, <3>3 DEF Abstract!Increasing
    <3>4. CASE j = Len(s) + 1
      BY <2>1, <2>2, <3>2, <3>4
    <3> QED BY <3>2, <3>3, <3>4
  <2>4. ASSUME NEW x
        PROVE  x \in {t[i] : i \in DOMAIN t}
               <=> x \in {y \in FromUser : m < y /\ y <= n}
    <3>1. ASSUME NEW i \in DOMAIN t
          PROVE  t[i] \in {y \in FromUser : m < y /\ y <= n}
      <4>1. CASE i \in DOMAIN s
        BY <2>1, <2>2, <4>1
      <4>2. CASE i = Len(s) + 1
        BY <1>3, <2>1, <4>2
      <4> QED BY <2>1, <4>1, <4>2
    <3>2. ASSUME x \in FromUser, m < x, x <= n
          PROVE  \E i \in DOMAIN t : t[i] = x
      <4>1. CASE x = n
        <5>1. Len(s) + 1 \in DOMAIN t
          BY <2>1
        <5> QED BY <2>1, <4>1, <5>1
      <4>2. CASE x # n
        <5>1. x \in {y \in FromUser : m < y /\ y <= n - 1}
          BY <3>2, <4>2
        <5>2. PICK i \in DOMAIN s : s[i] = x
          BY <1>1, <5>1
        <5>3. i \in DOMAIN t /\ t[i] = x
          BY <2>1, <5>2
        <5> QED BY <5>3
      <4> QED BY <4>1, <4>2
    <3> QED BY <3>1, <3>2
  <2>5. Abstract!Lists(t, m, n)
    BY <2>1, <2>3, <2>4 DEF Abstract!Lists
  <2> QED BY <1>3, <2>5 DEF t
<1> QED BY <1>2, <1>3

\* PollMessages returns the user messages after the cursor, all and in order.
LEMMA NewMessagesLists ==
  ASSUME NEW from \in Nat, sent \in Nat, from <= sent
  PROVE  Abstract!Lists(NewMessages(from), from, sent)
<1>0. FromUser \subseteq Nat
  BY PollAssumption
<1>1. PICK f : /\ NewMessages(from) = f[sent] /\ f[from] = <<>>
               /\ \A n \in (from + 1) .. sent :
                    f[n] = IF n \in FromUser THEN Append(f[n-1], n) ELSE f[n-1]
  BY NewMessagesIs
<1> DEFINE B == {n \in from .. sent : ~Abstract!Lists(f[n], from, n)}
<1>2. SUFFICES ASSUME B # {} PROVE FALSE
  BY <1>1
<1>3. B \in SUBSET Nat
  OBVIOUS
<1>4. PICK k \in B : \A j \in B : k <= j
  BY <1>2, <1>3, LeastOf
<1>5. CASE k = from
  <2>1. /\ DOMAIN f[from] = {} /\ f[from] \in Seq(FromUser)
        /\ {f[from][i] : i \in DOMAIN f[from]} = {}
    BY <1>1, EmptySeq
  <2>2. {x \in FromUser : from < x /\ x <= from} = {}
    <3>1. \A x \in FromUser : ~(from < x /\ x <= from)
      <4>1. \A x \in Nat : ~(from < x /\ x <= from)
        OBVIOUS
      <4> QED BY <1>0, <4>1
    <3> QED BY <3>1
  <2>3. Abstract!Lists(f[from], from, from)
    BY <2>1, <2>2 DEF Abstract!Lists, Abstract!Increasing
  <2> QED BY <1>4, <1>5, <2>3
<1>6. CASE k > from
  <2>1. /\ k - 1 \in from .. sent /\ k \in (from + 1) .. sent /\ k \in Nat
        /\ ~(k <= k - 1)
    BY <1>4, <1>6
  <2>2. Abstract!Lists(f[k-1], from, k - 1)
    BY <1>4, <2>1
  <2>3. Abstract!Lists(f[k], from, k)
    BY <1>0, <1>1, <1>6, <2>1, <2>2, ListsNext
  <2> QED BY <1>4, <2>3
<1> QED BY <1>4, <1>5, <1>6

-----------------------------------------------------------------------------
(* The order of what is delivered.                                         *)

\* What PollLoop takes for the variables of Delivery.
pending  == IF Delivering = {} THEN <<>>
            ELSE loop[CHOOSE l \in Delivering : TRUE].batch
out      == received \o msgCh
delivery == <<sent, getUpdatesBuf, pending, out>>

\* Everything handed over or pending is passed; with the order, inductive.
Passed(s, n) == s \in Seq(FromUser) /\ \A i \in DOMAIN s : s[i] <= n
DeliveryInv ==
  /\ sent \in Nat /\ getUpdatesBuf \in Nat
  /\ out \in Seq(FromUser) /\ pending \in Seq(FromUser)
  /\ Passed(out \o pending, getUpdatesBuf)
  /\ Abstract!InOrder

\* What is known of a concatenation.
LEMMA Concatenation ==
  ASSUME NEW s \in Seq(FromUser), NEW t \in Seq(FromUser)
  PROVE  /\ s \o t \in Seq(FromUser) /\ Len(s \o t) = Len(s) + Len(t)
         /\ \A i \in 1 .. Len(s) : (s \o t)[i] = s[i]
         /\ \A i \in 1 .. Len(t) : (s \o t)[Len(s) + i] = t[i]
         /\ s \o <<>> = s
OBVIOUS

\* A batch of newer messages may follow what the cursor has passed.
LEMMA NewBatch ==
  ASSUME FromUser \subseteq Nat,
         NEW s \in Seq(FromUser), NEW t, NEW m \in Nat, NEW n \in Nat, m <= n,
         Abstract!Increasing(s), Passed(s, m), Abstract!Lists(t, m, n)
  PROVE  Abstract!Increasing(s \o t) /\ Passed(s \o t, n)
<1> DEFINE u == s \o t
<1>1. t \in Seq(FromUser) /\ Abstract!Increasing(t)
      /\ \A i \in DOMAIN t : m < t[i] /\ t[i] <= n
  BY DEF Abstract!Lists
<1>0. /\ \A i \in DOMAIN s : s[i] \in Nat /\ s[i] <= m
      /\ \A i \in DOMAIN t : t[i] \in Nat
  <2>1. \A x \in FromUser : x \in Nat
    OBVIOUS
  <2>2. /\ \A i \in DOMAIN s : s[i] \in FromUser /\ s[i] <= m
        /\ \A i \in DOMAIN t : t[i] \in FromUser
    BY <1>1 DEF Passed
  <2> QED BY <2>1, <2>2
<1>2. /\ u \in Seq(FromUser) /\ Len(u) = Len(s) + Len(t)
      /\ \A i \in 1 .. Len(s) : u[i] = s[i]
      /\ \A i \in 1 .. Len(t) : u[Len(s) + i] = t[i]
  BY <1>1, Concatenation
<1>3. \A i \in DOMAIN u :
        \/ i \in DOMAIN s /\ u[i] = s[i]
        \/ i - Len(s) \in DOMAIN t /\ u[i] = t[i - Len(s)]
  BY <1>1, <1>2
<1> HIDE DEF u
<1>4. \A i \in DOMAIN u : u[i] <= n
  BY <1>0, <1>1, <1>3
<1>5. ASSUME NEW i \in DOMAIN u, NEW j \in DOMAIN u, i < j
      PROVE  u[i] < u[j]
  <2>0. i \in Nat /\ j \in Nat /\ Len(s) \in Nat
    BY <1>2
  <2>1. CASE j \in DOMAIN s /\ u[j] = s[j]
    <3>1. i \in DOMAIN s /\ u[i] = s[i]
      BY <1>2, <1>5, <2>0, <2>1
    <3> QED BY <1>5, <2>1, <3>1 DEF Abstract!Increasing
  <2>2. CASE j - Len(s) \in DOMAIN t /\ u[j] = t[j - Len(s)]
    <3>1. CASE i \in DOMAIN s /\ u[i] = s[i]
      <4>1. u[i] \in Nat /\ u[j] \in Nat /\ u[i] <= m /\ m < u[j]
        BY <1>0, <1>1, <2>2, <3>1
      <4> QED BY <4>1
    <3>2. CASE i - Len(s) \in DOMAIN t /\ u[i] = t[i - Len(s)]
      <4>1. i - Len(s) < j - Len(s)
        BY <1>5, <2>0
      <4> QED BY <1>1, <2>2, <3>2, <4>1 DEF Abstract!Increasing
    <3> QED BY <1>3, <3>1, <3>2
  <2> QED BY <1>3, <2>1, <2>2
<1>6. u \in Seq(FromUser)
  BY <1>2
<1> QED BY <1>4, <1>5, <1>6 DEF u, Abstract!Increasing, Passed

\* Handing over one message leaves the whole sequence as it was.
LEMMA OneMoves ==
  ASSUME NEW s \in Seq(FromUser), NEW t \in Seq(FromUser), t # <<>>
  PROVE  /\ Append(s, Head(t)) \o Tail(t) = s \o t
         /\ Append(s, Head(t)) \in Seq(FromUser) /\ Tail(t) \in Seq(FromUser)
OBVIOUS

\* Leaving out the end keeps the order.
LEMMA Shorter ==
  ASSUME NEW s \in Seq(FromUser), NEW t \in Seq(FromUser), NEW n \in Nat,
         Abstract!Increasing(s \o t), Passed(s \o t, n)
  PROVE  Abstract!Increasing(s) /\ Passed(s, n)
<1>1. /\ \A i \in DOMAIN s : i \in DOMAIN (s \o t) /\ (s \o t)[i] = s[i]
  BY Concatenation
<1> HIDE DEF Abstract!Increasing
<1>2. Abstract!Increasing(s)
  BY <1>1 DEF Abstract!Increasing
<1>3. Passed(s, n)
  BY <1>1 DEF Passed
<1> QED BY <1>2, <1>3

\* Whatever implements Delivery hands nothing over twice or out of order.
THEOREM Order == Abstract!Spec => []Abstract!InOrder
<1>0. FromUser \subseteq Nat
  BY PollAssumption
<1>1. Abstract!Init => DeliveryInv
  <2> SUFFICES ASSUME Abstract!Init PROVE DeliveryInv
    OBVIOUS
  <2>1. sent = 0 /\ getUpdatesBuf = 0 /\ pending = <<>> /\ out = <<>>
    BY DEF Abstract!Init, pending, out
  <2>2. out \o pending = <<>> /\ <<>> \in Seq(FromUser) /\ DOMAIN <<>> = {}
    BY <2>1
  <2>3. Abstract!Increasing(out \o pending) /\ Passed(out \o pending, getUpdatesBuf)
    BY <2>2 DEF Abstract!Increasing, Passed
  <2>4. Abstract!InOrder
    BY <2>3 DEF Abstract!InOrder, pending, out
  <2> QED BY <2>1, <2>2, <2>3, <2>4 DEF DeliveryInv
<1>2. ASSUME DeliveryInv, [Abstract!Next]_delivery
      PROVE  DeliveryInv'
  <2>0. /\ sent \in Nat /\ getUpdatesBuf \in Nat
        /\ out \in Seq(FromUser) /\ pending \in Seq(FromUser)
        /\ Passed(out \o pending, getUpdatesBuf)
        /\ Abstract!Increasing(out \o pending)
    BY <1>2 DEF DeliveryInv, Abstract!InOrder, pending, out
  <2>01. SUFFICES /\ sent' \in Nat /\ getUpdatesBuf' \in Nat
                  /\ out' \in Seq(FromUser) /\ pending' \in Seq(FromUser)
                  /\ Passed(out' \o pending', getUpdatesBuf')
                  /\ Abstract!Increasing(out' \o pending')
    BY DEF DeliveryInv, Abstract!InOrder, Abstract!Increasing, Passed, pending, out
  <2>1. CASE Abstract!Arrive
    <3>1. sent' = sent + 1 /\ getUpdatesBuf' = getUpdatesBuf
          /\ pending' = pending /\ out' = out
      BY <2>1 DEF Abstract!Arrive, pending, out
    <3> QED BY <2>0, <3>1
  <2>2. CASE Abstract!Take
    <3>1. /\ getUpdatesBuf' \in getUpdatesBuf .. sent
          /\ sent' = sent /\ out' = out /\ pending = <<>>
          /\ Abstract!Lists(pending', getUpdatesBuf, getUpdatesBuf')
      BY <2>2 DEF Abstract!Take, pending, out
    <3>2. Abstract!Increasing(out) /\ Passed(out, getUpdatesBuf)
      <4>1. out \o pending = out
        BY <2>0, <3>1, Concatenation
      <4> QED BY <2>0, <4>1
    <3>3. /\ Abstract!Increasing(out \o pending')
          /\ Passed(out \o pending', getUpdatesBuf')
      BY <1>0, <2>0, <3>1, <3>2, NewBatch
    <3>4. pending' \in Seq(FromUser)
      BY <3>1 DEF Abstract!Lists
    <3> QED BY <2>0, <3>1, <3>3, <3>4
  <2>3. CASE Abstract!HandOver
    <3>1. /\ pending # <<>> /\ sent' = sent /\ getUpdatesBuf' = getUpdatesBuf
          /\ out' = Append(out, Head(pending)) /\ pending' = Tail(pending)
      BY <2>3 DEF Abstract!HandOver, pending, out
    <3>2. /\ out' \o pending' = out \o pending
          /\ out' \in Seq(FromUser) /\ pending' \in Seq(FromUser)
      BY <2>0, <3>1, OneMoves
    <3> QED BY <2>0, <3>1, <3>2
  <2>4. CASE Abstract!Drop
    <3>1. /\ pending' = <<>> /\ out' = out /\ sent' = sent
          /\ getUpdatesBuf' = getUpdatesBuf
      BY <2>4 DEF Abstract!Drop, pending, out
    <3>2. Abstract!Increasing(out) /\ Passed(out, getUpdatesBuf)
      BY <2>0, Shorter
    <3>3. out \o <<>> = out /\ <<>> \in Seq(FromUser)
      BY <2>0, Concatenation
    <3> QED BY <2>0, <3>1, <3>2, <3>3
  <2>5. CASE UNCHANGED delivery
    BY <2>0, <2>5 DEF delivery
  <2> QED
    BY <1>2, <2>1, <2>2, <2>3, <2>4, <2>5 DEF Abstract!Next
<1>3. DeliveryInv => Abstract!InOrder
  BY DEF DeliveryInv
<1>4. Abstract!Spec => Abstract!Init /\ [][Abstract!Next]_delivery
  BY DEF Abstract!Spec, delivery, pending, out
<1> QED BY <1>1, <1>2, <1>3, <1>4, PTL

-----------------------------------------------------------------------------
(* Types, with what every loop knows of the batch it delivers.             *)

LoopPcs == {"none", "top", "status", "pause", "begin", "poll", "failed", "lost",
            "store", "contact", "send", "exit", "flag", "gone"}
LoopRecord == [pc : LoopPcs, ch : Nat, upto : Nat, batch : Seq(FromUser)]
CallerRecord == [pc : {"idle", "await", "fresh", "spawn"}, ch : Nat]

\* A loop of generation g at most, of a server with n messages.
Plausible(r, g, n) ==
  /\ r \in LoopRecord /\ r.ch <= g /\ r.upto <= n
  /\ \A i \in DOMAIN r.batch : r.batch[i] <= r.upto
  /\ r.pc \in {"contact", "send"} => r.batch # <<>>
  /\ r.pc \notin {"store", "contact", "send"} => r.batch = <<>>

ChansTyped ==
  gen \in Nat /\ stopClosed \cup doneClosed \cup cancelled \subseteq 0 .. gen
FlagsTyped ==
  /\ pollRunning \in BOOLEAN /\ panicked \in BOOLEAN
  /\ status \in {"connected", "disconnected", "expired"}
MessagesTyped ==
  /\ sent \in Nat /\ getUpdatesBuf \in 0 .. sent /\ lastContact \in 0 .. sent
  /\ msgCh \in Seq(FromUser) /\ Len(msgCh) <= Capacity
  /\ received \in Seq(FromUser)
LoopsTyped ==
  /\ loop \in [Loops -> LoopRecord]
  /\ \A l \in Loops : Plausible(loop[l], gen, sent)
CallersTyped ==
  /\ caller \in [Callers -> CallerRecord]
  /\ \A k \in Callers : caller[k].ch <= gen

Typed ==
  ChansTyped /\ FlagsTyped /\ MessagesTyped /\ LoopsTyped /\ CallersTyped

\* One loop changes, in a step that leaves the generation and the messages.
LEMMA LoopChanges ==
  ASSUME LoopsTyped, gen' = gen, sent' = sent,
         NEW l \in Loops, NEW r, Plausible(r, gen, sent),
         loop' = [loop EXCEPT ![l] = r]
  PROVE  LoopsTyped'
<1>1. r \in LoopRecord
  BY DEF Plausible
<1>2. loop' \in [Loops -> LoopRecord]
  BY <1>1 DEF LoopsTyped
<1>3. ASSUME NEW m \in Loops PROVE Plausible(loop'[m], gen, sent)
  <2>1. loop'[m] = IF m = l THEN r ELSE loop[m]
    BY DEF LoopsTyped
  <2> QED BY <2>1 DEF LoopsTyped
<1> QED BY <1>2, <1>3 DEF LoopsTyped

\* The same of a loop that only goes on.
LEMMA GotoTyped ==
  ASSUME Typed, NEW l \in Loops, NEW pc \in LoopPcs, Goto(l, pc),
         pc \in {"contact", "send"} => loop[l].batch # <<>>,
         pc \notin {"store", "contact", "send"} => loop[l].batch = <<>>,
         gen' = gen, sent' = sent
  PROVE  LoopsTyped'
<1> DEFINE r == [loop[l] EXCEPT !.pc = pc]
<1>1. loop[l] \in LoopRecord /\ Plausible(loop[l], gen, sent)
  BY DEF Typed, LoopsTyped
<1>2. /\ r \in LoopRecord /\ r.pc = pc /\ r.ch = loop[l].ch
      /\ r.upto = loop[l].upto /\ r.batch = loop[l].batch
  BY <1>1 DEF LoopRecord
<1>3. loop' = [loop EXCEPT ![l] = r]
  BY DEF Goto
<1> HIDE DEF r
<1>4. Plausible(r, gen, sent)
  BY <1>1, <1>2 DEF Plausible
<1> QED
  BY <1>3, <1>4, LoopChanges DEF Typed

\* And of one that waits in a select.
LEMMA SelectTyped ==
  ASSUME Typed, NEW l \in Loops, NEW pc \in LoopPcs, Select(l, pc),
         pc \in {"contact", "send"} => loop[l].batch # <<>>,
         pc \notin {"store", "contact", "send"} => loop[l].batch = <<>>,
         gen' = gen, sent' = sent
  PROVE  LoopsTyped'
<1> DEFINE r == [loop[l] EXCEPT !.pc = pc, !.ch = gen]
<1>1. loop[l] \in LoopRecord /\ Plausible(loop[l], gen, sent) /\ gen \in Nat
  BY DEF Typed, LoopsTyped, ChansTyped
<1>2. /\ r \in LoopRecord /\ r.pc = pc /\ r.ch = gen
      /\ r.upto = loop[l].upto /\ r.batch = loop[l].batch
  BY <1>1 DEF LoopRecord
<1>3. loop' = [loop EXCEPT ![l] = r]
  BY DEF Select
<1> HIDE DEF r
<1>4. Plausible(r, gen, sent)
  BY <1>1, <1>2 DEF Plausible
<1> QED
  BY <1>3, <1>4, LoopChanges DEF Typed

\* The loop and its batch, of a state that is typed.
LEMMA BatchFacts ==
  ASSUME Typed, NEW l \in Loops
  PROVE  /\ loop[l] \in LoopRecord /\ loop[l].batch \in Seq(FromUser)
         /\ loop[l].upto \in Nat /\ loop[l].upto <= sent
         /\ \A i \in DOMAIN loop[l].batch :
              loop[l].batch[i] \in FromUser /\ loop[l].batch[i] <= loop[l].upto
         /\ loop[l].batch # <<>> =>
              /\ Head(loop[l].batch) \in FromUser
              /\ Head(loop[l].batch) \in 0 .. sent
              /\ Tail(loop[l].batch) \in Seq(FromUser)
              /\ \A i \in DOMAIN Tail(loop[l].batch) :
                   Tail(loop[l].batch)[i] <= loop[l].upto
<1> DEFINE b == loop[l].batch
<1>1. /\ loop[l] \in LoopRecord /\ b \in Seq(FromUser) /\ sent \in Nat
      /\ loop[l].upto \in Nat /\ loop[l].upto <= sent
      /\ \A i \in DOMAIN b : b[i] <= loop[l].upto
  BY DEF Typed, LoopsTyped, MessagesTyped, Plausible, LoopRecord
<1> HIDE DEF b
<1>2. \A i \in DOMAIN b : b[i] \in FromUser
  BY <1>1
<1>3. ASSUME b # <<>>
      PROVE  /\ Head(b) \in FromUser /\ Head(b) \in 0 .. sent
             /\ Tail(b) \in Seq(FromUser)
             /\ \A i \in DOMAIN Tail(b) : Tail(b)[i] <= loop[l].upto
  <2>1. /\ Head(b) = b[1] /\ 1 \in DOMAIN b /\ Tail(b) \in Seq(FromUser)
        /\ Len(b) \in Nat /\ DOMAIN b = 1 .. Len(b)
        /\ Len(Tail(b)) = Len(b) - 1
        /\ \A i \in 1 .. (Len(b) - 1) : Tail(b)[i] = b[i+1]
    BY <1>1, <1>3, HeadTailProperties, LenProperties
  <2>2. Head(b) \in Nat /\ Head(b) <= sent
    <3>1. b[1] \in FromUser /\ b[1] <= loop[l].upto
      BY <1>1, <1>2, <2>1
    <3>2. b[1] \in Nat
      BY <3>1, PollAssumption
    <3> QED BY <1>1, <2>1, <3>1, <3>2
  <2>3. DOMAIN Tail(b) = 1 .. (Len(b) - 1)
    BY <2>1, LenProperties
  <2>4. \A i \in 1 .. (Len(b) - 1) : i + 1 \in DOMAIN b
    BY <2>1
  <2> QED BY <1>1, <1>2, <2>1, <2>2, <2>3, <2>4
<1> QED BY <1>1, <1>2, <1>3 DEF b

\* The types hold at first.
LEMMA TypedInit == Init => Typed
<1> SUFFICES ASSUME Init PROVE Typed
  OBVIOUS
<1>1. Nothing \in LoopRecord
  BY DEF Nothing, LoopRecord, LoopPcs
<1>2. LoopsTyped
  BY <1>1 DEF Init, LoopsTyped, Plausible, Nothing
<1>3. ChansTyped /\ CallersTyped
  BY DEF Init, ChansTyped, CallersTyped, CallerRecord
<1>4. FlagsTyped
  BY DEF Init, FlagsTyped
<1>5. MessagesTyped
  <2>1. <<>> \in Seq(FromUser) /\ Len(<<>>) <= Capacity
    BY EmptySeq, PollAssumption
  <2>2. /\ sent = 0 /\ getUpdatesBuf = 0 /\ lastContact = 0
        /\ msgCh = <<>> /\ received = <<>>
    BY DEF Init
  <2> QED BY <2>1, <2>2 DEF MessagesTyped
<1> QED BY <1>2, <1>3, <1>4, <1>5 DEF Typed

\* Each step of a loop.
LEMMA LoopTyped ==
  ASSUME Typed, NEW l \in Loops, PollStep(l)
  PROVE  Typed'
<1> USE DEF LoopPcs
<1>0. /\ ChansTyped /\ FlagsTyped /\ MessagesTyped /\ CallersTyped /\ LoopsTyped
      /\ gen \in Nat /\ sent \in Nat
  BY DEF Typed, ChansTyped, MessagesTyped
<1>a. ASSUME LoopOnly, LoopsTyped' PROVE Typed'
  <2>1. UNCHANGED <<gen, stopClosed, doneClosed, cancelled, pollRunning, status,
                    getUpdatesBuf, lastContact, msgCh, sent, received, caller,
                    panicked>>
    BY <1>a DEF LoopOnly, chans, flags, messages
  <2> QED
    BY <1>0, <1>a, <2>1
       DEF Typed, ChansTyped, FlagsTyped, MessagesTyped, CallersTyped
<1>b. LoopOnly => gen' = gen /\ sent' = sent
  BY DEF LoopOnly, chans, messages
<1>d. /\ loop[l] \in LoopRecord /\ loop[l].ch \in Nat /\ loop[l].ch <= gen
      /\ loop[l].upto \in Nat /\ loop[l].upto <= sent
      /\ Plausible(loop[l], gen, sent)
      /\ loop[l].pc \notin {"store", "contact", "send"} => loop[l].batch = <<>>
  BY DEF Typed, LoopsTyped, Plausible, LoopRecord
<1>1. CASE Top(l)
  BY <1>1, <1>a, <1>b, <1>d, GotoTyped DEF Top
<1>2. CASE CheckStatus(l)
  BY <1>2, <1>a, <1>b, <1>d, GotoTyped, SelectTyped DEF CheckStatus
<1>3. CASE Pause(l)
  BY <1>3, <1>a, <1>b, <1>d, GotoTyped DEF Pause
<1>4. CASE BeginPoll(l)
  <2> DEFINE r == [loop[l] EXCEPT !.pc = "poll", !.ch = gen, !.upto = getUpdatesBuf]
  <2>1. loop' = [loop EXCEPT ![l] = r] /\ LoopOnly
    BY <1>4 DEF BeginPoll
  <2>2. getUpdatesBuf \in Nat /\ getUpdatesBuf <= sent
    BY <1>0 DEF MessagesTyped
  <2>3. /\ r \in LoopRecord /\ r.pc = "poll" /\ r.ch = gen
        /\ r.upto = getUpdatesBuf /\ r.batch = <<>>
    BY <1>0, <1>4, <1>d, <2>2 DEF LoopRecord, BeginPoll
  <2> HIDE DEF r
  <2>5. Plausible(r, gen, sent)
    BY <1>0, <1>d, <2>2, <2>3 DEF Plausible
  <2> QED BY <1>0, <1>a, <1>b, <2>1, <2>5, LoopChanges
<1>5. CASE PollReturns(l)
  <2> DEFINE b == NewMessages(loop[l].upto)
             r == [loop[l] EXCEPT !.pc = "store", !.upto = sent, !.batch = b]
  <2>1. loop' = [loop EXCEPT ![l] = r] /\ LoopOnly
    BY <1>5 DEF PollReturns
  <2>2. Abstract!Lists(b, loop[l].upto, sent)
    BY <1>0, <1>d, NewMessagesLists
  <2> HIDE DEF b
  <2>3. b \in Seq(FromUser) /\ \A i \in DOMAIN b : b[i] <= sent
    <3>1. \A i \in DOMAIN b :
            b[i] \in {x \in FromUser : loop[l].upto < x /\ x <= sent}
      BY <2>2 DEF Abstract!Lists
    <3> QED BY <2>2, <3>1 DEF Abstract!Lists
  <2>4. /\ r \in LoopRecord /\ r.pc = "store" /\ r.ch = loop[l].ch
        /\ r.upto = sent /\ r.batch = b
    BY <1>0, <1>d, <2>3 DEF LoopRecord
  <2> HIDE DEF r
  <2>5. Plausible(r, gen, sent)
    BY <1>0, <1>b, <1>d, <2>1, <2>3, <2>4 DEF Plausible
  <2> QED BY <1>0, <1>a, <1>b, <2>1, <2>5, LoopChanges
<1>6. CASE PollFails(l)
  BY <1>6, <1>a, <1>b, <1>d, GotoTyped DEF PollFails
<1>7. CASE CheckFailed(l)
  BY <1>7, <1>a, <1>b, <1>d, GotoTyped DEF CheckFailed
<1>8. CASE Lost(l)
  <2>1. /\ status' = "disconnected" /\ Select(l, "pause") /\ loop[l].batch = <<>>
        /\ UNCHANGED <<gen, stopClosed, doneClosed, cancelled, pollRunning,
                       getUpdatesBuf, lastContact, msgCh, sent, received, caller,
                       panicked>>
    BY <1>8, <1>d DEF Lost, chans, messages
  <2>2. LoopsTyped'
    BY <2>1, SelectTyped
  <2> QED
    BY <1>0, <2>1, <2>2
       DEF Typed, ChansTyped, FlagsTyped, MessagesTyped, CallersTyped
<1>9. CASE StoreCursor(l)
  <2>1. /\ getUpdatesBuf' = loop[l].upto
        /\ \E pc \in {"top", "contact"} :
             Goto(l, pc) /\ (pc = "top" <=> loop[l].batch = <<>>)
        /\ UNCHANGED <<gen, stopClosed, doneClosed, cancelled, pollRunning, status,
                       lastContact, msgCh, sent, received, caller, panicked>>
    BY <1>9 DEF StoreCursor, chans, flags
  <2>2. LoopsTyped'
    BY <2>1, GotoTyped
  <2>3. getUpdatesBuf' \in 0 .. sent
    BY <1>0, <1>d, <2>1
  <2> QED
    BY <1>0, <2>1, <2>2, <2>3
       DEF Typed, ChansTyped, FlagsTyped, MessagesTyped, CallersTyped
<1>10. CASE StoreContact(l)
  <2>1. /\ lastContact' = Head(loop[l].batch) /\ Select(l, "send")
        /\ loop[l].pc = "contact"
        /\ UNCHANGED <<gen, stopClosed, doneClosed, cancelled, pollRunning, status,
                       getUpdatesBuf, msgCh, sent, received, caller, panicked>>
    BY <1>10 DEF StoreContact, chans, flags
  <2>2. loop[l].batch # <<>>
    BY <1>d, <2>1 DEF Plausible
  <2>3. LoopsTyped'
    BY <2>1, <2>2, SelectTyped
  <2>4. lastContact' \in 0 .. sent
    BY <2>1, <2>2, BatchFacts
  <2> QED
    BY <1>0, <2>1, <2>3, <2>4
       DEF Typed, ChansTyped, FlagsTyped, MessagesTyped, CallersTyped
<1>11. CASE SendOnly(l)
  <2> DEFINE b == loop[l].batch
             pc == IF Tail(b) = <<>> THEN "top" ELSE "contact"
             r == [loop[l] EXCEPT !.batch = Tail(b), !.pc = pc]
  <2>1. /\ loop[l].pc = "send" /\ Len(msgCh) < Capacity
        /\ msgCh' = Append(msgCh, Head(b)) /\ loop' = [loop EXCEPT ![l] = r]
        /\ UNCHANGED <<gen, stopClosed, doneClosed, cancelled, pollRunning, status,
                       getUpdatesBuf, lastContact, sent, received, caller, panicked>>
    BY <1>11 DEF SendOnly, AfterSend, chans, flags
  <2>2. b # <<>>
    BY <1>d, <2>1 DEF Plausible
  <2>3. /\ Head(b) \in FromUser /\ Tail(b) \in Seq(FromUser)
        /\ \A i \in DOMAIN Tail(b) : Tail(b)[i] <= loop[l].upto
    BY <2>2, BatchFacts
  <2>4. /\ r \in LoopRecord /\ r.pc = pc /\ r.ch = loop[l].ch
        /\ r.upto = loop[l].upto /\ r.batch = Tail(b)
    BY <1>d, <2>3 DEF LoopRecord
  <2> HIDE DEF r, b
  <2>5. Plausible(r, gen, sent)
    BY <1>d, <2>1, <2>3, <2>4 DEF Plausible
  <2>6. LoopsTyped'
    BY <1>0, <2>1, <2>5, LoopChanges
  <2>7. msgCh' \in Seq(FromUser) /\ Len(msgCh') <= Capacity
    <3>1. msgCh \in Seq(FromUser) /\ Len(msgCh) \in Nat /\ Capacity \in Nat
      BY <1>0, LenProperties, PollAssumption DEF MessagesTyped
    <3>2. msgCh' \in Seq(FromUser) /\ Len(msgCh') = Len(msgCh) + 1
      BY <2>1, <2>3, <3>1, AppendProperties
    <3> QED BY <2>1, <3>1, <3>2
  <2> QED
    BY <1>0, <2>1, <2>6, <2>7
       DEF Typed, ChansTyped, FlagsTyped, MessagesTyped, CallersTyped
<1>12. CASE Told(l) /\ loop' = [loop EXCEPT ![l].batch = <<>>, ![l].pc = "exit"]
            /\ LoopOnly
  <2> DEFINE r == [loop[l] EXCEPT !.batch = <<>>, !.pc = "exit"]
  <2>1. loop' = [loop EXCEPT ![l] = r]
    BY <1>12
  <2>2. /\ r \in LoopRecord /\ r.pc = "exit" /\ r.ch = loop[l].ch
        /\ r.upto = loop[l].upto /\ r.batch = <<>>
    <3>1. <<>> \in Seq(FromUser)
      BY EmptySeq
    <3> QED BY <1>d, <3>1 DEF LoopRecord
  <2> HIDE DEF r
  <2>3. Plausible(r, gen, sent)
    BY <1>b, <1>d, <1>12, <2>2 DEF Plausible
  <2> QED BY <1>0, <1>12, <1>a, <1>b, <2>1, <2>3, LoopChanges
<1>13. CASE CloseDone(l)
  <2>1. /\ doneClosed' = doneClosed \cup {gen} /\ Goto(l, "flag")
        /\ loop[l].batch = <<>>
        /\ UNCHANGED <<gen, stopClosed, cancelled, pollRunning, status,
                       getUpdatesBuf, lastContact, msgCh, sent, received, caller>>
    BY <1>13, <1>d DEF CloseDone, flags, messages
  <2>2. panicked' \in BOOLEAN
    BY <1>13 DEF CloseDone
  <2>3. LoopsTyped'
    BY <2>1, GotoTyped
  <2>4. ChansTyped'
    BY <1>0, <2>1 DEF ChansTyped
  <2> QED
    BY <1>0, <2>1, <2>2, <2>3, <2>4
       DEF Typed, FlagsTyped, MessagesTyped, CallersTyped
<1>14. CASE ClearRunning(l)
  <2>1. /\ pollRunning' = FALSE /\ Goto(l, "gone") /\ loop[l].batch = <<>>
        /\ UNCHANGED <<gen, stopClosed, doneClosed, cancelled, status,
                       getUpdatesBuf, lastContact, msgCh, sent, received, caller,
                       panicked>>
    BY <1>14, <1>d DEF ClearRunning, chans, messages
  <2>2. LoopsTyped'
    BY <2>1, GotoTyped
  <2> QED
    BY <1>0, <2>1, <2>2
       DEF Typed, ChansTyped, FlagsTyped, MessagesTyped, CallersTyped
<1> QED
  BY <1>1, <1>2, <1>3, <1>4, <1>5, <1>6, <1>7, <1>8, <1>9, <1>10, <1>11, <1>12,
     <1>13, <1>14 DEF PollStep, Send

\* Only a caller moves, and the generation and the messages only grow.
LEMMA CallerMoves ==
  ASSUME Typed, NEW k \in Callers, NEW pc \in {"idle", "await", "fresh", "spawn"},
         NEW ch \in Nat, AtCaller(k, pc, ch), gen' \in Nat, gen <= gen', ch <= gen'
  PROVE  CallersTyped'
<1>1. caller \in [Callers -> CallerRecord] /\ \A j \in Callers : caller[j].ch <= gen
  BY DEF Typed, CallersTyped
<1>2. [pc |-> pc, ch |-> ch] \in CallerRecord
  BY DEF CallerRecord
<1>3. caller' \in [Callers -> CallerRecord]
  BY <1>1, <1>2 DEF AtCaller
<1>4. ASSUME NEW j \in Callers PROVE caller'[j].ch <= gen'
  <2>1. CASE j = k
    <3>1. caller'[j] = [pc |-> pc, ch |-> ch]
      BY <1>1, <2>1 DEF AtCaller
    <3> QED BY <3>1
  <2>2. CASE j # k
    <3>1. caller'[j] = caller[j] /\ caller[j].ch \in Nat /\ gen \in Nat
      BY <1>1, <2>2 DEF AtCaller, CallerRecord, Typed, ChansTyped
    <3> QED BY <1>1, <3>1
  <2> QED BY <2>1, <2>2
<1> QED BY <1>3, <1>4 DEF CallersTyped

\* A larger generation, or more messages, change nothing for the loops.
LEMMA LoopsStay ==
  ASSUME LoopsTyped, gen \in Nat, sent \in Nat, gen' \in Nat, sent' \in Nat,
         gen <= gen', sent <= sent', loop' = loop
  PROVE  LoopsTyped'
<1>1. ASSUME NEW l \in Loops PROVE Plausible(loop[l], gen', sent')
  <2>1. Plausible(loop[l], gen, sent) /\ loop[l].ch \in Nat /\ loop[l].upto \in Nat
    BY DEF LoopsTyped, LoopRecord
  <2> QED BY <2>1 DEF Plausible
<1> QED BY <1>1 DEF LoopsTyped

\* Every step keeps the types.
LEMMA TypedNext == Typed /\ [Next]_vars => Typed'
<1> SUFFICES ASSUME Typed, [Next]_vars PROVE Typed'
  OBVIOUS
<1>0. /\ ChansTyped /\ FlagsTyped /\ MessagesTyped /\ CallersTyped /\ LoopsTyped
      /\ gen \in Nat /\ sent \in Nat
  BY DEF Typed, ChansTyped, MessagesTyped
<1>1. ASSUME NEW k \in Starters, Starting(k) PROVE Typed'
  <2>0. k \in Callers
    BY DEF Callers
  <2>1. CASE StartSignal(k)
    <3>1. /\ UNCHANGED <<gen, doneClosed, pollRunning, status, getUpdatesBuf,
                         lastContact, msgCh, sent, received, loop, panicked>>
          /\ stopClosed' \subseteq stopClosed \cup {gen}
          /\ cancelled' = cancelled \cup {gen}
          /\ \E pc \in {"await", "fresh"} : AtCaller(k, pc, gen)
      BY <2>1 DEF StartSignal, flags, messages
    <3>2. CallersTyped'
      BY <1>0, <2>0, <3>1, CallerMoves
    <3>3. ChansTyped'
      BY <1>0, <3>1 DEF ChansTyped
    <3> QED
      BY <1>0, <3>1, <3>2, <3>3
         DEF Typed, FlagsTyped, MessagesTyped, LoopsTyped
  <2>2. CASE StartWaited(k)
    <3>1. /\ AtCaller(k, "fresh", gen)
          /\ UNCHANGED <<chans, flags, messages, loop, panicked>>
      BY <2>2 DEF StartWaited
    <3>2. UNCHANGED <<gen, stopClosed, doneClosed, cancelled, pollRunning, status,
                      getUpdatesBuf, lastContact, msgCh, sent, received, loop,
                      panicked>>
      BY <3>1 DEF chans, flags, messages
    <3>3. CallersTyped'
      BY <1>0, <2>0, <3>1, <3>2, CallerMoves
    <3> QED
      BY <1>0, <3>2, <3>3
         DEF Typed, ChansTyped, FlagsTyped, MessagesTyped, LoopsTyped
  <2>3. CASE StartFresh(k)
    <3>1. /\ gen' = gen + 1 /\ pollRunning' = TRUE /\ AtCaller(k, "spawn", gen')
          /\ UNCHANGED <<stopClosed, doneClosed, cancelled, status,
                         getUpdatesBuf, lastContact, msgCh, sent, received, loop,
                         panicked>>
      BY <2>3 DEF StartFresh, messages
    <3>2. gen' \in Nat /\ gen <= gen'
      BY <1>0, <3>1
    <3>3. CallersTyped'
      BY <1>0, <2>0, <3>1, <3>2, CallerMoves
    <3>4. LoopsTyped'
      BY <1>0, <3>1, <3>2, LoopsStay
    <3>5. ChansTyped'
      BY <1>0, <3>1, <3>2 DEF ChansTyped
    <3> QED
      BY <1>0, <3>1, <3>3, <3>4, <3>5 DEF Typed, FlagsTyped, MessagesTyped
  <2>4. CASE StartSpawn(k)
    <3>1. /\ AtCaller(k, "idle", 0) /\ status' = "connected"
          /\ \E l \in Loops : loop[l] = Nothing
                              /\ loop' = [loop EXCEPT ![l].pc = "top"]
          /\ UNCHANGED <<gen, stopClosed, doneClosed, cancelled, pollRunning,
                         getUpdatesBuf, lastContact, msgCh, sent, received,
                         panicked>>
      BY <2>4 DEF StartSpawn, chans, messages
    <3>2. CallersTyped'
      BY <1>0, <2>0, <3>1, CallerMoves
    <3>3. LoopsTyped'
      <4>1. PICK l \in Loops : loop[l] = Nothing /\ Goto(l, "top")
        BY <3>1 DEF Goto
      <4>2. loop[l].batch = <<>>
        BY <4>1 DEF Nothing
      <4> QED BY <3>1, <4>1, <4>2, GotoTyped DEF LoopPcs
    <3> QED
      BY <1>0, <3>1, <3>2, <3>3 DEF Typed, ChansTyped, FlagsTyped, MessagesTyped
  <2> QED BY <1>1, <2>1, <2>2, <2>3, <2>4 DEF Starting
<1>2. ASSUME NEW k \in Stoppers, Stopping(k) PROVE Typed'
  <2>0. k \in Callers
    BY DEF Callers
  <2>1. CASE StopSignal(k)
    <3>1. /\ UNCHANGED <<gen, doneClosed, pollRunning, status, getUpdatesBuf,
                         lastContact, msgCh, sent, received, loop, panicked>>
          /\ stopClosed' = stopClosed \cup {gen}
          /\ cancelled' = cancelled \cup {gen}
          /\ AtCaller(k, "await", gen)
      BY <2>1 DEF StopSignal, flags, messages
    <3>2. CallersTyped'
      BY <1>0, <2>0, <3>1, CallerMoves
    <3>3. ChansTyped'
      BY <1>0, <3>1 DEF ChansTyped
    <3> QED
      BY <1>0, <3>1, <3>2, <3>3
         DEF Typed, FlagsTyped, MessagesTyped, LoopsTyped
  <2>2. CASE StopWaited(k)
    <3>1. /\ AtCaller(k, "idle", 0) /\ status' = "disconnected"
          /\ UNCHANGED <<gen, stopClosed, doneClosed, cancelled, pollRunning,
                         getUpdatesBuf, lastContact, msgCh, sent, received, loop,
                         panicked>>
      BY <2>2 DEF StopWaited, chans, messages
    <3>2. CallersTyped'
      BY <1>0, <2>0, <3>1, CallerMoves
    <3> QED
      BY <1>0, <3>1, <3>2
         DEF Typed, ChansTyped, FlagsTyped, MessagesTyped, LoopsTyped
  <2> QED BY <1>2, <2>1, <2>2 DEF Stopping
<1>3. ASSUME NEW l \in Loops, PollStep(l) PROVE Typed'
  BY <1>3, LoopTyped
<1>4. CASE Receive
  <2>1. /\ msgCh # <<>> /\ received' = Append(received, Head(msgCh))
        /\ msgCh' = Tail(msgCh)
        /\ UNCHANGED <<gen, stopClosed, doneClosed, cancelled, pollRunning, status,
                       getUpdatesBuf, lastContact, loop, caller, sent, panicked>>
    BY <1>4 DEF Receive, chans, flags
  <2>2. msgCh \in Seq(FromUser) /\ Len(msgCh) <= Capacity /\ received \in Seq(FromUser)
    BY <1>0 DEF MessagesTyped
  <2>3. /\ Head(msgCh) \in FromUser /\ Tail(msgCh) \in Seq(FromUser)
        /\ Len(Tail(msgCh)) = Len(msgCh) - 1 /\ Len(msgCh) \in Nat
    BY <2>1, <2>2, HeadTailProperties, LenProperties
  <2>4. /\ received' \in Seq(FromUser) /\ msgCh' \in Seq(FromUser)
        /\ Len(msgCh') <= Capacity
    BY <2>1, <2>2, <2>3, AppendProperties, PollAssumption
  <2> QED
    BY <1>0, <2>1, <2>4
       DEF Typed, ChansTyped, FlagsTyped, MessagesTyped, LoopsTyped, CallersTyped
<1>5. CASE NewMessage
  <2>1. /\ sent' = sent + 1
        /\ UNCHANGED <<gen, stopClosed, doneClosed, cancelled, pollRunning, status,
                       getUpdatesBuf, lastContact, msgCh, loop, caller, received,
                       panicked>>
    BY <1>5 DEF NewMessage, chans, flags
  <2>2. LoopsTyped'
    BY <1>0, <2>1, LoopsStay
  <2>3. MessagesTyped'
    BY <1>0, <2>1 DEF MessagesTyped
  <2> QED
    BY <1>0, <2>1, <2>2, <2>3 DEF Typed, ChansTyped, FlagsTyped, CallersTyped
<1>6. CASE SetStatus
  <2>1. /\ status' \in {"connected", "expired"}
        /\ UNCHANGED <<gen, stopClosed, doneClosed, cancelled, pollRunning,
                       getUpdatesBuf, lastContact, msgCh, sent, received, loop,
                       caller, panicked>>
    BY <1>6 DEF SetStatus, chans, messages
  <2> QED
    BY <1>0, <2>1
       DEF Typed, ChansTyped, FlagsTyped, MessagesTyped, LoopsTyped, CallersTyped
<1>7. CASE UNCHANGED vars
  BY <1>0, <1>7
     DEF vars, chans, flags, messages, Typed, ChansTyped, FlagsTyped,
         MessagesTyped, LoopsTyped, CallersTyped
<1> QED BY <1>1, <1>2, <1>3, <1>4, <1>5, <1>6, <1>7 DEF Next

\* The types hold for any number of loops, callers, starts and messages, and
\* whether or not a loop outlasts the wait.
THEOREM TypeCorrect == Spec => []TypeOK
<1>1. Typed => TypeOK
  <2> SUFFICES ASSUME Typed PROVE TypeOK
    OBVIOUS
  <2>1. \A l \in Loops :
          /\ loop[l].pc \in LoopPcs
          /\ loop[l].ch \in 0 .. gen /\ loop[l].upto \in 0 .. sent
          /\ loop[l].batch \in Seq(FromUser)
    <3>1. SUFFICES ASSUME NEW l \in Loops
                   PROVE  /\ loop[l].pc \in LoopPcs
                          /\ loop[l].ch \in 0 .. gen /\ loop[l].upto \in 0 .. sent
                          /\ loop[l].batch \in Seq(FromUser)
      OBVIOUS
    <3>2. /\ loop[l] \in LoopRecord /\ loop[l].ch <= gen /\ loop[l].upto <= sent
          /\ gen \in Nat /\ sent \in Nat
      BY DEF Typed, ChansTyped, MessagesTyped, LoopsTyped, Plausible
    <3> QED BY <3>2 DEF LoopRecord
  <2>2. \A k \in Callers : /\ caller[k].pc \in {"idle", "await", "fresh", "spawn"}
                           /\ caller[k].ch \in 0 .. gen
    <3>1. \A k \in Callers : /\ caller[k] \in CallerRecord /\ caller[k].ch <= gen
      BY DEF Typed, CallersTyped
    <3>2. gen \in Nat
      BY DEF Typed, ChansTyped
    <3> QED BY <3>1, <3>2 DEF CallerRecord
  <2> QED
    BY <2>1, <2>2
       DEF Typed, ChansTyped, FlagsTyped, MessagesTyped, TypeOK, LoopPcs
<1> QED BY <1>1, TypedInit, TypedNext, PTL DEF Spec

-----------------------------------------------------------------------------
(* One loop at a time.                                                     *)

\* Starts do not overlap, and a loop that is told to stop is done within the
\* five seconds that Start and Stop wait for it.
Sequential == ~MayBeLate /\ \A j, k \in Starters : j = k

\* What SoloNext needs of it: one caller at most is in Start.
Apart ==
  \A j, k \in Starters :
    caller[j].pc # "idle" /\ caller[k].pc # "idle" => j = k

\* A Start that comes while a loop has yet to close done finds pollRunning set,
\* so that it stops this loop and waits for it.
Heeded == \A k \in Starters : StartSignal(k) /\ Closing # {} => pollRunning

\* At most one loop has yet to close done; done is closed for good; whoever is
\* about to start a loop has seen the one before it leave.
Solo ==
  /\ \A l, m \in Closing : l = m
  /\ gen \in doneClosed => Closing = {}
  /\ ~panicked
  /\ \A k \in Starters :
       /\ caller[k].pc = "await" => caller[k].ch = gen
       /\ caller[k].pc \in {"fresh", "spawn"} => Closing = {}
       /\ caller[k].pc = "spawn" => gen \notin doneClosed

\* What a step of a loop does to its place and to what others see of it.
LEMMA LoopStep ==
  ASSUME Typed, NEW l \in Loops, PollStep(l)
  PROVE  /\ \A m \in Loops \ {l} : loop'[m] = loop[m]
         /\ loop[l].pc \notin {"none", "gone"} /\ loop'[l].pc # "none"
         /\ loop[l].pc = "flag" => loop'[l].pc = "gone"
         /\ gen' = gen /\ caller' = caller
         /\ \/ UNCHANGED <<doneClosed, panicked>>
            \/ /\ loop[l].pc = "exit" /\ loop'[l].pc = "flag"
               /\ doneClosed' = doneClosed \cup {gen}
               /\ panicked' = (panicked \/ gen \in doneClosed)
         /\ pollRunning' = pollRunning \/ loop[l].pc = "flag"
<1>0. loop \in [Loops -> LoopRecord] /\ loop[l] \in LoopRecord
  BY DEF Typed, LoopsTyped
<1>a. ASSUME NEW pc, Goto(l, pc) \/ Select(l, pc)
      PROVE  loop'[l].pc = pc /\ \A m \in Loops \ {l} : loop'[m] = loop[m]
  BY <1>0, <1>a DEF Goto, Select, LoopRecord
<1>b. LoopOnly => UNCHANGED <<gen, doneClosed, panicked, pollRunning, caller>>
  BY DEF LoopOnly, chans, flags
<1>1. CASE Top(l)
  BY <1>1, <1>a, <1>b DEF Top
<1>2. CASE CheckStatus(l)
  BY <1>2, <1>a, <1>b DEF CheckStatus
<1>3. CASE Pause(l)
  BY <1>3, <1>a, <1>b DEF Pause
<1>4. CASE BeginPoll(l)
  <2>1. loop'[l].pc = "poll" /\ \A m \in Loops \ {l} : loop'[m] = loop[m]
    BY <1>0, <1>4 DEF BeginPoll, LoopRecord
  <2> QED BY <1>4, <1>b, <2>1 DEF BeginPoll
<1>5. CASE PollReturns(l)
  <2> DEFINE b == NewMessages(loop[l].upto)
  <2>1. /\ loop' = [loop EXCEPT ![l].pc = "store", ![l].upto = sent, ![l].batch = b]
        /\ loop[l].pc = "poll" /\ LoopOnly
    BY <1>5 DEF PollReturns
  <2> HIDE DEF b
  <2>2. loop'[l].pc = "store" /\ \A m \in Loops \ {l} : loop'[m] = loop[m]
    BY <1>0, <2>1 DEF LoopRecord
  <2> QED BY <1>b, <2>1, <2>2
<1>6. CASE PollFails(l)
  BY <1>6, <1>a, <1>b DEF PollFails
<1>7. CASE CheckFailed(l)
  BY <1>7, <1>a, <1>b DEF CheckFailed
<1>8. CASE Lost(l)
  BY <1>8, <1>a DEF Lost, chans
<1>9. CASE StoreCursor(l)
  BY <1>9, <1>a DEF StoreCursor, chans, flags
<1>10. CASE StoreContact(l)
  BY <1>10, <1>a DEF StoreContact, chans, flags
<1>11. CASE SendOnly(l)
  <2> DEFINE pc == IF Tail(loop[l].batch) = <<>> THEN "top" ELSE "contact"
  <2>1. /\ loop' = [loop EXCEPT ![l].batch = Tail(@), ![l].pc = pc]
        /\ loop[l].pc = "send" /\ pc # "none"
        /\ UNCHANGED <<gen, doneClosed, panicked, pollRunning, caller>>
    BY <1>11 DEF SendOnly, AfterSend, chans, flags
  <2> HIDE DEF pc
  <2>2. loop'[l].pc = pc /\ \A m \in Loops \ {l} : loop'[m] = loop[m]
    BY <1>0, <2>1 DEF LoopRecord
  <2> QED BY <2>1, <2>2
<1>12. CASE Told(l) /\ loop' = [loop EXCEPT ![l].batch = <<>>, ![l].pc = "exit"]
            /\ LoopOnly
  <2>1. loop'[l].pc = "exit" /\ \A m \in Loops \ {l} : loop'[m] = loop[m]
    BY <1>0, <1>12 DEF LoopRecord
  <2> QED BY <1>12, <1>b, <2>1 DEF Told
<1>13. CASE CloseDone(l)
  BY <1>13, <1>a DEF CloseDone, flags
<1>14. CASE ClearRunning(l)
  BY <1>14, <1>a DEF ClearRunning, chans
<1> QED
  BY <1>1, <1>2, <1>3, <1>4, <1>5, <1>6, <1>7, <1>8, <1>9, <1>10, <1>11, <1>12,
     <1>13, <1>14 DEF PollStep, Send

\* A caller that moves is the only one that does.
LEMMA CallerStep ==
  ASSUME Typed, NEW k \in Callers, NEW pc, NEW ch, AtCaller(k, pc, ch)
  PROVE  /\ caller'[k].pc = pc /\ caller'[k].ch = ch
         /\ \A j \in Callers \ {k} : caller'[j] = caller[j]
BY DEF AtCaller, Typed, CallersTyped

\* One starter is never in anybody's way.
LEMMA SequentialApart ==
  ASSUME Sequential PROVE ~MayBeLate /\ Apart
BY DEF Sequential, Apart

\* At first there is no loop.
LEMMA SoloInit == Init => Solo
<1> SUFFICES ASSUME Init PROVE Solo
  OBVIOUS
<1>1. Closing = {}
  BY DEF Closing, Init, Nothing
<1>2. ~panicked /\ doneClosed = {} /\ \A k \in Starters : caller[k].pc = "idle"
  BY DEF Init, Callers
<1> QED BY <1>1, <1>2 DEF Solo

\* Every step keeps it at one, the starts being heeded.
LEMMA SoloNext ==
  ASSUME ~MayBeLate, Apart, Typed, Solo, [Next]_vars, [Heeded]_vars
  PROVE  Solo'
<1>0. /\ gen \in Nat /\ doneClosed \subseteq 0 .. gen
      /\ loop \in [Loops -> LoopRecord]
      /\ \A k \in Starters : k \in Callers
  BY DEF Typed, ChansTyped, LoopsTyped, Callers
<1>a. ASSUME loop' = loop PROVE Closing' = Closing
  BY <1>a DEF Closing
<1>1. ASSUME NEW k \in Starters, Starting(k), Heeded PROVE Solo'
  <2>0. ASSUME caller[k].pc # "idle", NEW j \in Starters, j # k,
               NEW pc, NEW ch, AtCaller(k, pc, ch)
        PROVE  caller'[j].pc = "idle"
    BY <1>0, <2>0, CallerStep DEF Apart
  <2>1. CASE StartSignal(k)
    <3>1. /\ UNCHANGED <<gen, doneClosed, loop, panicked>>
          /\ AtCaller(k, IF pollRunning THEN "await" ELSE "fresh", gen)
      BY <2>1 DEF StartSignal
    <3>2. \/ caller'[k].pc = "await" /\ caller'[k].ch = gen
          \/ caller'[k].pc = "fresh" /\ Closing = {}
      <4>1. CASE pollRunning
        BY <1>0, <3>1, <4>1, CallerStep
      <4>2. CASE ~pollRunning
        <5>1. Closing = {}
          BY <1>1, <2>1, <4>2 DEF Heeded
        <5> QED BY <1>0, <3>1, <4>2, <5>1, CallerStep
      <4> QED BY <4>1, <4>2
    <3>3. \A j \in Starters \ {k} : caller'[j] = caller[j]
      BY <1>0, <3>1, CallerStep
    <3> QED BY <1>a, <3>1, <3>2, <3>3 DEF Solo
  <2>2. CASE StartWaited(k)
    <3>1. /\ UNCHANGED <<gen, doneClosed, loop, panicked>>
          /\ AtCaller(k, "fresh", gen) /\ caller[k].pc = "await" /\ Waited(k)
      BY <2>2 DEF StartWaited, chans
    <3>2. caller'[k].pc = "fresh"
      BY <1>0, <3>1, CallerStep
    <3>3. Closing = {}
      BY <3>1 DEF Waited, Solo
    <3>4. \A j \in Starters \ {k} : caller'[j].pc = "idle"
      BY <2>0, <3>1
    <3> QED BY <1>a, <3>1, <3>2, <3>3, <3>4 DEF Solo
  <2>3. CASE StartFresh(k)
    <3>1. /\ UNCHANGED <<doneClosed, loop, panicked>> /\ gen' = gen + 1
          /\ AtCaller(k, "spawn", gen') /\ caller[k].pc = "fresh"
      BY <2>3 DEF StartFresh
    <3>2. caller'[k].pc = "spawn"
      BY <1>0, <3>1, CallerStep
    <3>3. Closing = {} /\ Closing' = {}
      BY <1>a, <3>1 DEF Solo
    <3>4. gen' \notin doneClosed'
      BY <1>0, <3>1
    <3>5. \A j \in Starters \ {k} : caller'[j].pc = "idle"
      BY <2>0, <3>1
    <3> QED BY <3>1, <3>2, <3>3, <3>4, <3>5 DEF Solo
  <2>4. CASE StartSpawn(k)
    <3>1. /\ UNCHANGED <<gen, doneClosed, panicked>>
          /\ AtCaller(k, "idle", 0) /\ caller[k].pc = "spawn"
          /\ \E l \in Loops : loop' = [loop EXCEPT ![l].pc = "top"]
      BY <2>4 DEF StartSpawn, chans
    <3>2. caller'[k].pc = "idle"
      BY <1>0, <3>1, CallerStep
    <3>3. Closing = {} /\ gen \notin doneClosed
      BY <3>1 DEF Solo
    <3>4. PICK l \in Loops : loop' = [loop EXCEPT ![l].pc = "top"]
      BY <3>1
    <3>5. \A m \in Loops : m # l => loop'[m] = loop[m]
      BY <1>0, <3>4
    <3>6. Closing' \subseteq {l}
      BY <3>3, <3>5 DEF Closing
    <3>7. \A j \in Starters \ {k} : caller'[j].pc = "idle"
      BY <2>0, <3>1
    <3> QED BY <3>1, <3>2, <3>3, <3>6, <3>7 DEF Solo
  <2> QED BY <1>1, <2>1, <2>2, <2>3, <2>4 DEF Starting
<1>2. ASSUME NEW k \in Stoppers, Stopping(k) PROVE Solo'
  <2>1. /\ UNCHANGED <<gen, doneClosed, loop, panicked>>
        /\ \E pc \in {"await", "idle"}, ch \in {gen, 0} : AtCaller(k, pc, ch)
    BY <1>2 DEF Stopping, StopSignal, StopWaited, chans
  <2>2. k \in Callers /\ \A j \in Starters : j # k
    BY PollAssumption DEF Callers
  <2>3. \A j \in Starters : caller'[j] = caller[j]
    BY <1>0, <2>1, <2>2, CallerStep
  <2> QED BY <1>a, <2>1, <2>3 DEF Solo
<1>3. ASSUME NEW l \in Loops, PollStep(l) PROVE Solo'
  <2>1. /\ \A m \in Loops \ {l} : loop'[m] = loop[m]
        /\ loop[l].pc \notin {"none", "gone"} /\ loop'[l].pc # "none"
        /\ loop[l].pc = "flag" => loop'[l].pc = "gone"
        /\ gen' = gen /\ caller' = caller
        /\ \/ UNCHANGED <<doneClosed, panicked>>
           \/ /\ loop[l].pc = "exit" /\ loop'[l].pc = "flag"
              /\ doneClosed' = doneClosed \cup {gen}
              /\ panicked' = (panicked \/ gen \in doneClosed)
    BY <1>3, LoopStep
  <2>2. Closing' \subseteq Closing
    BY <2>1 DEF Closing
  <2>3. CASE UNCHANGED <<doneClosed, panicked>>
    BY <2>1, <2>2, <2>3 DEF Solo
  <2>4. CASE /\ loop[l].pc = "exit" /\ loop'[l].pc = "flag"
             /\ doneClosed' = doneClosed \cup {gen}
             /\ panicked' = (panicked \/ gen \in doneClosed)
    <3>1. l \in Closing /\ l \notin Closing'
      BY <2>4 DEF Closing
    <3>2. Closing' = {}
      BY <2>2, <3>1 DEF Solo
    <3>3. gen \notin doneClosed
      BY <3>1 DEF Solo
    <3>4. \A k \in Starters : caller[k].pc \notin {"fresh", "spawn"}
      BY <3>1 DEF Solo
    <3>5. ~panicked'
      BY <2>4, <3>3, Zenon DEF Solo
    <3> QED BY <2>1, <3>2, <3>4, <3>5 DEF Solo
  <2> QED BY <2>1, <2>3, <2>4
<1>4. CASE UNCHANGED <<gen, doneClosed, loop, caller, panicked>>
  BY <1>a, <1>4 DEF Solo
<1>5. Heeded \/ UNCHANGED <<gen, doneClosed, loop, caller, panicked>>
  BY DEF vars, chans
<1>6. Receive \/ NewMessage \/ SetStatus \/ UNCHANGED vars
        => UNCHANGED <<gen, doneClosed, loop, caller, panicked>>
  BY DEF Receive, NewMessage, SetStatus, vars, chans
<1> QED BY <1>1, <1>2, <1>3, <1>4, <1>5, <1>6 DEF Next

\* Until the second Start there is one loop at most, and nobody but this loop
\* has cleared the flag, which it does when it has closed done.
FirstTwo ==
  gen <= 1 =>
    /\ \A l, m \in Loops : loop[l].pc # "none" /\ loop[m].pc # "none" => l = m
    /\ Closing # {} => pollRunning
    /\ \A k \in Starters :
         caller[k].pc = "spawn" =>
           gen > 0 /\ pollRunning /\ \A l \in Loops : loop[l].pc = "none"
    /\ gen = 0 => \A l \in Loops : loop[l].pc = "none"

\* At first nothing was started.
LEMMA FirstTwoInit == Init => FirstTwo
BY DEF Init, FirstTwo, Nothing, Closing, Callers

\* Every step up to the second Start leaves the flag right.
LEMMA FirstTwoNext ==
  ASSUME Sequential, Typed, FirstTwo, [Next]_vars
  PROVE  FirstTwo'
<1>0. /\ gen \in Nat /\ loop \in [Loops -> LoopRecord]
      /\ \A k \in Starters : k \in Callers
  BY DEF Typed, ChansTyped, LoopsTyped, Callers
<1>a. ASSUME UNCHANGED <<gen, loop, pollRunning>>,
             \A k \in Starters : caller'[k].pc # "spawn" \/ caller'[k] = caller[k]
      PROVE  FirstTwo'
  BY <1>a DEF FirstTwo, Closing
<1>1. ASSUME NEW k \in Starters, Starting(k) PROVE FirstTwo'
  <2>0. \A j \in Starters : j = k
    BY DEF Sequential
  <2>1. CASE StartSignal(k) \/ StartWaited(k)
    <3>1. /\ UNCHANGED <<gen, loop, pollRunning>>
          /\ \E pc \in {"await", "fresh"} : AtCaller(k, pc, gen)
      BY <2>1 DEF StartSignal, StartWaited, chans, flags
    <3>2. caller'[k].pc # "spawn"
      BY <1>0, <3>1, CallerStep
    <3> QED BY <1>a, <2>0, <3>1, <3>2
  <2>2. CASE StartFresh(k)
    <3>1. gen' = gen + 1 /\ pollRunning' = TRUE /\ loop' = loop
      BY <2>2 DEF StartFresh
    <3>2. SUFFICES ASSUME gen' <= 1 PROVE FirstTwo'
      BY DEF FirstTwo
    <3>3. gen = 0 /\ gen' = 1 /\ \A l \in Loops : loop'[l].pc = "none"
      BY <1>0, <3>1, <3>2 DEF FirstTwo
    <3> QED BY <3>1, <3>3 DEF FirstTwo
  <2>3. CASE StartSpawn(k)
    <3>1. /\ UNCHANGED <<gen, pollRunning>>
          /\ AtCaller(k, "idle", 0) /\ caller[k].pc = "spawn"
          /\ \E l \in Loops : loop' = [loop EXCEPT ![l].pc = "top"]
      BY <2>3 DEF StartSpawn, chans
    <3>2. caller'[k].pc # "spawn"
      BY <1>0, <3>1, CallerStep
    <3>3. SUFFICES ASSUME gen <= 1 PROVE FirstTwo'
      BY <3>1 DEF FirstTwo
    <3>4. gen > 0 /\ pollRunning /\ \A l \in Loops : loop[l].pc = "none"
      BY <3>1, <3>3 DEF FirstTwo
    <3>5. PICK l \in Loops : loop' = [loop EXCEPT ![l].pc = "top"]
      BY <3>1
    <3>6. \A m \in Loops : m # l => loop'[m].pc = "none"
      BY <1>0, <3>4, <3>5
    <3>7. gen' > 0 /\ gen' # 0 /\ pollRunning'
      BY <1>0, <3>1, <3>4
    <3> QED BY <2>0, <3>2, <3>6, <3>7 DEF FirstTwo
  <2> QED BY <1>1, <2>1, <2>2, <2>3 DEF Starting
<1>2. ASSUME NEW k \in Stoppers, Stopping(k) PROVE FirstTwo'
  <2>1. /\ UNCHANGED <<gen, loop, pollRunning>>
        /\ \E pc \in {"await", "idle"}, ch \in {gen, 0} : AtCaller(k, pc, ch)
    BY <1>2 DEF Stopping, StopSignal, StopWaited, chans, flags
  <2>2. k \in Callers /\ \A j \in Starters : j # k
    BY PollAssumption DEF Callers
  <2>3. \A j \in Starters : caller'[j] = caller[j]
    BY <1>0, <2>1, <2>2, CallerStep
  <2> QED BY <1>a, <2>1, <2>3
<1>3. ASSUME NEW l \in Loops, PollStep(l) PROVE FirstTwo'
  <2>1. /\ \A m \in Loops \ {l} : loop'[m] = loop[m]
        /\ loop[l].pc \notin {"none", "gone"} /\ loop'[l].pc # "none"
        /\ loop[l].pc = "flag" => loop'[l].pc = "gone"
        /\ gen' = gen /\ caller' = caller
        /\ pollRunning' = pollRunning \/ loop[l].pc = "flag"
    BY <1>3, LoopStep
  <2>2. SUFFICES ASSUME gen <= 1 PROVE FirstTwo'
    BY <2>1 DEF FirstTwo
  <2>3. /\ \A m \in Loops \ {l} : loop[m].pc = "none" /\ loop'[m].pc = "none"
        /\ gen # 0 /\ \A k \in Starters : caller[k].pc # "spawn"
    BY <2>1, <2>2 DEF FirstTwo
  <2>4. Closing' # {} => pollRunning'
    <3>1. CASE loop[l].pc = "flag"
      BY <2>1, <2>3, <3>1 DEF Closing
    <3>2. CASE loop[l].pc # "flag"
      <4>1. Closing' \subseteq Closing
        BY <2>1 DEF Closing
      <4>2. pollRunning' = pollRunning
        BY <2>1, <3>2
      <4>3. Closing # {} => pollRunning
        BY <2>2 DEF FirstTwo
      <4> QED BY <4>1, <4>2, <4>3
    <3> QED BY <3>1, <3>2
  <2> QED BY <2>1, <2>3, <2>4 DEF FirstTwo
<1>4. Receive \/ NewMessage \/ SetStatus \/ UNCHANGED vars
        => UNCHANGED <<gen, loop, pollRunning, caller>>
  BY DEF Receive, NewMessage, SetStatus, vars, chans, flags
<1> QED BY <1>1, <1>2, <1>3, <1>4, <1>a DEF Next

\* The second Start, and any before it, finds the flag of the loop it replaces.
LEMMA SecondStartHeeded ==
  ASSUME Sequential, Typed, FirstTwo, MaxStarts <= 2
  PROVE  Heeded
<1>1. SUFFICES ASSUME NEW k \in Starters, StartSignal(k), Closing # {}
               PROVE  pollRunning
  BY DEF Heeded
<1>2. Begun = 0
  <2>1. \A j \in Starters : caller[j].pc = "idle"
    BY <1>1 DEF Sequential, StartSignal
  <2>2. {j \in Starters : caller[j].pc \in {"await", "fresh"}} = {}
    BY <2>1
  <2> QED BY <2>2, FS_EmptySet DEF Begun
<1>3. gen <= 1
  <2>1. gen + Begun < MaxStarts /\ MaxStarts \in Nat /\ gen \in Nat
    BY <1>1, PollAssumption DEF StartSignal, Typed, ChansTyped
  <2> QED BY <1>2, <2>1
<1> QED BY <1>1, <1>3 DEF FirstTwo

\* What the two steps above are for: who stops, or starts anew, need not fear
\* the old loop, and no two loops ever poll.
LEMMA SoloFacts ==
  ASSUME Typed, Solo
  PROVE  DoneMeansGone /\ OneLoop
<1>1. Working \subseteq Closing
  BY DEF Working, Closing
<1>2. DoneMeansGone
  BY <1>1 DEF Solo, DoneMeansGone
<1>3. Cardinality(Working) <= 1
  <2>1. CASE Working = {}
    BY <2>1, FS_EmptySet
  <2>2. CASE Working # {}
    <3>1. PICK l : l \in Working
      BY <2>2
    <3>2. Working = {l}
      BY <1>1, <3>1 DEF Solo
    <3> QED BY <3>2, FS_Singleton
  <2> QED BY <2>1, <2>2
<1> QED BY <1>2, <1>3 DEF OneLoop, Solo

\* When each Start finds the flag of the loop it replaces, done means gone for
\* any number of starts and of overlapping stops: once done is closed nobody
\* polls or delivers; there is never a second loop, and no channel is closed
\* twice.
THEOREM HeededStartsReplace ==
  ASSUME Sequential
  PROVE  Spec /\ [][Heeded]_vars => [](DoneMeansGone /\ OneLoop)
<1>1. Typed /\ Solo /\ [Next]_vars /\ [Heeded]_vars => Typed' /\ Solo'
  BY TypedNext, SoloNext, SequentialApart
<1>2. Init => Typed /\ Solo
  BY TypedInit, SoloInit
<1>3. Typed /\ Solo => DoneMeansGone /\ OneLoop
  BY SoloFacts
<1> QED BY <1>1, <1>2, <1>3, PTL DEF Spec

\* Of one restart this need not be assumed: the first loop's flag is right.
THEOREM DoneIsGone ==
  ASSUME Sequential, MaxStarts <= 2
  PROVE  Spec => [](DoneMeansGone /\ OneLoop)
<1> DEFINE Inv == Typed /\ Solo /\ FirstTwo
<1>1. Inv /\ [Next]_vars => Inv'
  <2> SUFFICES ASSUME Inv, [Next]_vars PROVE Inv'
    OBVIOUS
  <2>1. Heeded
    BY SecondStartHeeded
  <2> QED BY <2>1, TypedNext, SoloNext, SequentialApart, FirstTwoNext
<1>2. Init => Inv
  BY TypedInit, SoloInit, FirstTwoInit
<1>3. Inv => DoneMeansGone /\ OneLoop
  BY SoloFacts
<1> QED BY <1>1, <1>2, <1>3, PTL DEF Spec

-----------------------------------------------------------------------------
(* What the loop promises of the messages.                                 *)

\* A poll starts from the cursor, and returns the user messages after it.
Polled ==
  \A l \in Loops :
    /\ loop[l].pc = "poll" => loop[l].upto = getUpdatesBuf
    /\ loop[l].pc = "store" =>
         /\ getUpdatesBuf <= loop[l].upto
         /\ Abstract!Lists(loop[l].batch, getUpdatesBuf, loop[l].upto)

Handing == {"contact", "send"}
\* What is pending when lp are the loops.
PendingOf(lp) ==
  LET D == {l \in Loops : lp[l].pc \in Handing}
  IN  IF D = {} THEN <<>> ELSE lp[CHOOSE l \in D : TRUE].batch

\* What Delivery sees pending, before and after a step.
LEMMA PendingIs == pending = PendingOf(loop) /\ pending' = PendingOf(loop')
BY DEF pending, PendingOf, Delivering, Handing

\* Of one loop, it is that loop's.
LEMMA PendingOfOne ==
  ASSUME NEW lp, NEW l \in Loops,
         \A m \in Loops \ {l} : lp[m].pc \notin Handing
  PROVE  /\ lp[l].pc \in Handing => PendingOf(lp) = lp[l].batch
         /\ lp[l].pc \notin Handing => PendingOf(lp) = <<>>
<1> DEFINE D == {k \in Loops : lp[k].pc \in Handing}
<1>1. CASE lp[l].pc \in Handing
  <2>1. D = {l}
    BY <1>1
  <2>2. (CHOOSE k \in D : TRUE) = l
    BY <2>1
  <2> QED BY <1>1, <2>1, <2>2 DEF PendingOf
<1>2. CASE lp[l].pc \notin Handing
  <2>1. D = {}
    BY <1>2
  <2> QED BY <1>2, <2>1 DEF PendingOf
<1> QED BY <1>1, <1>2

\* A step that neither takes nor hands over leaves it.
LEMMA PendingSame ==
  ASSUME NEW lp, NEW lq,
         \A m \in Loops : /\ lp[m].pc \in Handing <=> lq[m].pc \in Handing
                          /\ lp[m].pc \in Handing => lq[m].batch = lp[m].batch
  PROVE  PendingOf(lq) = PendingOf(lp)
<1> DEFINE D == {k \in Loops : lp[k].pc \in Handing}
           E == {k \in Loops : lq[k].pc \in Handing}
           d == CHOOSE k \in D : TRUE
<1>1. D = E
  OBVIOUS
<1>2. D # {} => d \in D
  OBVIOUS
<1>3. PendingOf(lp) = IF D = {} THEN <<>> ELSE lp[d].batch
  BY DEF PendingOf
<1>4. PendingOf(lq) = IF D = {} THEN <<>> ELSE lq[d].batch
  BY <1>1 DEF PendingOf
<1>5. D # {} => lq[d].batch = lp[d].batch
  BY <1>2
<1> QED BY <1>3, <1>4, <1>5

\* A step of a loop begins or ends a poll, stores the cursor, hands over, drops
\* the rest, or changes nothing of this.
Quiet(l) ==
  /\ UNCHANGED <<sent, getUpdatesBuf, msgCh, received>>
  /\ loop'[l].pc \notin {"poll", "store"}
  /\ loop[l].pc \in Handing <=> loop'[l].pc \in Handing
  /\ loop[l].pc \in Handing => loop'[l].batch = loop[l].batch
Drops(l) ==
  Told(l) /\ loop' = [loop EXCEPT ![l].batch = <<>>, ![l].pc = "exit"] /\ LoopOnly

\* There are no others.
LEMMA KindsOfSteps ==
  ASSUME Typed, NEW l \in Loops, PollStep(l)
  PROVE  \/ Quiet(l) \/ BeginPoll(l) \/ PollReturns(l) \/ StoreCursor(l)
         \/ SendOnly(l) \/ Drops(l)
<1>0. loop \in [Loops -> LoopRecord] /\ loop[l] \in LoopRecord
  BY DEF Typed, LoopsTyped
<1>a. ASSUME NEW pc, Goto(l, pc) \/ Select(l, pc)
      PROVE  loop'[l].pc = pc /\ loop'[l].batch = loop[l].batch
  BY <1>0, <1>a DEF Goto, Select, LoopRecord
<1>b. LoopOnly => UNCHANGED <<sent, getUpdatesBuf, msgCh, received>>
  BY DEF LoopOnly, messages
<1> USE DEF Quiet, Handing
<1>1. CASE Top(l)
  BY <1>1, <1>a, <1>b DEF Top
<1>2. CASE CheckStatus(l)
  BY <1>2, <1>a, <1>b DEF CheckStatus
<1>3. CASE Pause(l)
  BY <1>3, <1>a, <1>b DEF Pause
<1>4. CASE PollFails(l)
  BY <1>4, <1>a, <1>b DEF PollFails
<1>5. CASE CheckFailed(l)
  BY <1>5, <1>a, <1>b DEF CheckFailed
<1>6. CASE Lost(l)
  BY <1>6, <1>a DEF Lost, messages
<1>7. CASE StoreContact(l)
  BY <1>7, <1>a DEF StoreContact
<1>8. CASE CloseDone(l)
  BY <1>8, <1>a DEF CloseDone, messages
<1>9. CASE ClearRunning(l)
  BY <1>9, <1>a DEF ClearRunning, messages
<1> QED
  BY <1>1, <1>2, <1>3, <1>4, <1>5, <1>6, <1>7, <1>8, <1>9
     DEF PollStep, Send, Drops

\* A loop that polls, stores or hands over is the only one.
LEMMA Alone ==
  ASSUME Solo, NEW l \in Loops, loop[l].pc \notin {"none", "flag", "gone"}
  PROVE  \A m \in Loops \ {l} : loop[m].pc \notin {"poll", "store"} \cup Handing
BY DEF Solo, Closing, Handing

\* At first nobody polls.
LEMMA PolledInit == Init => Polled
BY DEF Init, Polled, Nothing

\* Only the loop that polls moves the cursor.
LEMMA PolledNext ==
  ASSUME Typed, Solo, Polled, [Next]_vars
  PROVE  Polled'
<1>0. loop \in [Loops -> LoopRecord] /\ sent \in Nat /\ getUpdatesBuf \in Nat
      /\ getUpdatesBuf <= sent
  BY DEF Typed, LoopsTyped, MessagesTyped
<1>1. ASSUME NEW l \in Loops, PollStep(l) PROVE Polled'
  <2>0. \A m \in Loops \ {l} : loop'[m] = loop[m]
    BY <1>1, LoopStep
  <2>a. ASSUME getUpdatesBuf' = getUpdatesBuf,
               loop'[l].pc = "poll" => loop'[l].upto = getUpdatesBuf,
               loop'[l].pc = "store" =>
                 /\ getUpdatesBuf <= loop'[l].upto
                 /\ Abstract!Lists(loop'[l].batch, getUpdatesBuf, loop'[l].upto)
        PROVE  Polled'
    <3>1. ASSUME NEW m \in Loops
          PROVE  /\ loop'[m].pc = "poll" => loop'[m].upto = getUpdatesBuf
                 /\ loop'[m].pc = "store" =>
                      /\ getUpdatesBuf <= loop'[m].upto
                      /\ Abstract!Lists(loop'[m].batch, getUpdatesBuf, loop'[m].upto)
      <4>1. CASE m = l
        BY <2>a, <4>1
      <4>2. CASE m # l
        BY <2>0, <4>2 DEF Polled
      <4> QED BY <4>1, <4>2
    <3> QED BY <2>a, <3>1 DEF Polled, Abstract!Lists, Abstract!Increasing
  <2>1. CASE Quiet(l)
    BY <2>1, <2>a DEF Quiet
  <2>2. CASE BeginPoll(l)
    <3>1. loop'[l].pc = "poll" /\ loop'[l].upto = getUpdatesBuf
          /\ getUpdatesBuf' = getUpdatesBuf
      BY <1>0, <2>2 DEF BeginPoll, LoopRecord, LoopOnly, messages
    <3> QED BY <2>a, <3>1
  <2>3. CASE PollReturns(l)
    <3> DEFINE b == NewMessages(getUpdatesBuf)
    <3>1. loop[l].upto = getUpdatesBuf
      BY <2>3 DEF PollReturns, Polled
    <3>2. Abstract!Lists(b, getUpdatesBuf, sent)
      BY <1>0, NewMessagesLists
    <3>3. /\ loop' = [loop EXCEPT ![l].pc = "store", ![l].upto = sent, ![l].batch = b]
          /\ getUpdatesBuf' = getUpdatesBuf
      BY <2>3, <3>1 DEF PollReturns, LoopOnly, messages
    <3> HIDE DEF b
    <3>4. loop'[l].pc = "store" /\ loop'[l].upto = sent /\ loop'[l].batch = b
      BY <1>0, <3>3 DEF LoopRecord
    <3> QED BY <1>0, <2>a, <3>2, <3>3, <3>4
  <2>4. CASE StoreCursor(l)
    <3>1. loop'[l].pc \in {"top", "contact"} /\ loop[l].pc = "store"
      BY <1>0, <2>4 DEF StoreCursor, Goto, LoopRecord
    <3>2. \A m \in Loops \ {l} : loop[m].pc \notin {"poll", "store"}
      BY <3>1, Alone
    <3> QED BY <2>0, <3>1, <3>2 DEF Polled
  <2>5. CASE SendOnly(l)
    <3>1. loop'[l].pc \in {"top", "contact"} /\ getUpdatesBuf' = getUpdatesBuf
      BY <1>0, <2>5 DEF SendOnly, AfterSend, LoopRecord
    <3> QED BY <2>a, <3>1
  <2>6. CASE Drops(l)
    <3>1. loop'[l].pc = "exit" /\ getUpdatesBuf' = getUpdatesBuf
      BY <1>0, <2>6 DEF Drops, LoopRecord, LoopOnly, messages
    <3> QED BY <2>a, <3>1
  <2> QED
    BY <1>1, <2>1, <2>2, <2>3, <2>4, <2>5, <2>6, KindsOfSteps
<1>2. ASSUME NEW k \in Starters, StartSpawn(k) PROVE Polled'
  <2>1. PICK l \in Loops : Goto(l, "top")
    BY <1>2 DEF StartSpawn, Goto
  <2>2. /\ loop'[l].pc = "top" /\ \A m \in Loops \ {l} : loop'[m] = loop[m]
        /\ getUpdatesBuf' = getUpdatesBuf
    BY <1>0, <1>2, <2>1 DEF Goto, LoopRecord, StartSpawn, messages
  <2>3. ASSUME NEW m \in Loops
        PROVE  loop'[m].pc \in {"poll", "store"} => loop'[m] = loop[m]
    BY <2>2
  <2> QED BY <2>2, <2>3 DEF Polled, Abstract!Lists, Abstract!Increasing
<1>3. CASE UNCHANGED <<loop, getUpdatesBuf>>
  BY <1>3 DEF Polled, Abstract!Lists, Abstract!Increasing
<1>4. ASSUME Receive \/ NewMessage \/ SetStatus \/ UNCHANGED vars
             \/ (\E k \in Stoppers : Stopping(k))
             \/ (\E k \in Starters : StartSignal(k) \/ StartWaited(k) \/ StartFresh(k))
      PROVE  UNCHANGED <<loop, getUpdatesBuf>>
  BY <1>4 DEF Receive, NewMessage, SetStatus, vars, messages, Stopping, StopSignal,
              StopWaited, StartSignal, StartWaited, StartFresh
<1> QED BY <1>1, <1>2, <1>3, <1>4 DEF Next, Starting

\* Each step is one of Delivery, or changes nothing of it.
LEMMA StepImplements ==
  ASSUME Typed, Solo, Polled, [Next]_vars
  PROVE  [Abstract!Next]_delivery
<1>0. /\ loop \in [Loops -> LoopRecord] /\ sent \in Nat /\ getUpdatesBuf \in Nat
      /\ getUpdatesBuf <= sent /\ msgCh \in Seq(FromUser) /\ received \in Seq(FromUser)
  BY DEF Typed, LoopsTyped, MessagesTyped
<1>a. pending = PendingOf(loop) /\ pending' = PendingOf(loop')
  BY PendingIs
<1>1. ASSUME NEW l \in Loops, PollStep(l) PROVE [Abstract!Next]_delivery
  <2>0. \A m \in Loops \ {l} : loop'[m] = loop[m]
    BY <1>1, LoopStep
  <2>a. ASSUME loop[l].pc \notin {"none", "flag", "gone"}
        PROVE  /\ loop[l].pc \in Handing => pending = loop[l].batch
               /\ loop[l].pc \notin Handing => pending = <<>>
               /\ loop'[l].pc \in Handing => pending' = loop'[l].batch
               /\ loop'[l].pc \notin Handing => pending' = <<>>
    <3>1. \A m \in Loops \ {l} : loop[m].pc \notin Handing /\ loop'[m].pc \notin Handing
      BY <2>0, <2>a, Alone
    <3> QED BY <1>a, <3>1, PendingOfOne
  <2>b. ASSUME UNCHANGED <<sent, getUpdatesBuf, received, msgCh>>, pending' = pending
        PROVE  [Abstract!Next]_delivery
    BY <2>b DEF delivery, out
  <2>1. CASE Quiet(l)
    <3>1. \A m \in Loops : /\ loop[m].pc \in Handing <=> loop'[m].pc \in Handing
                           /\ loop[m].pc \in Handing => loop'[m].batch = loop[m].batch
      BY <2>0, <2>1 DEF Quiet
    <3>2. pending' = pending
      BY <1>a, <3>1, PendingSame
    <3> QED BY <2>1, <2>b, <3>2 DEF Quiet
  <2>2. CASE BeginPoll(l)
    <3>1. loop[l].pc = "begin" /\ loop'[l].pc = "poll"
          /\ UNCHANGED <<sent, getUpdatesBuf, received, msgCh>>
      BY <1>0, <2>2 DEF BeginPoll, LoopRecord, LoopOnly, messages
    <3> QED BY <2>a, <2>b, <3>1 DEF Handing
  <2>3. CASE PollReturns(l)
    <3> DEFINE b == NewMessages(loop[l].upto)
    <3>1. /\ loop' = [loop EXCEPT ![l].pc = "store", ![l].upto = sent, ![l].batch = b]
          /\ loop[l].pc = "poll" /\ UNCHANGED <<sent, getUpdatesBuf, received, msgCh>>
      BY <2>3 DEF PollReturns, LoopOnly, messages
    <3> HIDE DEF b
    <3>2. loop'[l].pc = "store"
      BY <1>0, <3>1 DEF LoopRecord
    <3> QED BY <2>a, <2>b, <3>1, <3>2 DEF Handing
  <2>4. CASE StoreCursor(l)
    <3> DEFINE pc == IF loop[l].batch = <<>> THEN "top" ELSE "contact"
    <3>1. /\ loop[l].pc = "store" /\ Goto(l, pc) /\ getUpdatesBuf' = loop[l].upto
          /\ UNCHANGED <<sent, received, msgCh>>
      BY <2>4 DEF StoreCursor
    <3>2. loop'[l].pc = pc /\ loop'[l].batch = loop[l].batch
      BY <1>0, <3>1 DEF Goto, LoopRecord
    <3>3. pending = <<>> /\ pending' = loop[l].batch
      BY <2>a, <3>1, <3>2 DEF Handing
    <3>4. /\ getUpdatesBuf' \in getUpdatesBuf .. sent
          /\ Abstract!Lists(pending', getUpdatesBuf, getUpdatesBuf')
      <4>1. /\ getUpdatesBuf <= loop[l].upto
            /\ Abstract!Lists(loop[l].batch, getUpdatesBuf, loop[l].upto)
        BY <3>1 DEF Polled
      <4>2. loop[l].upto \in Nat /\ loop[l].upto <= sent
        BY BatchFacts
      <4> QED BY <1>0, <3>1, <3>3, <4>1, <4>2
    <3>5. Abstract!Take
      BY <3>1, <3>3, <3>4 DEF Abstract!Take, pending, out
    <3> QED BY <3>5 DEF Abstract!Next
  <2>5. CASE SendOnly(l)
    <3> DEFINE b == loop[l].batch
               pc == IF Tail(b) = <<>> THEN "top" ELSE "contact"
    <3>1. /\ loop' = [loop EXCEPT ![l].batch = Tail(b), ![l].pc = pc]
          /\ loop[l].pc = "send" /\ msgCh' = Append(msgCh, Head(b))
          /\ UNCHANGED <<sent, getUpdatesBuf, received>>
      BY <2>5 DEF SendOnly, AfterSend
    <3>2. b # <<>>
      BY <3>1 DEF Typed, LoopsTyped, Plausible
    <3>3. loop'[l].pc = pc /\ loop'[l].batch = Tail(b)
      BY <1>0, <3>1 DEF LoopRecord
    <3>4. pending = b /\ pending' = Tail(b)
      BY <2>a, <3>1, <3>3 DEF Handing
    <3>5. received \o Append(msgCh, Head(b)) = Append(received \o msgCh, Head(b))
      <4>1. Head(b) \in FromUser
        BY <3>2, BatchFacts
      <4> HIDE DEF b
      <4> QED BY <1>0, <4>1
    <3>6. out' = Append(out, Head(pending))
      BY <3>1, <3>4, <3>5 DEF out
    <3>7. Abstract!HandOver
      BY <3>1, <3>2, <3>4, <3>6 DEF Abstract!HandOver, pending, out
    <3> QED BY <3>7 DEF Abstract!Next
  <2>6. CASE Drops(l)
    <3>1. loop'[l].pc = "exit" /\ loop[l].pc = "send"
          /\ UNCHANGED <<sent, getUpdatesBuf, received, msgCh>>
      BY <1>0, <2>6 DEF Drops, Told, LoopRecord, LoopOnly, messages
    <3>2. pending' = <<>>
      BY <2>a, <3>1 DEF Handing
    <3>3. \E k \in Loops : Told(k)
      BY <2>6 DEF Drops
    <3>4. Abstract!Drop
      BY <3>1, <3>2, <3>3 DEF Abstract!Drop, pending, out
    <3> QED BY <3>4 DEF Abstract!Next
  <2> QED
    BY <1>1, <2>1, <2>2, <2>3, <2>4, <2>5, <2>6, KindsOfSteps
<1>2. ASSUME NEW k \in Starters, StartSpawn(k) PROVE [Abstract!Next]_delivery
  <2>1. PICK l \in Loops : loop[l] = Nothing /\ Goto(l, "top")
    BY <1>2 DEF StartSpawn, Goto
  <2>2. /\ loop'[l].pc = "top" /\ \A m \in Loops \ {l} : loop'[m] = loop[m]
        /\ loop[l].pc = "none"
    BY <1>0, <2>1 DEF Goto, LoopRecord, Nothing
  <2>3. \A m \in Loops : /\ loop[m].pc \in Handing <=> loop'[m].pc \in Handing
                         /\ loop[m].pc \in Handing => loop'[m].batch = loop[m].batch
    BY <2>2 DEF Handing
  <2>4. pending' = pending
    BY <1>a, <2>3, PendingSame
  <2> QED BY <1>2, <2>4 DEF StartSpawn, messages, delivery, out
<1>3. CASE Receive
  <2>1. /\ msgCh # <<>> /\ received' = Append(received, Head(msgCh))
        /\ msgCh' = Tail(msgCh) /\ UNCHANGED <<sent, getUpdatesBuf, loop>>
    BY <1>3 DEF Receive
  <2>2. out' = out
    BY <1>0, <2>1, OneMoves DEF out
  <2>3. pending' = pending
    BY <1>a, <2>1
  <2> QED BY <2>1, <2>2, <2>3 DEF delivery
<1>4. CASE NewMessage
  <2>1. sent' = sent + 1 /\ UNCHANGED <<getUpdatesBuf, loop, received, msgCh>>
    BY <1>4 DEF NewMessage
  <2>2. pending' = pending
    BY <1>a, <2>1
  <2>3. Abstract!Arrive
    BY <2>1, <2>2 DEF Abstract!Arrive, pending
  <2> QED BY <2>3 DEF Abstract!Next
<1>5. CASE UNCHANGED <<loop, messages>>
  BY <1>5, <1>a DEF messages, delivery, out
<1>6. ASSUME SetStatus \/ UNCHANGED vars
             \/ (\E k \in Stoppers : Stopping(k))
             \/ (\E k \in Starters : StartSignal(k) \/ StartWaited(k) \/ StartFresh(k))
      PROVE  UNCHANGED <<loop, messages>>
  BY <1>6 DEF SetStatus, vars, Stopping, StopSignal, StopWaited, StartSignal,
              StartWaited, StartFresh
<1> QED BY <1>1, <1>2, <1>3, <1>4, <1>5, <1>6 DEF Next, Starting

\* At first nothing was sent.
LEMMA InitImplements == Init => Abstract!Init
<1> SUFFICES ASSUME Init PROVE Abstract!Init
  OBVIOUS
<1>1. Delivering = {}
  BY DEF Init, Delivering, Nothing
<1>2. received \o msgCh = <<>>
  BY DEF Init
<1> QED BY <1>1, <1>2 DEF Init, Abstract!Init

\* When each Start finds the flag of the loop it replaces, the loops deliver as
\* Delivery promises and so without repetition and in order, for any number of
\* restarts, overlapping stops, poll errors and messages and any capacity.
THEOREM HeededStartsDeliver ==
  ASSUME Sequential
  PROVE  Spec /\ [][Heeded]_vars => ImplementsDelivery /\ []Abstract!InOrder
<1> DEFINE Inv == Typed /\ Solo /\ Polled
<1>1. Inv /\ [Next]_vars /\ [Heeded]_vars => Inv'
  BY TypedNext, SoloNext, SequentialApart, PolledNext
<1>2. Init => Inv
  BY TypedInit, SoloInit, PolledInit
<1>3. Inv /\ [Next]_vars => [Abstract!Next]_delivery
  BY StepImplements
<1>4. Spec /\ [][Heeded]_vars => Abstract!Init /\ [][Abstract!Next]_delivery
  BY <1>1, <1>2, <1>3, InitImplements, PTL DEF Spec
<1>5. Abstract!Init /\ [][Abstract!Next]_delivery => Abstract!Spec
  BY DEF Abstract!Spec, delivery, pending, out
<1>6. Abstract!Spec => ImplementsDelivery
  BY DEF ImplementsDelivery
<1> QED BY <1>4, <1>5, <1>6, Order, PTL

\* Of one restart this need not be assumed.
THEOREM RestartDelivers ==
  ASSUME Sequential, MaxStarts <= 2
  PROVE  Spec => ImplementsDelivery /\ []Abstract!InOrder
<1>1. Typed /\ FirstTwo => Heeded
  BY SecondStartHeeded
<1>2. Init => Typed /\ FirstTwo
  BY TypedInit, FirstTwoInit
<1>3. Typed /\ FirstTwo /\ [Next]_vars => Typed' /\ FirstTwo'
  BY TypedNext, FirstTwoNext
<1>4. Spec => [][Heeded]_vars
  BY <1>1, <1>2, <1>3, PTL DEF Spec
<1> QED BY <1>4, HeededStartsDeliver, PTL

-----------------------------------------------------------------------------
(* Session: logins and disconnects.                                        *)

LoggingIn == Login!LoggingIn

\* Where a poller is in Start is where PollLoop has its caller, and the same of
\* the disconnect handler in Stop.
Matched ==
  /\ poller \in [Starters -> Login!Places]
  /\ leaving \in {"idle", "stopping", "clear"}
  /\ \A p \in Starters :
       /\ caller[p].pc \in {"await", "fresh"} <=> poller[p] = "starting"
       /\ caller[p].pc = "spawn" <=> poller[p] = "spawn"
  /\ caller[0].pc = IF leaving = "stopping" THEN "await" ELSE "idle"

OneLogin == ~overlapped /\ \A p, q \in LoggingIn : p = q

\* A loop that has not decided to leave waits on the channel of the fields.
OwnChannel ==
  \A l \in Closing : loop[l].pc \in {"pause", "send"} => loop[l].ch = gen

\* While somebody disconnects nobody logs in; a disconnect leaves no loop and
\* no token, and it stays so until a login.
Down ==
  /\ leaving # "idle" => LoggingIn = {}
  /\ leaving = "stopping" => caller[0].ch = gen
  /\ leaving = "clear" => Closing = {} /\ status # "connected"
  /\ wiped => /\ LoggingIn = {} /\ Closing = {}
              /\ saved = 0 /\ status # "connected"

\* Once Start is over there is a loop, on an open channel, until a disconnect.
Up ==
  /\ \A p \in Starters : poller[p] = "spawn" => gen \notin stopClosed
  /\ /\ leaving = "idle" /\ ~wiped /\ botToken # 0
     /\ \A p \in Starters : poller[p] \notin {"start", "starting", "spawn"}
     => gen \notin stopClosed /\ Working # {}

Parted == ~crossed => Down /\ Up

\* What a step of a loop leaves as it is, and when a loop leaves.
LEMMA LoopGoesOn ==
  ASSUME Typed, NEW l \in Loops, PollStep(l)
  PROVE  /\ UNCHANGED <<gen, stopClosed, caller>>
         /\ status' \in {status, "disconnected"}
         /\ \A m \in Loops \ {l} : loop'[m] = loop[m]
         /\ loop'[l].pc \in {"pause", "send"} => loop'[l].ch = gen
         /\ l \in Working =>
              \/ l \in Working' \/ gen \in stopClosed
              \/ /\ loop[l].pc \in {"pause", "send"}
                 /\ loop[l].ch \in stopClosed
<1>0. loop \in [Loops -> LoopRecord] /\ loop[l] \in LoopRecord
  BY DEF Typed, LoopsTyped
<1>1. \A m \in Loops \ {l} : loop'[m] = loop[m]
  BY LoopStep
<1>a. ASSUME NEW pc, Goto(l, pc) PROVE loop'[l].pc = pc
  BY <1>0, <1>a DEF Goto, LoopRecord
<1>b. ASSUME NEW pc, Select(l, pc) PROVE loop'[l].pc = pc /\ loop'[l].ch = gen
  BY <1>0, <1>b DEF Select, LoopRecord
<1>c. LoopOnly => UNCHANGED <<gen, stopClosed, caller, status>>
  BY DEF LoopOnly, chans, flags
<1>d. l \in Working' <=> loop'[l].pc \notin {"none", "exit", "flag", "gone"}
  BY DEF Working
<1>e. l \in Working => loop[l].pc \notin {"exit", "flag"}
  BY DEF Working
<1>2. CASE Top(l)
  BY <1>1, <1>2, <1>a, <1>c, <1>d DEF Top
<1>3. CASE CheckStatus(l)
  BY <1>1, <1>3, <1>a, <1>b, <1>c, <1>d DEF CheckStatus
<1>4. CASE Pause(l)
  BY <1>1, <1>4, <1>a, <1>c, <1>d DEF Pause
<1>5. CASE BeginPoll(l)
  <2>1. loop'[l].pc = "poll"
    BY <1>0, <1>5 DEF BeginPoll, LoopRecord
  <2> QED BY <1>1, <1>5, <1>c, <1>d, <2>1 DEF BeginPoll
<1>6. CASE PollReturns(l)
  <2> DEFINE b == NewMessages(loop[l].upto)
  <2>1. /\ loop' = [loop EXCEPT ![l].pc = "store", ![l].upto = sent, ![l].batch = b]
        /\ LoopOnly
    BY <1>6 DEF PollReturns
  <2> HIDE DEF b
  <2>2. loop'[l].pc = "store"
    BY <1>0, <2>1 DEF LoopRecord
  <2> QED BY <1>1, <1>c, <1>d, <2>1, <2>2
<1>7. CASE PollFails(l)
  BY <1>1, <1>7, <1>a, <1>c, <1>d DEF PollFails
<1>8. CASE CheckFailed(l)
  BY <1>1, <1>8, <1>a, <1>c, <1>d DEF CheckFailed
<1>9. CASE Lost(l)
  BY <1>1, <1>9, <1>b, <1>d DEF Lost, chans
<1>10. CASE StoreCursor(l)
  BY <1>1, <1>10, <1>a, <1>d DEF StoreCursor, chans, flags
<1>11. CASE StoreContact(l)
  BY <1>1, <1>11, <1>b, <1>d DEF StoreContact, chans, flags
<1>12. CASE SendOnly(l)
  <2> DEFINE pc == IF Tail(loop[l].batch) = <<>> THEN "top" ELSE "contact"
  <2>1. /\ loop' = [loop EXCEPT ![l].batch = Tail(@), ![l].pc = pc]
        /\ pc \in {"top", "contact"}
        /\ UNCHANGED <<gen, stopClosed, caller, status>>
    BY <1>12 DEF SendOnly, AfterSend, chans, flags
  <2> HIDE DEF pc
  <2>2. loop'[l].pc = pc
    BY <1>0, <2>1 DEF LoopRecord
  <2> QED BY <1>1, <1>d, <2>1, <2>2
<1>13. CASE Told(l) /\ loop' = [loop EXCEPT ![l].batch = <<>>, ![l].pc = "exit"]
            /\ LoopOnly
  <2>1. loop'[l].pc = "exit"
    BY <1>0, <1>13 DEF LoopRecord
  <2> QED BY <1>1, <1>13, <1>c, <2>1 DEF Told
<1>14. CASE CloseDone(l)
  BY <1>1, <1>14, <1>a, <1>e DEF CloseDone, flags
<1>15. CASE ClearRunning(l)
  BY <1>1, <1>15, <1>a, <1>e DEF ClearRunning, chans
<1> QED
  BY <1>2, <1>3, <1>4, <1>5, <1>6, <1>7, <1>8, <1>9, <1>10, <1>11, <1>12, <1>13,
     <1>14, <1>15 DEF PollStep, Send

\* The steps of Start and Stop, for those who look at the channels.
LEMMA StartStep ==
  ASSUME Typed, NEW k \in Starters, Starting(k)
  PROVE  /\ \A j \in Callers \ {k} : caller'[j] = caller[j]
         /\ \/ /\ StartSignal(k) /\ caller[k].pc = "idle"
               /\ caller'[k].pc \in {"await", "fresh"}
               /\ UNCHANGED <<gen, loop, status>>
            \/ /\ StartWaited(k) /\ caller[k].pc = "await"
               /\ caller'[k].pc = "fresh"
               /\ UNCHANGED <<gen, stopClosed, loop, status>>
            \/ /\ StartFresh(k) /\ caller[k].pc = "fresh"
               /\ caller'[k].pc = "spawn" /\ gen' = gen + 1
               /\ UNCHANGED <<stopClosed, loop, status>>
            \/ /\ StartSpawn(k) /\ caller[k].pc = "spawn"
               /\ caller'[k].pc = "idle" /\ status' = "connected"
               /\ UNCHANGED <<gen, stopClosed>>
               /\ \E l \in Loops : /\ l \in Working'
                                   /\ \A m \in Loops \ {l} : loop'[m] = loop[m]
<1>0. k \in Callers /\ loop \in [Loops -> LoopRecord]
  BY DEF Callers, Typed, LoopsTyped
<1>1. CASE StartSignal(k)
  <2>1. /\ caller[k].pc = "idle" /\ UNCHANGED <<gen, loop, status>>
        /\ AtCaller(k, IF pollRunning THEN "await" ELSE "fresh", gen)
    BY <1>1 DEF StartSignal, flags
  <2> QED BY <1>0, <1>1, <2>1, CallerStep
<1>2. CASE StartWaited(k)
  <2>1. /\ caller[k].pc = "await" /\ AtCaller(k, "fresh", gen)
        /\ UNCHANGED <<gen, stopClosed, loop, status>>
    BY <1>2 DEF StartWaited, chans, flags
  <2> QED BY <1>0, <1>2, <2>1, CallerStep
<1>3. CASE StartFresh(k)
  <2>1. /\ caller[k].pc = "fresh" /\ AtCaller(k, "spawn", gen') /\ gen' = gen + 1
        /\ UNCHANGED <<stopClosed, loop, status>>
    BY <1>3 DEF StartFresh
  <2> QED BY <1>0, <1>3, <2>1, CallerStep
<1>4. CASE StartSpawn(k)
  <2>1. /\ caller[k].pc = "spawn" /\ AtCaller(k, "idle", 0)
        /\ status' = "connected" /\ UNCHANGED <<gen, stopClosed>>
        /\ \E l \in Loops : loop' = [loop EXCEPT ![l].pc = "top"]
    BY <1>4 DEF StartSpawn, chans
  <2>2. PICK l \in Loops : loop' = [loop EXCEPT ![l].pc = "top"]
    BY <2>1
  <2>3. loop'[l].pc = "top" /\ \A m \in Loops \ {l} : loop'[m] = loop[m]
    BY <1>0, <2>2 DEF LoopRecord
  <2> QED BY <1>0, <1>4, <2>1, <2>3, CallerStep DEF Working
<1> QED BY <1>1, <1>2, <1>3, <1>4 DEF Starting

\* A loop that waits does so on the channel of the fields: there is none when
\* a Start makes another.
LEMMA OwnChannelNext ==
  ASSUME Typed, Solo, OwnChannel, [Next]_vars
  PROVE  OwnChannel'
<1>1. ASSUME NEW k \in Starters, Starting(k) PROVE OwnChannel'
  <2>1. CASE UNCHANGED <<gen, loop>>
    BY <2>1 DEF OwnChannel, Closing
  <2>2. CASE loop' = loop /\ caller[k].pc = "fresh"
    <3>1. Closing' = {}
      BY <2>2 DEF Solo, Closing
    <3> QED BY <3>1 DEF OwnChannel
  <2>3. CASE StartSpawn(k)
    <3>1. gen' = gen /\ \E l \in Loops : loop' = [loop EXCEPT ![l].pc = "top"]
      BY <2>3 DEF StartSpawn, chans
    <3>2. PICK l \in Loops : loop' = [loop EXCEPT ![l].pc = "top"]
      BY <3>1
    <3>3. loop'[l].pc = "top" /\ \A m \in Loops \ {l} : loop'[m] = loop[m]
      BY <3>2 DEF Typed, LoopsTyped, LoopRecord
    <3> QED BY <3>1, <3>3 DEF OwnChannel, Closing
  <2> QED BY <1>1, <2>1, <2>2, <2>3, StartStep
<1>2. ASSUME NEW l \in Loops, PollStep(l) PROVE OwnChannel'
  <2>1. /\ gen' = gen /\ \A m \in Loops \ {l} : loop'[m] = loop[m]
        /\ loop'[l].pc \in {"pause", "send"} => loop'[l].ch = gen
    BY <1>2, LoopGoesOn
  <2> QED BY <2>1 DEF OwnChannel, Closing
<1>3. CASE UNCHANGED <<gen, loop>>
  BY <1>3 DEF OwnChannel, Closing
<1>4. (\E k \in Stoppers : Stopping(k)) \/ Receive \/ NewMessage \/ SetStatus
        \/ UNCHANGED vars => UNCHANGED <<gen, loop>>
  BY DEF Stopping, StopSignal, StopWaited, Receive, NewMessage, SetStatus, vars,
         chans
<1> QED BY <1>1, <1>2, <1>3, <1>4 DEF Next

\* The numbers of the pollers are those of the starters.
LEMMA PollerNumbers ==
  /\ Login!QR = Starters
  /\ \A p \in Starters :
       p \in LoggingIn <=> poller[p] \in {"start", "starting", "spawn", "notify",
                                          "release", "save", "status"}
  /\ LoggingIn \subseteq Starters
  /\ Starters \subseteq Callers /\ 0 \in Callers /\ 0 \notin Starters
BY SessionAssumption, PollAssumption
   DEF LoggingIn, Login!LoggingIn, Login!QR, Callers

\* One poller moves.
LEMMA PollerStep ==
  ASSUME Matched, NEW p \in Starters, NEW pc \in Login!Places, Login!Goto(p, pc)
  PROVE  /\ poller' \in [Starters -> Login!Places] /\ poller'[p] = pc
         /\ \A q \in Starters \ {p} : poller'[q] = poller[q]
BY DEF Matched, Login!Goto

\* A poller that leaves the connection alone sets the token, or is on its way
\* to where it does, or from there on.
LEMMA LogInStep ==
  ASSUME Matched, NEW p \in Starters, LogIn(p)
  PROVE  /\ UNCHANGED <<vars, leaving>>
         /\ poller' \in [Starters -> Login!Places]
         /\ \A q \in Starters \ {p} : poller'[q] = poller[q]
         /\ poller[p] \notin {"start", "starting", "spawn"}
         /\ poller'[p] \notin {"starting", "spawn"}
         /\ MayOverlap \/ ~overlapped'
         /\ crossed => crossed'
         /\ \/ /\ poller'[p] = "start" /\ poller[p] = "token"
               /\ botToken' = p /\ wiped' = FALSE /\ saved' = saved
               /\ overlapped' = (overlapped \/ LoggingIn # {})
               /\ ~crossed' => leaving = "idle"
            \/ /\ poller'[p] # "start" /\ UNCHANGED <<botToken, wiped, overlapped>>
               /\ p \in LoggingIn' => p \in LoggingIn
               /\ p \in LoggingIn \/ saved' = saved
<1>0. /\ UNCHANGED vars /\ Login!Polling(p) /\ poller[p] # "leave"
      /\ MayOverlap \/ ~overlapped'
      /\ crossed' = (crossed \/ (Login!SetToken(p) /\ leaving # "idle"))
  BY DEF LogIn
<1>1. (crossed => crossed') /\ (~crossed' => ~(Login!SetToken(p) /\ leaving # "idle"))
  BY <1>0, Zenon
<1>2. CASE Login!SetToken(p)
  <2>1. /\ poller[p] = "token" /\ Login!Goto(p, "start") /\ leaving' = leaving
        /\ botToken' = p /\ wiped' = FALSE /\ saved' = saved
        /\ overlapped' = (overlapped \/ LoggingIn # {})
    BY <1>2 DEF Login!SetToken, Login!PollerOnly, LoggingIn
  <2>2. "start" \in Login!Places
    BY DEF Login!Places
  <2> QED BY <1>0, <1>1, <1>2, <2>1, <2>2, PollerStep
<1>3. CASE Login!Wait(p) \/ Login!CheckQRCodeStatus(p)
  <2>1. /\ poller[p] \in {"wait", "check"}
        /\ \E pc \in {"check", "leave", "wait", "token"} : Login!Goto(p, pc)
        /\ UNCHANGED <<leaving, botToken, wiped, overlapped, saved>>
    BY <1>3 DEF Login!Wait, Login!CheckQRCodeStatus, Login!PollerOnly,
                Login!tokenVars, Login!observed
  <2>2. {"check", "leave", "wait", "token"} \subseteq Login!Places
    BY DEF Login!Places
  <2>3. PICK pc \in {"check", "leave", "wait", "token"} : Login!Goto(p, pc)
    BY <2>1
  <2>4. /\ poller' \in [Starters -> Login!Places] /\ poller'[p] = pc
        /\ \A q \in Starters \ {p} : poller'[q] = poller[q]
    BY <2>2, <2>3, PollerStep
  <2>5. p \notin LoggingIn'
    BY <2>4 DEF LoggingIn, Login!LoggingIn
  <2> QED BY <1>0, <1>1, <2>1, <2>4, <2>5
<1>4. CASE \/ Login!NotifyTokenSaved(p) \/ Login!Release(p)
           \/ Login!UpdateWechat(p) \/ Login!SetStatus(p)
  <2>1. /\ poller[p] \in {"notify", "release", "save", "status"}
        /\ \E pc \in {"release", "save", "status", "leave"} : Login!Goto(p, pc)
        /\ UNCHANGED <<leaving, botToken, wiped, overlapped>>
    BY <1>4 DEF Login!NotifyTokenSaved, Login!Release, Login!UpdateWechat,
                Login!SetStatus, Login!PollerOnly, Login!observed
  <2>2. {"release", "save", "status", "leave"} \subseteq Login!Places
    BY DEF Login!Places
  <2>3. PICK pc \in {"release", "save", "status", "leave"} : Login!Goto(p, pc)
    BY <2>1
  <2>4. /\ poller' \in [Starters -> Login!Places] /\ poller'[p] = pc
        /\ \A q \in Starters \ {p} : poller'[q] = poller[q]
    BY <2>2, <2>3, PollerStep
  <2>5. p \in LoggingIn
    BY <2>1, PollerNumbers
  <2> QED BY <1>0, <1>1, <2>1, <2>4, <2>5
<1>5. ~Login!Leave(p)
  BY <1>0 DEF Login!Leave
<1> QED BY <1>0, <1>2, <1>3, <1>4, <1>5 DEF Login!Polling

\* A poller in Start, and at the end of OnTokenSaved.
LEMMA LoginStartStep ==
  ASSUME Matched, NEW p \in Starters,
         LoginSignals(p) \/ LoginRenews(p) \/ LoginSpawns(p) \/ LoginSetsStatus(p)
  PROVE  /\ UNCHANGED <<leaving, botToken, wiped, overlapped, saved, crossed>>
         /\ poller' \in [Starters -> Login!Places]
         /\ \A q \in Starters \ {p} : poller'[q] = poller[q]
         /\ p \in LoggingIn
         /\ \/ /\ LoginSignals(p) /\ StartSignal(p) /\ p \in LoggingIn'
               /\ poller[p] = "start" /\ poller'[p] = "starting"
            \/ /\ LoginRenews(p) /\ StartFresh(p) /\ p \in LoggingIn'
               /\ poller[p] = "starting" /\ poller'[p] = "spawn"
            \/ /\ LoginSpawns(p) /\ StartSpawn(p) /\ p \in LoggingIn'
               /\ poller[p] = "spawn" /\ poller'[p] = "notify"
            \/ /\ LoginSetsStatus(p) /\ SetStatus
               /\ poller[p] = "status" /\ poller'[p] = "leave"
<1>0. {"starting", "spawn", "notify", "leave"} \subseteq Login!Places
  BY DEF Login!Places
<1>a. ASSUME poller'[p] \in {"starting", "spawn", "notify"}
      PROVE  p \in LoggingIn'
  BY <1>a, PollerNumbers DEF LoggingIn, Login!LoggingIn
<1>b. ASSUME poller[p] \in {"start", "starting", "spawn", "status"}
      PROVE  p \in LoggingIn
  BY <1>b, PollerNumbers
<1>1. CASE LoginSignals(p)
  <2>1. /\ StartSignal(p) /\ poller[p] = "start" /\ Login!Goto(p, "starting")
        /\ UNCHANGED <<leaving, botToken, wiped, overlapped, saved, crossed>>
    BY <1>1 DEF LoginSignals, Login!StartSignal, Login!PollerOnly, Login!observed
  <2> QED BY <1>0, <1>1, <1>a, <1>b, <2>1, PollerStep
<1>2. CASE LoginRenews(p)
  <2>1. /\ StartFresh(p) /\ poller[p] = "starting" /\ Login!Goto(p, "spawn")
        /\ UNCHANGED <<leaving, botToken, wiped, overlapped, saved, crossed>>
    BY <1>2 DEF LoginRenews, Login!StartFresh, Login!PollerOnly, Login!observed
  <2> QED BY <1>0, <1>2, <1>a, <1>b, <2>1, PollerStep
<1>3. CASE LoginSpawns(p)
  <2>1. /\ StartSpawn(p) /\ poller[p] = "spawn" /\ Login!Goto(p, "notify")
        /\ UNCHANGED <<leaving, botToken, wiped, overlapped, saved, crossed>>
    BY <1>3 DEF LoginSpawns, Login!StartSpawn, Login!PollerOnly, Login!observed
  <2> QED BY <1>0, <1>3, <1>a, <1>b, <2>1, PollerStep
<1>4. CASE LoginSetsStatus(p)
  <2>1. /\ SetStatus /\ poller[p] = "status" /\ Login!Goto(p, "leave")
        /\ UNCHANGED <<leaving, botToken, wiped, overlapped, saved, crossed>>
    BY <1>4 DEF LoginSetsStatus, Login!SetStatus, Login!PollerOnly, Login!observed
  <2> QED BY <1>0, <1>4, <1>b, <2>1, PollerStep
<1> QED BY <1>1, <1>2, <1>3, <1>4

\* PollerNumbers' second fact of the next state.
LEMMA LoggingInNext ==
  /\ LoggingIn' \subseteq Starters
  /\ \A p \in Starters :
       p \in LoggingIn' <=> poller'[p] \in {"start", "starting", "spawn", "notify",
                                            "release", "save", "status"}
BY SessionAssumption DEF LoggingIn, Login!LoggingIn, Login!QR

\* The disconnect handler moves alone, and moves no loop.
LEMMA DisconnectStep ==
  ASSUME Typed, Matched, Disconnect
  PROVE  /\ UNCHANGED <<poller, botToken, overlapped, gen, loop>>
         /\ \A k \in Starters : caller'[k] = caller[k]
         /\ crossed => crossed'
         /\ \/ /\ StopSignal(0) /\ leaving = "idle" /\ leaving' = "stopping"
               /\ caller'[0].pc = "await" /\ caller'[0].ch = gen
               /\ UNCHANGED <<saved, wiped, status>>
               /\ ~crossed' => LoggingIn = {}
            \/ /\ StopWaited(0) /\ leaving = "stopping" /\ leaving' = "clear"
               /\ caller'[0].pc = "idle" /\ status' = "disconnected"
               /\ UNCHANGED <<saved, wiped, stopClosed, crossed>>
            \/ /\ leaving = "clear" /\ leaving' = "idle"
               /\ UNCHANGED <<vars, crossed>>
               /\ saved' = 0 /\ wiped' = TRUE
<1>0. /\ 0 \in Callers /\ \A k \in Starters : k \in Callers \ {0}
  BY PollerNumbers
<1>1. CASE /\ StopSignal(0) /\ Login!Stop
           /\ crossed' = (crossed \/ Login!LoggingIn # {})
  <2>1. /\ leaving = "idle" /\ leaving' = "stopping" /\ AtCaller(0, "await", gen)
        /\ UNCHANGED <<poller, botToken, overlapped, gen, loop, saved, wiped, status>>
    BY <1>1 DEF StopSignal, Login!Stop, Login!observed, flags
  <2>2. (crossed => crossed') /\ (~crossed' => LoggingIn = {})
    BY <1>1, Zenon DEF LoggingIn
  <2> QED BY <1>0, <1>1, <2>1, <2>2, CallerStep
<1>2. CASE StopWaited(0) /\ Login!Stopped /\ UNCHANGED crossed
  <2>1. /\ leaving = "stopping" /\ leaving' = "clear" /\ AtCaller(0, "idle", 0)
        /\ status' = "disconnected"
        /\ UNCHANGED <<poller, botToken, overlapped, gen, loop, saved, wiped,
                       stopClosed, crossed>>
    BY <1>2 DEF StopWaited, Login!Stopped, Login!observed, chans
  <2> QED BY <1>0, <1>2, <2>1, CallerStep
<1>3. CASE UNCHANGED <<vars, crossed>> /\ Login!ClearToken
  <2>1. UNCHANGED <<gen, loop, caller>>
    BY <1>3 DEF vars, chans
  <2> QED BY <1>3, <2>1 DEF Login!ClearToken
<1> QED BY <1>1, <1>2, <1>3 DEF Disconnect

\* The composition makes no step that PollLoop does not.
LEMMA SessionSteps ==
  ASSUME [SessionNext]_sessionVars PROVE [Next]_vars
<1>1. ASSUME NEW p \in Starters,
             LoginSignals(p) \/ LoginWaits(p) \/ LoginRenews(p) \/ LoginSpawns(p)
      PROVE  Next
  BY <1>1 DEF LoginSignals, LoginWaits, LoginRenews, LoginSpawns, Starting, Next
<1>2. ASSUME NEW p \in Starters, LogIn(p) PROVE UNCHANGED vars
  BY <1>2 DEF LogIn
<1>3. ASSUME (\E p \in Starters : LoginSetsStatus(p)) \/ Expire PROVE Next
  BY <1>3 DEF LoginSetsStatus, Expire, Next
<1>4. ASSUME NEW l \in Loops, Poll(l) PROVE Next
  BY <1>4 DEF Poll, Next
<1>5. CASE Disconnect
  BY <1>5, SessionAssumption DEF Disconnect, Next, Stopping
<1>6. CASE UNCHANGED sessionVars
  BY <1>6 DEF sessionVars
<1> QED BY <1>1, <1>2, <1>3, <1>4, <1>5, <1>6 DEF SessionNext

\* One login at a time is one starter at a time.
LEMMA OneStarter ==
  ASSUME Typed, Matched, OneLogin PROVE Apart
<1> SUFFICES ASSUME NEW j \in Starters, caller[j].pc # "idle",
                    NEW k \in Starters, caller[k].pc # "idle"
             PROVE  j = k
  BY DEF Apart
<1>1. ASSUME NEW p \in Starters, caller[p].pc # "idle" PROVE p \in LoggingIn
  <2>1. caller[p].pc \in {"await", "fresh", "spawn"}
    BY <1>1, PollerNumbers DEF Typed, CallersTyped, CallerRecord
  <2>2. poller[p] \in {"starting", "spawn"}
    BY <2>1 DEF Matched
  <2> QED BY <2>2, PollerNumbers
<1> QED BY <1>1 DEF OneLogin

\* A login that starts a loop finds the flag of the one it replaces, unless
\* MayOverlook; nobody else starts one.
LEMMA LoginsHeed ==
  ASSUME Typed, Matched, ~MayOverlook, [SessionNext]_sessionVars
  PROVE  [Heeded]_vars
<1> SUFFICES ASSUME NEW k \in Starters, StartSignal(k), Closing # {},
                    ~ UNCHANGED vars
             PROVE  pollRunning
  BY DEF Heeded
<1>1. /\ caller[k].pc = "idle" /\ caller'[k].pc # "idle" /\ loop' = loop
      /\ status' = status
  BY StartStep DEF Starting, StartSignal, flags
<1>2. ASSUME NEW p \in Starters, LoginSignals(p) PROVE pollRunning
  BY <1>2 DEF LoginSignals
<1>3. ASSUME NEW p \in Starters, LoginWaits(p) \/ LoginRenews(p) \/ LoginSpawns(p)
      PROVE  FALSE
  <2>1. /\ StartWaited(p) \/ StartFresh(p) \/ StartSpawn(p)
        /\ caller[p].pc # "idle"
    BY <1>3 DEF LoginWaits, LoginRenews, LoginSpawns, StartWaited, StartFresh,
                StartSpawn
  <2>2. \A j \in Callers \ {p} : caller'[j] = caller[j]
    BY <2>1, StartStep DEF Starting
  <2> QED BY <1>1, <2>1, <2>2, PollerNumbers
<1>4. ASSUME (\E p \in Starters : LogIn(p)) \/ UNCHANGED sessionVars PROVE FALSE
  BY <1>4 DEF LogIn, sessionVars
<1>5. ASSUME (\E p \in Starters : LoginSetsStatus(p)) \/ Expire PROVE FALSE
  BY <1>1, <1>5 DEF LoginSetsStatus, Expire, SetStatus
<1>6. ASSUME NEW l \in Loops, Poll(l) PROVE FALSE
  <2>1. PollStep(l)
    BY <1>6 DEF Poll
  <2> QED BY <1>1, <2>1, LoopStep
<1>7. ASSUME Disconnect PROVE FALSE
  BY <1>1, <1>7, DisconnectStep
<1> QED BY <1>2, <1>3, <1>4, <1>5, <1>6, <1>7 DEF SessionNext

\* Pollers and callers move together.
LEMMA MatchedNext ==
  ASSUME Typed, Matched, [SessionNext]_sessionVars
  PROVE  Matched'
<1>0. /\ poller \in [Starters -> Login!Places]
      /\ leaving \in {"idle", "stopping", "clear"}
      /\ \A p \in Starters :
           /\ caller[p].pc \in {"await", "fresh"} <=> poller[p] = "starting"
           /\ caller[p].pc = "spawn" <=> poller[p] = "spawn"
      /\ caller[0].pc = IF leaving = "stopping" THEN "await" ELSE "idle"
  BY DEF Matched
<1>a. Starters \subseteq Callers /\ 0 \in Callers /\ 0 \notin Starters
  BY PollerNumbers
<1>1. ASSUME NEW p \in Starters, LogIn(p) PROVE Matched'
  <2>1. caller' = caller
    BY <1>1, LogInStep DEF vars
  <2> QED BY <1>0, <1>1, <2>1, LogInStep DEF Matched
<1>2. ASSUME NEW p \in Starters,
             LoginSignals(p) \/ LoginRenews(p) \/ LoginSpawns(p)
      PROVE  Matched'
  <2>1. Starting(p)
    BY <1>2 DEF LoginSignals, LoginRenews, LoginSpawns, Starting
  <2>2. /\ leaving' = leaving /\ poller' \in [Starters -> Login!Places]
        /\ \A q \in Starters \ {p} : poller'[q] = poller[q]
    BY <1>2, LoginStartStep
  <2>3. \A j \in Callers \ {p} : caller'[j] = caller[j]
    BY <2>1, StartStep
  <2>4. \/ poller'[p] = "starting" /\ caller'[p].pc \in {"await", "fresh"}
        \/ poller'[p] = "spawn" /\ caller'[p].pc = "spawn"
        \/ poller'[p] = "notify" /\ caller'[p].pc = "idle"
    <3>1. CASE StartSignal(p) /\ poller'[p] = "starting"
      <4>1. caller[p].pc = "idle"
        BY <3>1 DEF StartSignal
      <4> QED BY <2>1, <3>1, <4>1, StartStep
    <3>2. CASE StartFresh(p) /\ poller'[p] = "spawn"
      <4>1. caller[p].pc = "fresh"
        BY <3>2 DEF StartFresh
      <4> QED BY <2>1, <3>2, <4>1, StartStep DEF StartWaited
    <3>3. CASE StartSpawn(p) /\ poller'[p] = "notify"
      <4>1. caller[p].pc = "spawn"
        BY <3>3 DEF StartSpawn
      <4> QED BY <2>1, <3>3, <4>1, StartStep
    <3>4. CASE LoginSetsStatus(p) /\ SetStatus /\ poller[p] = "status"
      <4>1. caller' = caller /\ caller'[p].pc # caller[p].pc
        BY <2>1, <3>4, StartStep DEF SetStatus
      <4> QED BY <4>1
    <3> QED BY <1>2, <3>1, <3>2, <3>3, <3>4, LoginStartStep
  <2> QED BY <1>0, <1>a, <2>2, <2>3, <2>4 DEF Matched
<1>3. ASSUME NEW p \in Starters, LoginWaits(p) PROVE Matched'
  <2>1. Starting(p) /\ caller[p].pc = "await" /\ UNCHANGED <<poller, leaving>>
    BY <1>3 DEF LoginWaits, Starting, StartWaited, loginVars
  <2>2. caller'[p].pc = "fresh" /\ \A j \in Callers \ {p} : caller'[j] = caller[j]
    BY <2>1, StartStep
  <2> QED BY <1>0, <1>a, <2>1, <2>2 DEF Matched
<1>4. ASSUME NEW p \in Starters, LoginSetsStatus(p) PROVE Matched'
  <2>1. caller' = caller /\ leaving' = leaving
    BY <1>4, LoginStartStep DEF LoginSetsStatus, SetStatus
  <2>2. /\ poller' \in [Starters -> Login!Places]
        /\ \A q \in Starters \ {p} : poller'[q] = poller[q]
        /\ poller[p] = "status" /\ poller'[p] = "leave"
    <3>1. poller[p] = "status" /\ Login!Goto(p, "leave")
      BY <1>4 DEF LoginSetsStatus, Login!SetStatus
    <3> QED BY <3>1, PollerStep DEF Login!Places
  <2> QED BY <1>0, <2>1, <2>2 DEF Matched
<1>5. CASE Disconnect
  <2>1. poller' = poller /\ \A k \in Starters : caller'[k] = caller[k]
    BY <1>5, DisconnectStep
  <2>2. /\ leaving' \in {"idle", "stopping", "clear"}
        /\ caller'[0].pc = IF leaving' = "stopping" THEN "await" ELSE "idle"
    <3>1. CASE caller' = caller /\ leaving = "clear" /\ leaving' = "idle"
      BY <1>0, <3>1
    <3> QED BY <1>5, <3>1, DisconnectStep DEF vars
  <2> QED BY <1>0, <2>1, <2>2 DEF Matched
<1>6. ASSUME NEW l \in Loops, Poll(l) PROVE Matched'
  <2>1. PollStep(l) /\ UNCHANGED <<poller, leaving>>
    BY <1>6 DEF Poll, loginVars
  <2>2. caller' = caller
    BY <2>1, LoopStep
  <2> QED BY <2>1, <2>2 DEF Matched
<1>7. CASE Expire \/ UNCHANGED sessionVars
  <2>1. UNCHANGED <<poller, leaving, caller>>
    BY <1>7 DEF Expire, SetStatus, sessionVars, loginVars, vars
  <2> QED BY <2>1 DEF Matched
<1> QED BY <1>1, <1>2, <1>3, <1>4, <1>5, <1>6, <1>7 DEF SessionNext

\* Who was not logging in and did not begin to is not.
LEMMA NobodyBegins ==
  ASSUME NEW p \in Starters, p \in LoggingIn' => p \in LoggingIn,
         \A q \in Starters \ {p} : poller'[q] = poller[q]
  PROVE  LoggingIn' \subseteq LoggingIn
BY PollerNumbers, LoggingInNext

\* Unless MayOverlap a login begins when no other is under way.
LEMMA OneLoginNext ==
  ASSUME ~MayOverlap, Typed, Matched, OneLogin, [SessionNext]_sessionVars
  PROVE  OneLogin'
<1>a. ASSUME LoggingIn' \subseteq LoggingIn, overlapped' = overlapped
      PROVE  OneLogin'
  BY <1>a DEF OneLogin
<1>1. ASSUME NEW p \in Starters, LogIn(p) PROVE OneLogin'
  <2>1. ~overlapped' /\ \A q \in Starters \ {p} : poller'[q] = poller[q]
    BY <1>1, LogInStep
  <2>2. CASE overlapped' = (overlapped \/ LoggingIn # {})
    <3>1. LoggingIn = {}
      BY <2>1, <2>2
    <3>2. LoggingIn' \subseteq {p}
      BY <2>1, <3>1, PollerNumbers, LoggingInNext
    <3> QED BY <2>1, <3>2 DEF OneLogin
  <2>3. CASE overlapped' = overlapped /\ (p \in LoggingIn' => p \in LoggingIn)
    BY <1>a, <2>1, <2>3, NobodyBegins
  <2> QED BY <1>1, <2>2, <2>3, LogInStep
<1>2. ASSUME NEW p \in Starters,
             LoginSignals(p) \/ LoginRenews(p) \/ LoginSpawns(p) \/ LoginSetsStatus(p)
      PROVE  OneLogin'
  <2>1. /\ overlapped' = overlapped /\ p \in LoggingIn
        /\ \A q \in Starters \ {p} : poller'[q] = poller[q]
    BY <1>2, LoginStartStep
  <2> QED BY <1>a, <2>1, NobodyBegins
<1>3. CASE UNCHANGED <<poller, overlapped>>
  <2>1. LoggingIn' = LoggingIn
    BY <1>3 DEF LoggingIn, Login!LoggingIn
  <2> QED BY <1>a, <1>3, <2>1
<1>4. (\E p \in Starters : LoginWaits(p)) \/ (\E l \in Loops : Poll(l))
        \/ Expire \/ UNCHANGED sessionVars => UNCHANGED <<poller, overlapped>>
  BY DEF LoginWaits, Poll, Expire, sessionVars, loginVars
<1>5. Disconnect => UNCHANGED <<poller, overlapped>>
  BY DisconnectStep
<1> QED BY <1>1, <1>2, <1>3, <1>4, <1>5 DEF SessionNext

\* A loop on an open channel goes on.
LEMMA WorkGoesOn ==
  ASSUME Typed, OwnChannel, NEW l \in Loops, PollStep(l),
         gen \notin stopClosed, Working # {}
  PROVE  Working' # {}
<1>1. /\ \A m \in Loops \ {l} : loop'[m] = loop[m]
      /\ l \in Working =>
           \/ l \in Working' \/ gen \in stopClosed
           \/ loop[l].pc \in {"pause", "send"} /\ loop[l].ch \in stopClosed
  BY LoopGoesOn
<1>2. CASE l \in Working
  <2>1. l \in Closing
    BY <1>2 DEF Working, Closing
  <2> QED BY <1>1, <1>2, <2>1 DEF OwnChannel
<1>3. CASE l \notin Working
  <2>1. PICK m \in Working : m # l
    BY <1>3
  <2>2. m \in Working'
    BY <1>1, <2>1 DEF Working
  <2> QED BY <2>2
<1> QED BY <1>2, <1>3

\* Neither a step of a login nor one of a disconnect breaks what holds when the
\* two do not meet.
LEMMA PartedNext ==
  ASSUME ~MayBeLate, Typed, Solo, Matched, OneLogin, OwnChannel, Parted,
         [SessionNext]_sessionVars
  PROVE  Parted'
<1> SUFFICES ASSUME ~crossed' PROVE Down' /\ Up'
  BY DEF Parted
<1>a. ASSUME NEW p \in Starters, poller[p] \in {"start", "starting", "spawn"}
      PROVE  p \in LoggingIn
  BY <1>a, PollerNumbers
<1>b. /\ Working' = {l \in Loops : loop'[l].pc \notin {"none", "exit", "flag", "gone"}}
      /\ Closing' = {l \in Loops : loop'[l].pc \notin {"none", "flag", "gone"}}
  BY DEF Working, Closing
<1>c. loop' = loop => Working' = Working /\ Closing' = Closing
  BY <1>b DEF Working, Closing
<1>d. ASSUME poller' = poller PROVE LoggingIn' = LoggingIn
  BY <1>d DEF LoggingIn, Login!LoggingIn
<1>1. ASSUME NEW p \in Starters, LogIn(p) PROVE Down' /\ Up'
  <2>1. /\ UNCHANGED <<gen, stopClosed, loop, caller, status, leaving>>
        /\ \A q \in Starters \ {p} : poller'[q] = poller[q]
        /\ poller[p] \notin {"start", "starting", "spawn"}
        /\ poller'[p] \notin {"starting", "spawn"}
        /\ ~crossed
    BY <1>1, LogInStep DEF vars, chans, flags
  <2>2. Down /\ Up /\ Working' = Working /\ Closing' = Closing
    BY <1>c, <2>1 DEF Parted
  <2>3. CASE poller'[p] = "start" /\ wiped' = FALSE /\ leaving = "idle"
    <3>1. Down'
      BY <2>1, <2>3 DEF Down
    <3> QED BY <2>1, <2>2, <2>3, <3>1 DEF Up
  <2>4. CASE /\ poller'[p] # "start" /\ UNCHANGED <<botToken, wiped>>
             /\ p \in LoggingIn' => p \in LoggingIn
             /\ p \in LoggingIn \/ saved' = saved
    <3>1. LoggingIn' \subseteq LoggingIn
      BY <2>1, <2>4, NobodyBegins
    <3>2. Down'
      BY <2>1, <2>2, <2>4, <3>1 DEF Down
    <3> QED BY <2>1, <2>2, <2>4, <3>2 DEF Up
  <2> QED BY <1>1, <2>3, <2>4, LogInStep
<1>2. ASSUME NEW p \in Starters,
             LoginSignals(p) \/ LoginRenews(p) \/ LoginSpawns(p) \/ LoginSetsStatus(p)
      PROVE  Down' /\ Up'
  <2>1. /\ UNCHANGED <<leaving, botToken, wiped, saved>> /\ ~crossed
        /\ \A q \in Starters \ {p} : poller'[q] = poller[q]
        /\ p \in LoggingIn
    BY <1>2, LoginStartStep
  <2>2. Down /\ Up /\ leaving = "idle" /\ ~wiped
    BY <2>1 DEF Parted, Down
  <2>3. Down'
    BY <2>1, <2>2 DEF Down
  <2>4. \A q \in Starters \ {p} : poller'[q] \notin {"start", "starting", "spawn"}
    BY <1>a, <2>1 DEF OneLogin
  <2>5. CASE poller'[p] = "starting"
    BY <2>3, <2>4, <2>5 DEF Up
  <2>6. CASE StartFresh(p) /\ poller'[p] = "spawn"
    <3>1. gen' = gen + 1 /\ stopClosed' = stopClosed
      BY <2>6 DEF StartFresh
    <3>2. gen' \notin stopClosed'
      BY <3>1 DEF Typed, ChansTyped
    <3> QED BY <2>3, <2>4, <2>6, <3>2 DEF Up
  <2>7. CASE StartSpawn(p) /\ poller[p] = "spawn" /\ poller'[p] = "notify"
    <3>1. caller[p].pc = "spawn" /\ UNCHANGED <<gen, stopClosed>>
      BY <2>7 DEF StartSpawn, chans
    <3>2. Working' # {}
      BY <2>7, <3>1, StartStep DEF Starting, StartSignal, StartWaited, StartFresh
    <3>3. gen' \notin stopClosed'
      BY <2>2, <2>7, <3>1 DEF Up
    <3> QED BY <2>3, <2>4, <2>7, <3>2, <3>3 DEF Up
  <2>8. CASE SetStatus /\ poller[p] = "status" /\ poller'[p] = "leave"
    <3>1. UNCHANGED <<gen, stopClosed, loop>>
      BY <2>8 DEF SetStatus, chans
    <3>2. \A q \in Starters : poller[q] \notin {"start", "starting", "spawn"}
      BY <2>1, <2>4, <2>8
    <3> QED BY <1>c, <2>1, <2>2, <2>3, <2>4, <2>8, <3>1, <3>2 DEF Up
  <2> QED BY <1>2, <2>5, <2>6, <2>7, <2>8, LoginStartStep
<1>3. ASSUME NEW p \in Starters, LoginWaits(p) PROVE Down' /\ Up'
  <2>1. /\ StartWaited(p) /\ caller[p].pc = "await"
        /\ UNCHANGED <<poller, leaving, botToken, wiped, saved, crossed>>
        /\ UNCHANGED <<gen, stopClosed, loop, status>>
    BY <1>3 DEF LoginWaits, StartWaited, loginVars, chans, flags
  <2>2. poller[p] = "starting" /\ p \in LoggingIn
    BY <1>a, <2>1 DEF Matched
  <2>3. Down /\ Up /\ leaving = "idle" /\ ~wiped
    BY <2>1, <2>2 DEF Parted, Down
  <2> QED BY <2>1, <2>2, <2>3 DEF Down, Up
<1>4. ASSUME NEW l \in Loops, Poll(l) PROVE Down' /\ Up'
  <2>1. /\ PollStep(l)
        /\ UNCHANGED <<poller, leaving, botToken, wiped, saved, crossed>>
    BY <1>4 DEF Poll, loginVars
  <2>2. Down /\ Up /\ LoggingIn' = LoggingIn
    BY <1>d, <2>1 DEF Parted
  <2>3. UNCHANGED <<gen, stopClosed, caller>> /\ status' \in {status, "disconnected"}
    BY <2>1, LoopGoesOn
  <2>4. Closing' \subseteq Closing
    <3>1. /\ \A m \in Loops \ {l} : loop'[m] = loop[m]
          /\ loop[l].pc \notin {"none", "gone"} /\ loop'[l].pc # "none"
          /\ loop[l].pc = "flag" => loop'[l].pc = "gone"
      BY <2>1, LoopStep
    <3> QED BY <3>1 DEF Closing
  <2>5. gen \notin stopClosed /\ Working # {} => Working' # {}
    BY <2>1, WorkGoesOn
  <2> QED BY <2>1, <2>2, <2>3, <2>4, <2>5 DEF Down, Up
<1>5. CASE Disconnect
  <2>0. /\ UNCHANGED <<poller, gen, loop>> /\ ~crossed
    BY <1>5, DisconnectStep
  <2>1. /\ Down /\ Up /\ Working' = Working /\ Closing' = Closing
        /\ LoggingIn' = LoggingIn
    BY <1>c, <1>d, <2>0 DEF Parted
  <2>2. ASSUME LoggingIn = {}, leaving' # "idle" \/ wiped' PROVE Up'
    BY <1>a, <2>0, <2>2 DEF Up
  <2>3. CASE /\ leaving' = "stopping" /\ caller'[0].ch = gen /\ LoggingIn = {}
             /\ UNCHANGED <<saved, wiped, status>>
    BY <2>0, <2>1, <2>2, <2>3 DEF Down
  <2>4. CASE /\ StopWaited(0) /\ leaving = "stopping" /\ leaving' = "clear"
             /\ status' = "disconnected" /\ UNCHANGED <<saved, wiped>>
    <3>1. LoggingIn = {} /\ caller[0].ch = gen
      BY <2>1, <2>4 DEF Down
    <3>2. Closing = {}
      BY <2>4, <3>1 DEF StopWaited, Waited, Solo
    <3> QED BY <2>1, <2>2, <2>4, <3>1, <3>2 DEF Down
  <2>5. CASE /\ leaving = "clear" /\ leaving' = "idle" /\ UNCHANGED vars
             /\ saved' = 0 /\ wiped' = TRUE
    <3>1. LoggingIn = {} /\ Closing = {} /\ status # "connected"
      BY <2>1, <2>5 DEF Down
    <3>2. status' = status
      BY <2>5 DEF vars, flags
    <3> QED BY <2>1, <2>2, <2>5, <3>1, <3>2 DEF Down
  <2> QED BY <1>5, <2>3, <2>4, <2>5, DisconnectStep
<1>6. CASE Expire \/ UNCHANGED sessionVars
  <2>1. /\ UNCHANGED <<poller, leaving, botToken, wiped, saved, crossed>>
        /\ UNCHANGED <<gen, stopClosed, loop, caller>>
        /\ status' \in {status, "expired"}
    BY <1>6 DEF Expire, SetStatus, sessionVars, loginVars, vars, chans, flags
  <2>2. Down /\ Up /\ LoggingIn' = LoggingIn
    BY <1>d, <2>1 DEF Parted
  <2> QED BY <1>c, <2>1, <2>2 DEF Down, Up
<1> QED BY <1>1, <1>2, <1>3, <1>4, <1>5, <1>6 DEF SessionNext

\* A session may have been restored: then loop 1 is about to poll.
LEMMA SessionInitial ==
  ASSUME SessionInit
  PROVE  Typed /\ Solo /\ Matched /\ OneLogin /\ OwnChannel /\ Parted
<1>1. PICK restored \in {0, 1} :
       /\ gen = restored /\ botToken = restored
       /\ pollRunning = (restored = 1)
       /\ status = IF restored = 1 THEN "connected" ELSE "disconnected"
       /\ cancelled = 0 .. (restored - 1)
       /\ poller = [p \in Starters |-> IF p <= restored THEN "gone" ELSE "token"]
       /\ loop = [l \in Loops |-> [Nothing EXCEPT
                                     !.pc = IF l <= restored THEN "top" ELSE @]]
  BY DEF SessionInit
<1>2. /\ leaving = "idle" /\ wiped = FALSE /\ overlapped = FALSE
      /\ stopClosed = {} /\ doneClosed = {} /\ panicked = FALSE
      /\ getUpdatesBuf = 0 /\ lastContact = 0 /\ msgCh = <<>>
      /\ sent = 0 /\ received = <<>>
      /\ caller = [k \in Callers |-> [pc |-> "idle", ch |-> 0]]
  BY DEF SessionInit
<1>3. /\ \A l \in Loops :
           loop[l] = [pc |-> IF l <= restored THEN "top" ELSE "none",
                      ch |-> 0, upto |-> 0, batch |-> <<>>]
      /\ DOMAIN loop = Loops
  BY <1>1 DEF Nothing
<1>4. Loops = 1 .. MaxStarts /\ MaxStarts \in Nat \ {0} /\ Starters = Loops
  BY PollAssumption, SessionAssumption DEF Loops
<1>5. Starters \subseteq Callers /\ 0 \in Callers
  BY PollerNumbers
<1>6. Typed
  <2>0. <<>> \in Seq(FromUser) /\ Len(<<>>) = 0
    OBVIOUS
  <2>1. ChansTyped /\ FlagsTyped /\ MessagesTyped
    <3>1. ChansTyped
      BY <1>1, <1>2 DEF ChansTyped
    <3>2. FlagsTyped
      BY <1>1, <1>2 DEF FlagsTyped
    <3>3. MessagesTyped
      BY <1>2, <2>0, PollAssumption DEF MessagesTyped
    <3> QED BY <3>1, <3>2, <3>3
  <2>2. ASSUME NEW l \in Loops
        PROVE  /\ loop[l] \in LoopRecord /\ loop[l].ch = 0 /\ loop[l].upto = 0
               /\ loop[l].batch = <<>> /\ loop[l].pc \in {"top", "none"}
    <3>1. PICK pc \in {"top", "none"} :
            loop[l] = [pc |-> pc, ch |-> 0, upto |-> 0, batch |-> <<>>]
      BY <1>3
    <3> QED BY <2>0, <3>1 DEF LoopRecord, LoopPcs
  <2>3. loop \in [Loops -> LoopRecord]
    BY <1>1, <2>2
  <2>4. \A l \in Loops : Plausible(loop[l], gen, sent)
    BY <1>1, <1>2, <2>0, <2>2 DEF Plausible
  <2>5. CallersTyped
    BY <1>1, <1>2 DEF CallersTyped, CallerRecord
  <2> QED BY <2>1, <2>3, <2>4, <2>5 DEF Typed, LoopsTyped
<1>7. Closing = {l \in Loops : l <= restored} /\ Working = Closing
  BY <1>3 DEF Closing, Working
<1>8. Solo
  <2>1. \A l, m \in Closing : l = m
    BY <1>1, <1>4, <1>7
  <2> QED BY <1>2, <1>5, <2>1 DEF Solo
<1>9. Matched
  <2>1. poller \in [Starters -> Login!Places]
    BY <1>1 DEF Login!Places
  <2> QED BY <1>1, <1>2, <1>5, <2>1 DEF Matched
<1>10. LoggingIn = {}
  BY <1>1, PollerNumbers
<1>11. OwnChannel
  BY <1>3 DEF OwnChannel, Closing
<1>12. Up
  <2>1. CASE restored = 1
    <3>1. 1 \in Working
      BY <1>4, <1>7, <2>1
    <3> QED BY <1>1, <1>2, <3>1 DEF Up
  <2>2. CASE restored = 0
    BY <1>1, <1>2, <2>2 DEF Up
  <2> QED BY <1>1, <2>1, <2>2
<1>13. Down
  BY <1>2, <1>10 DEF Down
<1> QED BY <1>2, <1>6, <1>8, <1>9, <1>10, <1>11, <1>12, <1>13 DEF OneLogin, Parted

\* The inductive invariant of the composition.
SessionInv == Typed /\ Solo /\ Matched /\ OneLogin /\ OwnChannel /\ Parted

LEMMA SessionInvariance ==
  ASSUME ~MayBeLate, ~MayOverlap, ~MayOverlook
  PROVE  SessionSpec => []SessionInv
<1>1. SessionInv /\ [SessionNext]_sessionVars => SessionInv'
  <2> SUFFICES ASSUME SessionInv, [SessionNext]_sessionVars PROVE SessionInv'
    OBVIOUS
  <2>1. Apart /\ [Next]_vars /\ [Heeded]_vars
    BY SessionSteps, OneStarter, LoginsHeed DEF SessionInv
  <2> QED BY <2>1, TypedNext, SoloNext, MatchedNext, OneLoginNext, OwnChannelNext,
             PartedNext DEF SessionInv
<1>2. SessionInit => SessionInv
  BY SessionInitial DEF SessionInv
<1> QED BY <1>1, <1>2, PTL DEF SessionSpec

\* Logins that do not overlap, however many and whatever disconnects come
\* between or into them, leave one loop at most, and close no done twice.
THEOREM OneLoopPerSession ==
  ASSUME ~MayBeLate, ~MayOverlap, ~MayOverlook
  PROVE  SessionSpec => [](OneLoop /\ DoneMeansGone)
<1>1. SessionInv => OneLoop /\ DoneMeansGone
  BY SoloFacts DEF SessionInv
<1> QED BY <1>1, SessionInvariance, PTL

\* A login that met no disconnect leaves a loop, which nothing has told to stop.
THEOREM LoginLeavesLoop ==
  ASSUME ~MayBeLate, ~MayOverlap, ~MayOverlook
  PROVE  SessionSpec => []Online
<1>1. SessionInv => Online
  <2> SUFFICES ASSUME SessionInv, Login!Quiet, ~crossed, botToken # 0, ~wiped
               PROVE  gen \notin stopClosed /\ Working # {}
    BY DEF Online
  <2>1. leaving = "idle" /\ LoggingIn = {}
    BY DEF Login!Quiet, LoggingIn
  <2>2. \A p \in Starters : poller[p] \notin {"start", "starting", "spawn"}
    BY <2>1, PollerNumbers
  <2> QED BY <2>1, <2>2 DEF SessionInv, Parted, Up
<1> QED BY <1>1, SessionInvariance, PTL

\* A disconnect that met no login leaves no loop, no token and no status
\* "connected".
THEOREM DisconnectLeavesNone ==
  ASSUME ~MayBeLate, ~MayOverlap, ~MayOverlook
  PROVE  SessionSpec => []Offline
<1>1. Working \subseteq Closing
  BY DEF Working, Closing
<1>2. SessionInv => Offline
  BY <1>1 DEF Offline, SessionInv, Parted, Down
<1> QED BY <1>2, SessionInvariance, PTL
=============================================================================
