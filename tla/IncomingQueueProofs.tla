------------------------ MODULE IncomingQueueProofs ------------------------
(***************************************************************************)
(* Theorems about IncomingQueue, for every capacity, any number of clients *)
(* and messages, and any resolution of the timestamps.                     *)
(***************************************************************************)
EXTENDS IncomingQueue, SequenceTheorems, WellFoundedInduction, TLAPS

\* Push keeps the newest messages: dropping the oldest is what makes room.
LEMMA PushStep ==
  ASSUME IInv, Push
  PROVE  IInv'
<1>1. /\ messages \in Seq(IncomingMessage) /\ pushed \in Seq(IncomingMessage)
      /\ stamped \in IncomingMessage
      /\ Len(messages) \in Nat /\ Len(pushed) \in Nat /\ cleared \in Nat
      /\ cleared <= Len(pushed) /\ maxSize \in Nat \ {0}
  BY LenProperties, QueueAssumption DEF IInv
<1>2. /\ pushed' \in Seq(IncomingMessage) /\ Len(pushed') = Len(pushed) + 1
      /\ \A i \in 1..Len(pushed) : pushed'[i] = pushed[i]
      /\ pushed'[Len(pushed) + 1] = stamped
  BY <1>1, AppendProperties DEF Push
<1>3. /\ stamped' \in IncomingMessage /\ now' = now /\ cleared' = cleared
  BY DEF Push, NoMessage, IncomingMessage
<1> DEFINE n == Len(pushed) - cleared
<1>4. /\ Len(messages) = IF n < maxSize THEN n ELSE maxSize
      /\ \A i \in 1..Len(messages) :
           messages[i] = pushed[Len(pushed) - Len(messages) + i]
  BY DEF IInv, Retained
<1>5. CASE Len(messages) >= maxSize
  <2>1. Len(messages) = maxSize /\ n >= maxSize
    BY <1>1, <1>4, <1>5
  <2>2. messages # <<>>
    BY <1>1, <1>5
  <2>3. /\ Tail(messages) \in Seq(IncomingMessage)
        /\ Len(Tail(messages)) = maxSize - 1
        /\ \A i \in 1..(maxSize - 1) : Tail(messages)[i] = messages[i+1]
    BY <1>1, <1>4, <2>1, <2>2, HeadTailProperties
  <2>4. messages' = Append(Tail(messages), stamped)
    BY <1>5 DEF Push, Pushed
  <2>5. /\ messages' \in Seq(IncomingMessage) /\ Len(messages') = maxSize
        /\ \A i \in 1..(maxSize - 1) : messages'[i] = messages[i+1]
        /\ messages'[maxSize] = stamped
    BY <1>1, <2>3, <2>4, AppendProperties
  <2>6. ASSUME NEW i \in 1..maxSize
        PROVE  messages'[i] = pushed'[Len(pushed') - maxSize + i]
    <3>1. CASE i = maxSize
      BY <1>1, <1>2, <2>5, <3>1
    <3>2. CASE i < maxSize
      <4>0. i \in 1..(maxSize - 1) /\ i + 1 \in 1..maxSize
        BY <1>1, <3>2
      <4>1. messages'[i] = pushed[Len(pushed) - maxSize + (i+1)]
        BY <1>4, <2>1, <2>5, <4>0
      <4>2. Len(pushed) - maxSize + (i+1) \in 1..Len(pushed)
        BY <1>1, <2>1, <3>2
      <4>3. Len(pushed') - maxSize + i = Len(pushed) - maxSize + (i+1)
        BY <1>1, <1>2
      <4>4. QED
        BY <1>2, <4>1, <4>2, <4>3
    <3>3. QED
      BY <1>1, <3>1, <3>2
  <2>7. Retained'
    BY <1>1, <1>2, <1>3, <2>1, <2>5, <2>6 DEF Retained
  <2>8. QED
    BY <1>1, <1>2, <1>3, <2>5, <2>7 DEF IInv
<1>6. CASE Len(messages) < maxSize
  <2>1. Len(messages) = n /\ n < maxSize
    BY <1>1, <1>4, <1>6
  <2>2. messages' = Append(messages, stamped)
    BY <1>1, <1>6 DEF Push, Pushed
  <2>3. /\ messages' \in Seq(IncomingMessage) /\ Len(messages') = n + 1
        /\ \A i \in 1..n : messages'[i] = messages[i]
        /\ messages'[n + 1] = stamped
    BY <1>1, <1>4, <2>1, <2>2, AppendProperties
  <2>4. ASSUME NEW i \in 1..(n + 1)
        PROVE  messages'[i] = pushed'[Len(pushed') - (n + 1) + i]
    <3>1. CASE i = n + 1
      BY <1>1, <1>2, <2>3, <3>1
    <3>2. CASE i < n + 1
      <4>0. i \in 1..n
        BY <1>1, <3>2
      <4>1. messages'[i] = pushed[Len(pushed) - n + i]
        BY <1>4, <2>1, <2>3, <4>0
      <4>2. Len(pushed) - n + i \in 1..Len(pushed)
        BY <1>1, <3>2
      <4>3. Len(pushed') - (n + 1) + i = Len(pushed) - n + i
        BY <1>1, <1>2
      <4>4. QED
        BY <1>2, <4>1, <4>2, <4>3
    <3>3. QED
      BY <1>1, <3>1, <3>2
  <2>5. Len(pushed') - cleared' = n + 1 /\ n + 1 <= maxSize
    BY <1>1, <1>2, <1>3, <2>1
  <2>6. Retained'
    BY <1>1, <2>3, <2>4, <2>5 DEF Retained
  <2>7. QED
    BY <1>1, <1>2, <1>3, <2>3, <2>6 DEF IInv
<1>7. QED
  BY <1>1, <1>5, <1>6

LEMMA InitIInv == Init => IInv
<1> SUFFICES ASSUME Init PROVE IInv
  OBVIOUS
<1>1. Len(pushed) = 0 /\ Len(messages) = 0 /\ maxSize \in Nat \ {0}
  BY QueueAssumption DEF Init
<1>2. messages \in Seq(IncomingMessage) /\ pushed \in Seq(IncomingMessage)
  BY EmptySeq DEF Init
<1>3. stamped \in IncomingMessage /\ now \in Nat /\ cleared = 0
  BY DEF Init, NoMessage, IncomingMessage
<1>4. Retained
  BY <1>1, <1>3 DEF Retained
<1>5. QED
  BY <1>1, <1>2, <1>3, <1>4 DEF IInv

LEMMA NextIInv == IInv /\ [Next]_vars => IInv'
<1> SUFFICES ASSUME IInv, [Next]_vars PROVE IInv'
  OBVIOUS
<1>1. CASE Tick
  <2>1. now' \in Nat
    BY <1>1 DEF Tick, IInv
  <2>2. QED
    BY <1>1, <2>1 DEF Tick, queueVars, IInv, Retained
<1>2. CASE Stamp
  <2>1. Len(pushed) \in Nat /\ now \div TicksPerSecond \in Nat
    BY LenProperties, QueueAssumption DEF IInv
  <2>2. stamped' \in IncomingMessage
    BY <1>2, <2>1 DEF Stamp, IncomingMessage
  <2>3. QED
    BY <1>2, <2>2 DEF Stamp, queueVars, IInv, Retained
<1>3. CASE Push
  BY <1>3, PushStep
<1>4. CASE Clear
  <2>1. Len(pushed) \in Nat /\ maxSize \in Nat \ {0}
    BY LenProperties, QueueAssumption DEF IInv
  <2>2. messages' = <<>> /\ Len(messages') = 0 /\ cleared' = Len(pushed')
        /\ UNCHANGED <<pushed, stamped, now>>
    BY <1>4 DEF Clear
  <2>3. Retained'
    BY <2>1, <2>2 DEF Retained
  <2>4. QED
    BY <2>1, <2>2, <2>3, EmptySeq DEF IInv
<1>5. CASE \E c \in Clients : HandleGetMessages(c)
  BY <1>5 DEF HandleGetMessages, queueVars, IInv, Retained
<1>6. CASE UNCHANGED vars
  BY <1>6 DEF vars, queueVars, IInv, Retained
<1>7. QED
  BY <1>1, <1>2, <1>3, <1>4, <1>5, <1>6 DEF Next

\* The queue holds exactly the newest messages since the last DELETE, in
\* order, in every state.
THEOREM Invariance == Spec => []IInv
<1> QED
  BY InitIInv, NextIInv, PTL DEF Spec

\* It never holds more than maxSize of them.
THEOREM QueueRetainsNewest == Spec => [](Retained /\ Len(messages) <= maxSize)
<1>1. ASSUME IInv PROVE Retained /\ Len(messages) <= maxSize
  <2>1. Len(pushed) \in Nat /\ maxSize \in Nat /\ cleared \in 0..Len(pushed)
    BY <1>1, LenProperties, QueueAssumption DEF IInv
  <2>2. Len(messages) = IF Len(pushed) - cleared < maxSize
                        THEN Len(pushed) - cleared ELSE maxSize
    BY <1>1 DEF IInv, Retained
  <2>3. Len(messages) <= maxSize
    BY <2>1, <2>2
  <2>4. QED
    BY <1>1, <2>3 DEF IInv
<1>2. QED
  BY <1>1, Invariance, PTL

-----------------------------------------------------------------------------
(* The loop of List.                                                       *)

\* A nonempty set of numbers has a least element.
LEMMA LeastOf ==
  ASSUME NEW B \in SUBSET Nat, B # {}
  PROVE  \E k \in B : \A j \in B : k <= j
<1>1. PICK k \in B : \A j \in B : ~ (<<j, k>> \in OpToRel(<, Nat))
  BY NatLessThanWellFounded, WFMin
<1>2. ASSUME NEW j \in B, j < k PROVE FALSE
  <2>1. <<j, k>> \in Nat \X Nat
    OBVIOUS
  <2>2. <<j, k>> \in OpToRel(<, Nat)
    BY <1>2, <2>1 DEF OpToRel
  <2> QED BY <1>1, <2>2
<1> QED BY <1>2

\* The body of Kept's function: f is that function when it is its own body.
Loop(s, S, n, f) ==
  [i \in 0 .. n |-> IF i = 0 THEN <<>>
                    ELSE IF i \in S THEN Append(f[i-1], s[i]) ELSE f[i-1]]

\* Such a function exists for every number of rounds.
LEMMA LoopExists ==
  ASSUME NEW s, NEW S, NEW n \in Nat
  PROVE  \E f : f = Loop(s, S, n, f)
<1> DEFINE B == {k \in Nat : ~ \E f : f = Loop(s, S, k, f)}
<1>1. SUFFICES ASSUME B # {} PROVE FALSE
  OBVIOUS
<1>2. PICK k \in B : \A j \in B : k <= j
  BY <1>1, LeastOf
<1>3. CASE k = 0
  <2>1. [i \in 0..0 |-> <<>>] = Loop(s, S, k, [i \in 0..0 |-> <<>>])
    BY <1>3 DEF Loop
  <2>2. QED BY <1>2, <2>1
<1>4. CASE k > 0
  <2>1. k - 1 \in Nat /\ k - 1 \notin B
    BY <1>2, <1>4
  <2>2. PICK f : f = Loop(s, S, k-1, f)
    BY <2>1
  <2> DEFINE g == [i \in 0..k |-> IF i < k THEN f[i]
                                  ELSE IF k \in S THEN Append(f[k-1], s[k])
                                  ELSE f[k-1]]
  <2>3. g = Loop(s, S, k, g)
    <3>1. ASSUME NEW i \in 0..k PROVE g[i] = Loop(s, S, k, g)[i]
      <4>1. CASE i = k
        <5>1. k # 0 /\ k-1 \in 0..k /\ g[k-1] = f[k-1]
          BY <1>4
        <5> QED BY <4>1, <5>1 DEF Loop
      <4>2. CASE i # k
        <5>1. i \in 0..(k-1) /\ g[i] = f[i]
          BY <4>2
        <5>2. f[i] = IF i = 0 THEN <<>>
                     ELSE IF i \in S THEN Append(f[i-1], s[i]) ELSE f[i-1]
          BY <2>2, <5>1 DEF Loop
        <5>3. i # 0 => i-1 \in 0..k /\ g[i-1] = f[i-1]
          BY <5>1
        <5> HIDE DEF g
        <5> QED BY <5>1, <5>2, <5>3 DEF Loop
      <4> QED BY <4>1, <4>2
    <3>2. Loop(s, S, k, g) = [i \in 0..k |-> Loop(s, S, k, g)[i]]
      BY DEF Loop
    <3>3. g = [i \in 0..k |-> g[i]]
      OBVIOUS
    <3> QED BY <3>1, <3>2, <3>3
  <2>4. QED BY <1>2, <2>3
<1>5. QED BY <1>2, <1>3, <1>4

\* Kept is what it returns, round by round.
LEMMA KeptIs ==
  ASSUME NEW s, NEW S, Len(s) \in Nat
  PROVE  \E f : /\ Kept(s, S) = f[Len(s)] /\ f[0] = <<>>
                /\ \A i \in 1 .. Len(s) :
                     f[i] = IF i \in S THEN Append(f[i-1], s[i]) ELSE f[i-1]
<1> DEFINE g == CHOOSE f : f = Loop(s, S, Len(s), f)
<1>1. g = Loop(s, S, Len(s), g)
  BY LoopExists
<1>2. Kept(s, S) = g[Len(s)]
  BY DEF Kept, Loop
<1> HIDE DEF g
<1>3. ASSUME NEW i \in 0 .. Len(s)
      PROVE  g[i] = IF i = 0 THEN <<>>
                    ELSE IF i \in S THEN Append(g[i-1], s[i]) ELSE g[i-1]
  <2>1. g[i] = Loop(s, S, Len(s), g)[i]
    BY <1>1
  <2>2. Loop(s, S, Len(s), g)[i] =
          IF i = 0 THEN <<>>
          ELSE IF i \in S THEN Append(g[i-1], s[i]) ELSE g[i-1]
    BY DEF Loop
  <2> QED BY <2>1, <2>2
<1>4. 0 \in 0 .. Len(s) /\ \A i \in 1 .. Len(s) : i \in 0 .. Len(s) /\ i # 0
  OBVIOUS
<1> QED BY <1>2, <1>3, <1>4

\* a lists the elements of s at the indices of S up to n, in their order.
Selects(a, s, S, n) ==
  \E p \in [DOMAIN a -> 1 .. n] :
    /\ \A i \in DOMAIN a : p[i] \in S /\ a[i] = s[p[i]]
    /\ \A i, j \in DOMAIN a : i < j => p[i] < p[j]
    /\ \A k \in S \cap (1 .. n) : \E i \in DOMAIN a : p[i] = k

\* No round.
LEMMA SelectsNone == ASSUME NEW s, NEW S PROVE Selects(<<>>, s, S, 0)
<1>1. DOMAIN <<>> = {} /\ 1 .. 0 = {}
  OBVIOUS
<1>2. [i \in DOMAIN <<>> |-> 0] \in [DOMAIN <<>> -> 1 .. 0]
  BY <1>1
<1> QED BY <1>1, <1>2 DEF Selects

\* One round of the loop that keeps its element, and one that does not.
LEMMA SelectsNext ==
  ASSUME NEW X, NEW a \in Seq(X), NEW s, NEW S, NEW n \in Nat,
         n > 0, n \in S, s[n] \in X, Selects(a, s, S, n - 1)
  PROVE  Selects(Append(a, s[n]), s, S, n)
<1>1. PICK p \in [DOMAIN a -> 1 .. (n-1)] :
        /\ \A i \in DOMAIN a : p[i] \in S /\ a[i] = s[p[i]]
        /\ \A i, j \in DOMAIN a : i < j => p[i] < p[j]
        /\ \A k \in S \cap (1 .. (n-1)) : \E i \in DOMAIN a : p[i] = k
  BY DEF Selects
<1> DEFINE b == Append(a, s[n])  m == Len(a)
           q == [i \in DOMAIN b |-> IF i = m + 1 THEN n ELSE p[i]]
<1>2. /\ m \in Nat /\ DOMAIN a = 1 .. m /\ DOMAIN b = 1 .. (m + 1)
      /\ b[m + 1] = s[n] /\ \A i \in 1 .. m : b[i] = a[i]
  BY AppendProperties
<1>3. /\ q[m + 1] = n
      /\ \A i \in 1 .. m : q[i] = p[i] /\ p[i] \in 1 .. (n-1)
  BY <1>1, <1>2
<1> HIDE DEF b
<1>4. q \in [DOMAIN b -> 1 .. n]
  <2>1. ASSUME NEW i \in DOMAIN b
        PROVE  (IF i = m + 1 THEN n ELSE p[i]) \in 1 .. n
    BY <1>2, <1>3
  <2> QED BY <2>1
<1> HIDE DEF q, m
<1>5. \A i \in DOMAIN b : q[i] \in S /\ b[i] = s[q[i]]
  BY <1>1, <1>2, <1>3
<1>6. ASSUME NEW i \in DOMAIN b, NEW j \in DOMAIN b, i < j
      PROVE  q[i] < q[j]
  <2>1. i \in 1 .. m /\ i \in DOMAIN a /\ (j \in 1 .. m \/ j = m + 1)
    BY <1>2, <1>6
  <2>2. q[i] = p[i] /\ p[i] \in 1 .. (n-1)
    BY <1>3, <2>1
  <2>3. CASE j = m + 1
    BY <1>3, <2>2, <2>3
  <2>4. CASE j \in 1 .. m
    <3>1. q[j] = p[j] /\ j \in DOMAIN a
      BY <1>2, <1>3, <2>4
    <3> QED BY <1>1, <1>6, <2>1, <2>2, <3>1
  <2> QED BY <2>1, <2>3, <2>4
<1>7. ASSUME NEW k \in S \cap (1 .. n) PROVE \E i \in DOMAIN b : q[i] = k
  <2>1. CASE k = n
    <3>1. m + 1 \in DOMAIN b
      BY <1>2
    <3> QED BY <1>3, <2>1, <3>1
  <2>2. CASE k # n
    <3>1. PICK i \in DOMAIN a : p[i] = k
      BY <1>1, <2>2
    <3>2. i \in 1 .. m /\ i \in DOMAIN b
      BY <1>2
    <3> QED BY <1>3, <3>1, <3>2
  <2> QED BY <2>1, <2>2
<1>8. Selects(b, s, S, n)
  BY <1>4, <1>5, <1>6, <1>7 DEF Selects
<1> QED BY <1>8 DEF b

LEMMA SelectsSkip ==
  ASSUME NEW a, NEW s, NEW S, NEW n \in Nat, n > 0, n \notin S,
         Selects(a, s, S, n - 1)
  PROVE  Selects(a, s, S, n)
<1>1. PICK p \in [DOMAIN a -> 1 .. (n-1)] :
        /\ \A i \in DOMAIN a : p[i] \in S /\ a[i] = s[p[i]]
        /\ \A i, j \in DOMAIN a : i < j => p[i] < p[j]
        /\ \A k \in S \cap (1 .. (n-1)) : \E i \in DOMAIN a : p[i] = k
  BY DEF Selects
<1>2. p \in [DOMAIN a -> 1 .. n] /\ S \cap (1 .. n) = S \cap (1 .. (n-1))
  OBVIOUS
<1> QED BY <1>1, <1>2 DEF Selects

\* What the loop leaves: the elements of s whose index is in S, in order.
LEMMA KeptSelects ==
  ASSUME NEW X, NEW s \in Seq(X), NEW S
  PROVE  Kept(s, S) \in Seq(X) /\ Selects(Kept(s, S), s, S, Len(s))
<1>0. Len(s) \in Nat
  BY LenProperties
<1>1. PICK f : /\ Kept(s, S) = f[Len(s)] /\ f[0] = <<>>
               /\ \A i \in 1 .. Len(s) :
                    f[i] = IF i \in S THEN Append(f[i-1], s[i]) ELSE f[i-1]
  BY <1>0, KeptIs
<1> DEFINE Good(n) == f[n] \in Seq(X) /\ Selects(f[n], s, S, n)
           B == {n \in 0 .. Len(s) : ~Good(n)}
<1>3. SUFFICES ASSUME B # {} PROVE FALSE
  BY <1>0, <1>1
<1>2. B \in SUBSET Nat
  BY <1>0
<1>4. PICK k \in B : \A j \in B : k <= j
  BY <1>3, <1>2, LeastOf
<1>5. CASE k = 0
  <2>1. Good(0)
    BY <1>1, EmptySeq, SelectsNone
  <2> QED BY <1>4, <1>5, <2>1
<1>6. CASE k > 0
  <2>1. k - 1 \in 0 .. Len(s) /\ k \in 1 .. Len(s) /\ k \in Nat /\ ~(k - 1 >= k)
    BY <1>0, <1>4, <1>6
  <2>2. Good(k - 1)
    BY <1>4, <2>1
  <2>3. s[k] \in X
    BY <2>1, ElementOfSeq
  <2>4. CASE k \in S
    <3>1. f[k] = Append(f[k-1], s[k])
      BY <1>1, <2>1, <2>4
    <3>2. Selects(f[k], s, S, k)
      BY <1>6, <2>1, <2>2, <2>3, <2>4, <3>1, SelectsNext
    <3>3. f[k] \in Seq(X)
      BY <2>2, <2>3, <3>1
    <3> QED BY <1>4, <3>2, <3>3
  <2>5. CASE k \notin S
    <3>1. f[k] = f[k-1]
      BY <1>1, <2>1, <2>5
    <3>2. Selects(f[k], s, S, k)
      BY <1>6, <2>1, <2>2, <2>5, <3>1, SelectsSkip
    <3> QED BY <1>4, <2>2, <3>1, <3>2
  <2> QED BY <2>4, <2>5
<1> QED BY <1>0, <1>4, <1>5, <1>6

-----------------------------------------------------------------------------
(* What the incremental clients are given.                                 *)

Clock == now \div TicksPerSecond

\* The pipeline pushes in the order of the ids and of the clock.
PushedByClock ==
  /\ \A i \in DOMAIN pushed : pushed[i].id = i /\ pushed[i].timestamp <= Clock
  /\ \A i, j \in DOMAIN pushed :
       i < j => pushed[i].timestamp <= pushed[j].timestamp
  /\ stamped # NoMessage =>
       /\ stamped.id = Len(pushed) + 1 /\ stamped.timestamp <= Clock
       /\ \A i \in DOMAIN pushed : pushed[i].timestamp <= stamped.timestamp

\* What a client was given is older than its last GET and in order, and the
\* parameter of its next one is the time of the last of it.
Follows(c) ==
  /\ received[c] \in Seq(Nat) /\ pulled[c] \in 0 .. Len(pushed)
  /\ \A i \in DOMAIN received[c] : received[c][i] \in 1 .. pulled[c]
  /\ \A i, j \in DOMAIN received[c] : i < j => received[c][i] < received[c][j]
  /\ since[c] = IF received[c] = <<>> THEN NoSince
                ELSE pushed[Last(received[c])].timestamp

\* UnseenCameLater for one client.
MissesOnlyLater(c) ==
  \A i \in DOMAIN messages :
    \/ Contains(received[c], messages[i].id)
    \/ messages[i].id > pulled[c]
    \/ \E j \in DOMAIN received[c] :
         pushed[received[c][j]].timestamp = messages[i].timestamp

ClientInv ==
  /\ DOMAIN received = Clients /\ DOMAIN since = Clients
  /\ DOMAIN pulled = Clients
  /\ \A c \in Clients : Follows(c) /\ MissesOnlyLater(c)

Pulling == IInv /\ PushedByClock /\ ClientInv

\* The clock shows no earlier second after a tick.
LEMMA SecondsPass ==
  ASSUME NEW a \in Nat, NEW b \in Nat, a <= b
  PROVE  a \div TicksPerSecond <= b \div TicksPerSecond
<1> DEFINE T == TicksPerSecond  q == a \div T  r == b \div T
<1>1. T \in Nat /\ T > 0
  BY QueueAssumption
<1>2. q \in Nat /\ r \in Nat /\ T * q <= a /\ b < T * r + T
  BY <1>1, SMTT(30)
<1> HIDE DEF T, q, r
<1>3. ASSUME r < q PROVE FALSE
  <2>1. PICK d \in Nat : q = r + 1 + d
    <3>1. q - r - 1 \in Nat /\ q = r + 1 + (q - r - 1)
      BY <1>2, <1>3
    <3> QED BY <3>1
  <2>2. T * q = T * r + T + T * d /\ T * d \in Nat /\ T * r \in Nat
    BY <1>1, <1>2, <2>1
  <2> QED BY <1>1, <1>2, <2>2
<1> QED BY <1>2, <1>3 DEF q, r, T

\* The message at a place of the queue is the one with its number.
LEMMA QueuedArePushed ==
  ASSUME IInv, PushedByClock, NEW i \in DOMAIN messages
  PROVE  /\ messages[i].id \in DOMAIN pushed
         /\ messages[i] = pushed[messages[i].id]
         /\ messages[i] \in IncomingMessage
         /\ \A j \in DOMAIN messages : i < j => messages[i].id < messages[j].id
<1> DEFINE d == Len(pushed) - Len(messages)
<1>1. /\ messages \in Seq(IncomingMessage) /\ pushed \in Seq(IncomingMessage)
      /\ Len(messages) \in Nat /\ Len(pushed) \in Nat
      /\ DOMAIN messages = 1 .. Len(messages) /\ DOMAIN pushed = 1 .. Len(pushed)
      /\ cleared \in 0 .. Len(pushed) /\ maxSize \in Nat
  BY LenProperties, QueueAssumption DEF IInv
<1>2. d \in Nat
  <2>1. Len(messages) = IF Len(pushed) - cleared < maxSize
                        THEN Len(pushed) - cleared ELSE maxSize
    BY DEF IInv, Retained
  <2>2. /\ Len(messages) \in Nat /\ Len(pushed) \in Nat /\ maxSize \in Nat
        /\ cleared \in Nat /\ cleared <= Len(pushed)
    BY <1>1
  <2>3. Len(messages) <= Len(pushed)
    BY <2>1, <2>2
  <2> QED BY <2>2, <2>3
<1>3. ASSUME NEW j \in DOMAIN messages
      PROVE  d + j \in DOMAIN pushed /\ messages[j] = pushed[d + j]
             /\ messages[j].id = d + j
  <2>1. d + j \in DOMAIN pushed
    BY <1>1, <1>2
  <2>2. messages[j] = pushed[d + j]
    BY <1>1 DEF IInv, Retained
  <2> QED BY <2>1, <2>2 DEF PushedByClock
<1> HIDE DEF d
<1>4. messages[i] \in IncomingMessage
  BY <1>1, ElementOfSeq
<1> QED BY <1>1, <1>2, <1>3, <1>4

\* What GET answers: newer messages of the queue, all of them, in order.
LEMMA Answer ==
  ASSUME IInv, PushedByClock, NEW t \in Nat \cup {NoSince}
  PROVE  LET answer == List(t)
         IN  /\ answer \in Seq(IncomingMessage)
             /\ \A i \in DOMAIN answer : \E k \in DOMAIN messages :
                  answer[i] = messages[k] /\ messages[k].timestamp > t
             /\ \A i, j \in DOMAIN answer : i < j => answer[i].id < answer[j].id
             /\ \A k \in DOMAIN messages : messages[k].timestamp > t =>
                  \E i \in DOMAIN answer : answer[i] = messages[k]
<1>1. /\ messages \in Seq(IncomingMessage) /\ Len(messages) \in Nat
      /\ DOMAIN messages = 1 .. Len(messages)
  BY LenProperties DEF IInv
<1>2. CASE t = NoSince
  <2>1. List(t) = messages
    BY <1>2 DEF List
  <2>2. \A k \in DOMAIN messages : messages[k].timestamp > t
    BY <1>2, QueuedArePushed DEF IncomingMessage, NoSince
  <2> QED BY <1>1, <2>1, <2>2, QueuedArePushed
<1>3. CASE t # NoSince
  <2> DEFINE S == {i \in DOMAIN messages : messages[i].timestamp > t}
             answer == Kept(messages, S)
  <2>1. List(t) = answer
    BY <1>3 DEF List
  <2>2. /\ answer \in Seq(IncomingMessage)
        /\ Selects(answer, messages, S, Len(messages))
    BY <1>1, KeptSelects
  <2> HIDE DEF answer
  <2>3. PICK p \in [DOMAIN answer -> 1 .. Len(messages)] :
          /\ \A i \in DOMAIN answer : p[i] \in S /\ answer[i] = messages[p[i]]
          /\ \A i, j \in DOMAIN answer : i < j => p[i] < p[j]
          /\ \A k \in S \cap (1 .. Len(messages)) : \E i \in DOMAIN answer : p[i] = k
    BY <2>2 DEF Selects
  <2>4. \A i \in DOMAIN answer : \E k \in DOMAIN messages :
           answer[i] = messages[k] /\ messages[k].timestamp > t
    BY <2>3
  <2>5. \A i, j \in DOMAIN answer : i < j => answer[i].id < answer[j].id
    BY <1>1, <2>3, QueuedArePushed
  <2>6. \A k \in DOMAIN messages : messages[k].timestamp > t =>
           \E i \in DOMAIN answer : answer[i] = messages[k]
    BY <1>1, <2>3
  <2> QED BY <2>1, <2>2, <2>4, <2>5, <2>6
<1> QED BY <1>2, <1>3

\* Every step keeps the order of the ids and of the time stamps.
LEMMA PushedByClockNext ==
  ASSUME IInv, PushedByClock, [Next]_vars
  PROVE  PushedByClock'
<1>1. /\ pushed \in Seq(IncomingMessage) /\ Len(pushed) \in Nat
      /\ DOMAIN pushed = 1 .. Len(pushed) /\ stamped \in IncomingMessage
      /\ now \in Nat
  BY LenProperties DEF IInv
<1>2. /\ \A i \in DOMAIN pushed : pushed[i].timestamp \in Nat
      /\ stamped.timestamp \in Nat /\ Clock \in Nat
  <2>1. \A i \in DOMAIN pushed : pushed[i] \in IncomingMessage
    BY <1>1, ElementOfSeq
  <2>2. Clock \in Nat
    BY <1>1, QueueAssumption DEF Clock
  <2> QED BY <1>1, <2>1, <2>2 DEF IncomingMessage
<1>3. CASE Tick
  <2>1. Clock <= Clock' /\ Clock' \in Nat
    <3>1. now' = now + 1 /\ now' \in Nat /\ now <= now'
      BY <1>1, <1>3 DEF Tick
    <3>2. Clock <= Clock'
      BY <1>1, <3>1, SecondsPass DEF Clock
    <3>3. Clock' \in Nat
      BY <3>1, QueueAssumption DEF Clock
    <3> QED BY <3>2, <3>3
  <2>2. UNCHANGED <<pushed, stamped>>
    BY <1>3 DEF Tick, queueVars
  <2>3. /\ \A i \in DOMAIN pushed : pushed[i].timestamp <= Clock'
        /\ stamped # NoMessage => stamped.timestamp <= Clock'
    BY <1>2, <2>1 DEF PushedByClock
  <2> QED BY <2>2, <2>3 DEF PushedByClock
<1>4. CASE Stamp
  <2>1. /\ stamped' = [id |-> Len(pushed) + 1, timestamp |-> Clock]
        /\ pushed' = pushed /\ Clock' = Clock
    BY <1>4 DEF Stamp, queueVars, Clock
  <2>2. stamped'.id = Len(pushed) + 1 /\ stamped'.timestamp = Clock
    BY <2>1
  <2> QED BY <1>2, <2>1, <2>2 DEF PushedByClock
<1>5. CASE Push
  <2>1. /\ stamped # NoMessage /\ stamped' = NoMessage /\ Clock' = Clock
        /\ pushed' = Append(pushed, stamped)
    BY <1>5 DEF Push, Clock
  <2>2. /\ DOMAIN pushed' = 1 .. (Len(pushed) + 1)
        /\ \A i \in DOMAIN pushed : pushed'[i] = pushed[i]
        /\ pushed'[Len(pushed) + 1] = stamped
    BY <1>1, <2>1, AppendProperties
  <2>3. /\ stamped.id = Len(pushed) + 1 /\ stamped.timestamp <= Clock
        /\ \A i \in DOMAIN pushed : pushed[i].timestamp <= stamped.timestamp
    BY <2>1 DEF PushedByClock
  <2>4. \A i \in DOMAIN pushed' :
          pushed'[i].id = i /\ pushed'[i].timestamp <= Clock'
    BY <1>1, <2>1, <2>2, <2>3 DEF PushedByClock
  <2>5. ASSUME NEW i \in DOMAIN pushed', NEW j \in DOMAIN pushed', i < j
        PROVE  pushed'[i].timestamp <= pushed'[j].timestamp
    <3>1. i \in DOMAIN pushed /\ (j \in DOMAIN pushed \/ j = Len(pushed) + 1)
      BY <1>1, <2>2, <2>5
    <3> QED BY <2>2, <2>3, <2>5, <3>1 DEF PushedByClock
  <2> QED BY <2>1, <2>4, <2>5 DEF PushedByClock
<1>6. CASE UNCHANGED <<pushed, stamped, now>>
  BY <1>6 DEF PushedByClock, Clock
<1> QED
  BY <1>3, <1>4, <1>5, <1>6
     DEF Next, vars, Clear, HandleGetMessages, queueVars

\* A client that does not pull keeps what it has; Push brings a message that
\* is newer than its last GET, and nothing returns to the queue.
LEMMA OthersKeep ==
  ASSUME IInv, PushedByClock, [Next]_vars, NEW c \in Clients,
         Follows(c), MissesOnlyLater(c),
         received'[c] = received[c], since'[c] = since[c], pulled'[c] = pulled[c]
  PROVE  Follows(c)' /\ MissesOnlyLater(c)'
<1>1. /\ pushed \in Seq(IncomingMessage) /\ Len(pushed) \in Nat
      /\ DOMAIN pushed = 1 .. Len(pushed) /\ stamped \in IncomingMessage
      /\ messages \in Seq(IncomingMessage) /\ Len(messages) \in Nat
      /\ DOMAIN messages = 1 .. Len(messages) /\ pulled[c] \in Nat
      /\ pulled[c] <= Len(pushed)
  BY LenProperties DEF IInv, Follows
<1>2. \A i \in DOMAIN received[c] : received[c][i] \in DOMAIN pushed
  BY <1>1 DEF Follows
<1>3. received[c] # <<>> => Last(received[c]) \in DOMAIN pushed
  <2>1. received[c] # <<>> => Len(received[c]) \in DOMAIN received[c]
    BY LenProperties, EmptySeq DEF Follows
  <2> QED BY <1>2, <2>1 DEF Last
<1>4. CASE Push
  <2>1. /\ Len(pushed') = Len(pushed) + 1
        /\ \A i \in DOMAIN pushed : pushed'[i] = pushed[i]
        /\ stamped.id = Len(pushed) + 1
    BY <1>1, <1>4, AppendProperties DEF Push, PushedByClock
  <2>2. Follows(c)'
    <3>1. (pulled[c] \in 0 .. Len(pushed))'
      BY <1>1, <2>1
    <3> QED BY <1>3, <2>1, <3>1 DEF Follows
  <2>3. ASSUME NEW i \in DOMAIN messages'
        PROVE  messages'[i] = stamped
               \/ \E k \in DOMAIN messages : messages'[i] = messages[k]
    <3>1. CASE Len(messages) >= maxSize
      <4>1. messages # <<>> /\ messages' = Append(Tail(messages), stamped)
        BY <1>1, <1>4, <3>1, QueueAssumption DEF Push, Pushed
      <4>2. /\ Tail(messages) \in Seq(IncomingMessage)
            /\ Len(Tail(messages)) = Len(messages) - 1
            /\ \A k \in 1 .. (Len(messages) - 1) : Tail(messages)[k] = messages[k+1]
        BY <1>1, <4>1, HeadTailProperties
      <4>3. i = Len(messages) \/ i \in 1 .. (Len(messages) - 1)
        BY <1>1, <4>1, <4>2, AppendProperties
      <4>4. CASE i = Len(messages)
        BY <1>1, <4>1, <4>2, <4>4, AppendProperties
      <4>5. CASE i \in 1 .. (Len(messages) - 1)
        <5>1. messages'[i] = Tail(messages)[i]
          BY <1>1, <4>1, <4>2, <4>5, AppendProperties
        <5>2. i + 1 \in DOMAIN messages /\ messages'[i] = messages[i+1]
          BY <1>1, <4>2, <4>5, <5>1
        <5> QED BY <5>2
      <4> QED BY <4>3, <4>4, <4>5
    <3>2. CASE ~(Len(messages) >= maxSize)
      <4>1. messages' = Append(messages, stamped)
        BY <1>4, <3>2 DEF Push, Pushed
      <4> QED BY <1>1, <4>1, AppendProperties
    <3> QED BY <3>1, <3>2
  <2>4. MissesOnlyLater(c)'
    <3>1. ASSUME NEW i \in DOMAIN messages'
          PROVE  \/ Contains(received[c], messages'[i].id)
                 \/ messages'[i].id > pulled[c]
                 \/ \E j \in DOMAIN received[c] :
                      pushed'[received[c][j]].timestamp = messages'[i].timestamp
      <4>1. CASE messages'[i] = stamped
        BY <1>1, <2>1, <4>1
      <4>2. ASSUME NEW k \in DOMAIN messages, messages'[i] = messages[k]
            PROVE  <3>1!2
        BY <1>2, <2>1, <4>2 DEF MissesOnlyLater
      <4> QED BY <2>3, <4>1, <4>2
    <3> QED BY <3>1 DEF MissesOnlyLater
  <2> QED BY <2>2, <2>4
<1>5. CASE Clear
  <2>1. pushed' = pushed /\ DOMAIN messages' = {}
    BY <1>5 DEF Clear
  <2> QED BY <2>1 DEF Follows, MissesOnlyLater
<1>6. CASE UNCHANGED <<pushed, messages>>
  BY <1>6 DEF Follows, MissesOnlyLater
<1> QED
  BY <1>4, <1>5, <1>6 DEF Next, vars, Tick, Stamp, HandleGetMessages, queueVars

\* A GET appends what is newer than all the client has, and misses nothing else.
LEMMA PullStep ==
  ASSUME Pulling, NEW c \in Clients, HandleGetMessages(c)
  PROVE  Follows(c)' /\ MissesOnlyLater(c)'
<1> USE DEF Pulling
<1> DEFINE answer == List(since[c])
           old == received[c]
           ids == [i \in DOMAIN answer |-> answer[i].id]
           new == old \o ids
<1>1. /\ messages' = messages /\ pushed' = pushed
      /\ received'[c] = new /\ pulled'[c] = Len(pushed)
      /\ since'[c] = IF answer = <<>> THEN since[c]
                     ELSE answer[Len(answer)].timestamp
  BY DEF HandleGetMessages, queueVars, ClientInv
<1>2. /\ old \in Seq(Nat) /\ Len(old) \in Nat /\ DOMAIN old = 1 .. Len(old)
      /\ pushed \in Seq(IncomingMessage) /\ Len(pushed) \in Nat
      /\ DOMAIN pushed = 1 .. Len(pushed)
      /\ pulled[c] \in Nat /\ pulled[c] <= Len(pushed)
      /\ Follows(c) /\ MissesOnlyLater(c)
  BY LenProperties DEF ClientInv, Follows, IInv
<1>3. \A n \in DOMAIN pushed : pushed[n].timestamp \in Nat /\ pushed[n].id \in Nat
  <2>1. \A n \in DOMAIN pushed : pushed[n] \in IncomingMessage
    BY <1>2, ElementOfSeq
  <2> QED BY <2>1 DEF IncomingMessage
\* The parameter is the time of the last of the old ones.
<1>4. /\ \A i \in DOMAIN old :
           /\ old[i] \in DOMAIN pushed /\ old[i] <= pulled[c]
           /\ pushed[old[i]].timestamp <= since[c]
      /\ since[c] \in Nat \cup {NoSince}
      /\ since[c] # NoSince => old # <<>> /\ Len(old) \in DOMAIN old
                               /\ since[c] = pushed[old[Len(old)]].timestamp
  <2>1. \A i \in DOMAIN old : old[i] \in DOMAIN pushed /\ old[i] <= pulled[c]
    BY <1>2 DEF Follows
  <2>2. CASE old = <<>>
    <3>1. since[c] = NoSince /\ DOMAIN old = {}
      BY <1>2, <2>2 DEF Follows
    <3> QED BY <2>1, <3>1
  <2>3. CASE old # <<>>
    <3>1. Len(old) \in DOMAIN old
      BY <1>2, <2>3, EmptySeq
    <3>2. since[c] = pushed[old[Len(old)]].timestamp
      BY <1>2, <2>3 DEF Follows, Last
    <3>3. ASSUME NEW i \in DOMAIN old
          PROVE  pushed[old[i]].timestamp <= since[c]
      <4>1. CASE i = Len(old)
        BY <1>3, <2>1, <3>1, <3>2, <4>1
      <4>2. CASE i # Len(old)
        <5>1. i < Len(old)
          BY <1>2, <4>2
        <5>2. old[i] < old[Len(old)]
          BY <1>2, <3>1, <5>1 DEF Follows
        <5> QED BY <2>1, <3>1, <3>2, <5>2 DEF PushedByClock
      <4> QED BY <4>1, <4>2
    <3>4. since[c] \in Nat
      BY <1>3, <2>1, <3>1, <3>2
    <3> QED BY <2>1, <2>3, <3>1, <3>2, <3>3, <3>4
  <2> QED BY <2>2, <2>3
<1>5. /\ answer \in Seq(IncomingMessage)
      /\ \A i \in DOMAIN answer : \E k \in DOMAIN messages :
           answer[i] = messages[k] /\ messages[k].timestamp > since[c]
      /\ \A i, j \in DOMAIN answer : i < j => answer[i].id < answer[j].id
      /\ \A k \in DOMAIN messages : messages[k].timestamp > since[c] =>
           \E i \in DOMAIN answer : answer[i] = messages[k]
  BY <1>4, Answer
<1> HIDE DEF answer
<1>6. \A i \in DOMAIN answer :
        /\ answer[i].id \in DOMAIN pushed /\ answer[i] = pushed[answer[i].id]
        /\ answer[i].timestamp > since[c]
  BY <1>5, QueuedArePushed
<1>7. /\ Len(answer) \in Nat /\ DOMAIN answer = 1 .. Len(answer)
      /\ ids \in Seq(Nat) /\ Len(ids) = Len(answer) /\ DOMAIN ids = DOMAIN answer
      /\ \A i \in DOMAIN answer : ids[i] = answer[i].id
  <2>1. Len(answer) \in Nat /\ DOMAIN answer = 1 .. Len(answer)
    BY <1>5, LenProperties
  <2>2. \A i \in 1 .. Len(answer) : answer[i].id \in Nat
    BY <1>2, <1>6, <2>1
  <2>3. ids \in Seq(Nat)
    BY <2>1, <2>2
  <2> QED BY <2>1, <2>3, LenProperties
<1> HIDE DEF ids
<1>8. /\ new \in Seq(Nat) /\ Len(new) = Len(old) + Len(ids)
      /\ DOMAIN new = 1 .. (Len(old) + Len(ids)) /\ DOMAIN new = 1 .. Len(new)
      /\ \A i \in DOMAIN old : new[i] = old[i]
      /\ \A i \in DOMAIN ids :
           Len(old) + i \in DOMAIN new /\ new[Len(old) + i] = ids[i]
  <2>1. /\ old \o ids \in Seq(Nat) /\ Len(old \o ids) = Len(old) + Len(ids)
        /\ \A i \in 1 .. (Len(old) + Len(ids)) : (old \o ids)[i] =
             IF i <= Len(old) THEN old[i] ELSE ids[i - Len(old)]
    <3>1. old \in Seq(Nat) /\ ids \in Seq(Nat)
      BY <1>2, <1>7
    <3> HIDE DEF old
    <3> QED BY <3>1, ConcatProperties
  <2>2. DOMAIN new = 1 .. (Len(old) + Len(ids))
    BY <2>1, LenProperties
  <2>3. \A i \in DOMAIN old : i \in 1 .. (Len(old) + Len(ids)) /\ i <= Len(old)
    BY <1>2, <1>7
  <2>4. \A i \in DOMAIN ids :
          /\ Len(old) + i \in 1 .. (Len(old) + Len(ids))
          /\ ~(Len(old) + i <= Len(old)) /\ (Len(old) + i) - Len(old) = i
    BY <1>2, <1>7
  <2> QED BY <2>1, <2>2, <2>3, <2>4
<1> HIDE DEF new, old
<1>9. \A n \in DOMAIN new :
        \/ n \in DOMAIN old /\ new[n] = old[n]
        \/ \E i \in DOMAIN ids : n = Len(old) + i /\ new[n] = ids[i]
  <2>1. ASSUME NEW n \in DOMAIN new, n \notin DOMAIN old
        PROVE  n - Len(old) \in DOMAIN ids /\ n = Len(old) + (n - Len(old))
    BY <1>2, <1>7, <1>8, <2>1
  <2> QED BY <1>8, <2>1
\* What is new is newer than everything old.
<1>10. \A i \in DOMAIN old, j \in DOMAIN ids : old[i] < ids[j]
  <2>1. SUFFICES ASSUME NEW i \in DOMAIN old, NEW j \in DOMAIN ids,
                        ids[j] <= old[i]
                 PROVE  FALSE
    BY <1>2, <1>4, <1>6, <1>7
  <2>2. ids[j] \in DOMAIN pushed /\ pushed[ids[j]].timestamp > since[c]
    BY <1>6, <1>7
  <2>3. old[i] \in DOMAIN pushed /\ pushed[old[i]].timestamp <= since[c]
    BY <1>4
  <2>4. pushed[ids[j]].timestamp <= pushed[old[i]].timestamp
    <3>1. ids[j] \in Nat /\ old[i] \in Nat /\ (ids[j] = old[i] \/ ids[j] < old[i])
      BY <1>2, <2>1, <2>2, <2>3
    <3> QED BY <1>3, <2>2, <2>3, <3>1 DEF PushedByClock
  <2>5. since[c] \in Int
    BY <1>4 DEF NoSince
  <2> QED BY <1>3, <2>2, <2>3, <2>4, <2>5
<1>11. \A i, j \in DOMAIN new : i < j => new[i] < new[j]
  <2>1. SUFFICES ASSUME NEW i \in DOMAIN new, NEW j \in DOMAIN new, i < j
                 PROVE  new[i] < new[j]
    OBVIOUS
  <2>2. CASE j \in DOMAIN old /\ new[j] = old[j]
    <3>1. i \in DOMAIN old /\ new[i] = old[i]
      BY <1>2, <1>8, <2>1, <2>2
    <3> QED BY <1>2, <2>1, <2>2, <3>1 DEF Follows, old
  <2>3. ASSUME NEW b \in DOMAIN ids, j = Len(old) + b, new[j] = ids[b]
        PROVE  new[i] < new[j]
    <3>1. CASE i \in DOMAIN old /\ new[i] = old[i]
      BY <1>10, <2>3, <3>1
    <3>2. ASSUME NEW a \in DOMAIN ids, i = Len(old) + a, new[i] = ids[a]
          PROVE  new[i] < new[j]
      <4>1. a < b
        BY <1>2, <1>7, <2>1, <2>3, <3>2
      <4>2. answer[a].id < answer[b].id
        BY <1>5, <1>7, <4>1
      <4> QED BY <1>7, <2>3, <3>2, <4>2
    <3> QED BY <1>9, <3>1, <3>2
  <2> QED BY <1>9, <2>2, <2>3
<1>12. \A i \in DOMAIN new : new[i] \in 1 .. Len(pushed)
  BY <1>2, <1>4, <1>6, <1>7, <1>9
<1>13. since'[c] = IF new = <<>> THEN NoSince ELSE pushed[Last(new)].timestamp
  <2>1. CASE answer = <<>>
    <3>1. Len(ids) = 0 /\ ids = <<>>
      BY <1>7, <2>1, EmptySeq
    <3>2. new = old
      BY <1>2, <3>1, ConcatEmptySeq DEF new
    <3> QED BY <1>1, <1>2, <2>1, <3>2 DEF Follows, old
  <2>2. CASE answer # <<>>
    <3>1. Len(answer) \in DOMAIN answer /\ Len(answer) \in DOMAIN ids
      BY <1>5, <1>7, <2>2, EmptySeq
    <3>2. Last(new) = answer[Len(answer)].id /\ new # <<>>
      <4>1. Len(new) = Len(old) + Len(answer) /\ Len(new) \in DOMAIN new
        BY <1>2, <1>7, <1>8, <3>1
      <4>2. new[Len(new)] = answer[Len(answer)].id
        BY <1>7, <1>8, <3>1, <4>1
      <4>3. new # <<>>
        BY <4>1
      <4> QED BY <4>2, <4>3 DEF Last
    <3> QED BY <1>1, <1>6, <2>2, <3>1, <3>2
  <2> QED BY <2>1, <2>2
<1>14. Follows(c)'
  <2>1. (pulled[c] \in 0 .. Len(pushed))'
    BY <1>1, <1>2
  <2> QED BY <1>1, <1>8, <1>11, <1>12, <1>13, <2>1 DEF Follows
\* Whatever is in the queue is new, or no newer than the parameter.
<1>15. ASSUME NEW k \in DOMAIN messages
       PROVE  \/ Contains(new, messages[k].id)
              \/ \E j \in DOMAIN new :
                   pushed[new[j]].timestamp = messages[k].timestamp
  <2>0. /\ messages[k].id \in DOMAIN pushed /\ messages[k] = pushed[messages[k].id]
        /\ messages[k].timestamp \in Nat
        /\ \A i \in DOMAIN old : i \in DOMAIN new /\ new[i] = old[i]
    BY <1>2, <1>7, <1>8, QueuedArePushed DEF IncomingMessage
  <2>1. CASE messages[k].timestamp > since[c]
    <3>1. PICK i \in DOMAIN ids : ids[i] = messages[k].id
      BY <1>5, <1>7, <2>1
    <3>2. Len(old) + i \in 1 .. Len(new) /\ new[Len(old) + i] = messages[k].id
      BY <1>8, <3>1
    <3> QED BY <3>2 DEF Contains
  <2>2. CASE ~(messages[k].timestamp > since[c])
    <3>0. since[c] # NoSince
      BY <2>0, <2>2 DEF NoSince
    <3>1. /\ Len(old) \in DOMAIN old /\ old[Len(old)] \in DOMAIN pushed
          /\ old[Len(old)] <= pulled[c]
          /\ since[c] = pushed[old[Len(old)]].timestamp
      BY <1>4, <3>0
    <3>2. CASE Contains(old, messages[k].id)
      <4>1. PICK i \in DOMAIN old : old[i] = messages[k].id
        BY <1>2, <3>2 DEF Contains
      <4>2. i \in 1 .. Len(new) /\ new[i] = messages[k].id
        BY <1>8, <2>0, <4>1
      <4> QED BY <4>2 DEF Contains
    <3>3. CASE messages[k].id > pulled[c]
      <4>1. pushed[old[Len(old)]].timestamp <= messages[k].timestamp
        <5>1. old[Len(old)] < messages[k].id
          BY <1>2, <2>0, <3>1, <3>3
        <5> QED BY <2>0, <3>1, <5>1 DEF PushedByClock
      <4>2. pushed[old[Len(old)]].timestamp = messages[k].timestamp
        BY <1>3, <2>0, <2>2, <3>1, <4>1
      <4> QED BY <2>0, <3>1, <4>2
    <3>4. CASE \E j \in DOMAIN old :
                 pushed[old[j]].timestamp = messages[k].timestamp
      BY <2>0, <3>4
    <3> QED BY <1>2, <3>2, <3>3, <3>4 DEF MissesOnlyLater, old
  <2> QED BY <2>1, <2>2
<1>16. MissesOnlyLater(c)'
  BY <1>1, <1>15 DEF MissesOnlyLater
<1> QED BY <1>14, <1>16

LEMMA PullingInit == Init => Pulling
<1> SUFFICES ASSUME Init PROVE Pulling
  OBVIOUS
<1>1. DOMAIN pushed = {} /\ DOMAIN messages = {} /\ Len(pushed) = 0
  BY DEF Init
<1>2. PushedByClock
  BY <1>1 DEF PushedByClock, Init
<1>3. ASSUME NEW c \in Clients PROVE Follows(c) /\ MissesOnlyLater(c)
  <2>1. /\ received[c] = <<>> /\ since[c] = NoSince /\ pulled[c] = 0
        /\ received[c] \in Seq(Nat) /\ DOMAIN received[c] = {}
    BY DEF Init
  <2> QED BY <1>1, <2>1 DEF Follows, MissesOnlyLater
<1>4. ClientInv
  BY <1>3 DEF ClientInv, Init
<1> QED BY <1>2, <1>4, InitIInv DEF Pulling

LEMMA PullingNext == Pulling /\ [Next]_vars => Pulling'
<1> SUFFICES ASSUME Pulling, [Next]_vars PROVE Pulling'
  OBVIOUS
<1>1. IInv' /\ PushedByClock'
  BY NextIInv, PushedByClockNext DEF Pulling
<1>2. CASE \E c \in Clients : HandleGetMessages(c)
  <2>1. PICK c \in Clients : HandleGetMessages(c)
    BY <1>2
  <2>2. /\ DOMAIN received' = Clients /\ DOMAIN since' = Clients
        /\ DOMAIN pulled' = Clients
        /\ \A d \in Clients \ {c} : /\ received'[d] = received[d]
                                    /\ since'[d] = since[d]
                                    /\ pulled'[d] = pulled[d]
    BY <2>1 DEF Pulling, ClientInv, HandleGetMessages
  <2>3. \A d \in Clients \ {c} : Follows(d)' /\ MissesOnlyLater(d)'
    BY <2>2, OthersKeep DEF Pulling, ClientInv
  <2>4. Follows(c)' /\ MissesOnlyLater(c)'
    BY <2>1, PullStep
  <2> QED BY <1>1, <2>2, <2>3, <2>4 DEF Pulling, ClientInv
<1>3. CASE UNCHANGED clientVars
  <2>1. UNCHANGED <<received, since, pulled>>
    BY <1>3 DEF clientVars
  <2>2. \A c \in Clients : Follows(c)' /\ MissesOnlyLater(c)'
    BY <2>1, OthersKeep DEF Pulling, ClientInv
  <2> QED BY <1>1, <2>1, <2>2 DEF Pulling, ClientInv
<1> QED
  BY <1>2, <1>3 DEF Next, vars, Tick, Stamp, Push, Clear, clientVars

\* A client that passes the timestamp of the last message it got is given no
\* message a second time and none out of order, over drops and DELETEs.
THEOREM PulledInOrder == Spec => []PulledOnceInOrder
<1>1. Pulling => PulledOnceInOrder
  BY DEF Pulling, ClientInv, Follows, PulledOnceInOrder
<1> QED BY <1>1, PullingInit, PullingNext, PTL DEF Spec

\* What such a client was not given and is still in the queue came after its
\* last GET, or shares a second with a message it was given.
THEOREM MissedOnlyWithinASecond == Spec => []UnseenCameLater
<1>1. Pulling => UnseenCameLater
  BY DEF Pulling, ClientInv, MissesOnlyLater, UnseenCameLater
<1> QED BY <1>1, PullingInit, PullingNext, PTL DEF Spec
=============================================================================
