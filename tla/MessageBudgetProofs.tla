------------------------ MODULE MessageBudgetProofs ------------------------
(***************************************************************************)
(* Theorems about MessageBudget, for every number of handlers and users,   *)
(* every limit and buffer size, and any number of requests and replies.    *)
(***************************************************************************)
EXTENDS MessageBudget, SequenceTheorems, FiniteSetTheorems,
        WellFoundedInduction, TLAPS

-----------------------------------------------------------------------------
(* Facts about the operators of MessageBudget.                             *)

\* A nonempty set of naturals has a least element, which Min returns.
LEMMA MinInSet ==
  ASSUME NEW S \in SUBSET Nat, S # {}
  PROVE  Min(S) \in S /\ \A x \in S : Min(S) <= x
<1>1. PICK x \in S : \A y \in S : ~ (<<y, x>> \in OpToRel(<, Nat))
  BY NatLessThanWellFounded, WFMin
<1>2. \A y \in S : x <= y
  <2>1. SUFFICES ASSUME NEW y \in S, y < x PROVE FALSE
    BY x \in Nat
  <2>2. <<y, x>> \in Nat \X Nat
    OBVIOUS
  <2>3. <<y, x>> \in OpToRel(<, Nat)
    BY <2>1, <2>2 DEF OpToRel
  <2>4. QED
    BY <1>1, <2>3
<1>3. QED
  BY <1>2 DEF Min

\* A finite nonempty set of naturals has a greatest element, which Max returns.
LEMMA MaxInSet ==
  ASSUME NEW S \in SUBSET Nat, S # {}, IsFiniteSet(S)
  PROVE  Max(S) \in S /\ \A x \in S : x <= Max(S)
<1> DEFINE Topless(T) == T # {} /\ IsFiniteSet(T) /\ \A x \in T : \E y \in T : x < y
           D == {n \in Nat : \E T \in SUBSET Nat : Topless(T) /\ Cardinality(T) = n}
<1>1. SUFFICES ASSUME D # {} PROVE FALSE
  <2>1. ~Topless(S)
    BY FS_CardinalityType
  <2>2. PICK x \in S : \A y \in S : ~(x < y)
    BY <2>1
  <2>3. \A y \in S : x >= y
    BY <2>2
  <2>4. Max(S) \in S /\ \A y \in S : Max(S) >= y
    BY <2>3 DEF Max
  <2>5. QED
    BY <2>4
<1>2. PICK n \in D : \A k \in D : ~(<<k, n>> \in OpToRel(<, Nat))
  BY <1>1, NatLessThanWellFounded, WFMin
<1>3. PICK T \in SUBSET Nat : Topless(T) /\ Cardinality(T) = n
  OBVIOUS
<1>4. PICK x \in T : TRUE
  BY <1>3
<1> DEFINE R == T \ {x}
<1>5. IsFiniteSet(R) /\ Cardinality(R) = n - 1 /\ n \in Nat /\ Cardinality(R) \in Nat
  BY <1>3, <1>4, FS_RemoveElement, FS_CardinalityType
<1>6. R # {} /\ \A z \in R : \E y \in R : z < y
  <2>1. \A z \in T : \E y \in T : z < y
    BY <1>3
  <2>2. PICK y \in T : x < y
    BY <1>4, <2>1
  <2>3. y \in R
    BY <2>2
  <2>4. ASSUME NEW z \in R PROVE \E w \in R : z < w
    <3>1. PICK w \in T : z < w
      BY <2>1
    <3>2. CASE w # x
      BY <3>1, <3>2
    <3>3. CASE w = x
      <4>1. z < y
        BY <2>2, <3>1, <3>3
      <4>2. QED
        BY <2>3, <4>1
    <3>4. QED
      BY <3>2, <3>3
  <2>5. QED
    BY <2>3, <2>4
<1>7. n - 1 \in D
  <2>1. Topless(R) /\ R \in SUBSET Nat
    BY <1>5, <1>6
  <2>2. QED
    BY <1>5, <2>1
<1>8. <<n - 1, n>> \in OpToRel(<, Nat)
  BY <1>5, <1>7 DEF OpToRel
<1>9. QED
  BY <1>2, <1>7, <1>8

\* RemoveAt of manager.go 250: one element fewer, the others in their order.
LEMMA RemoveAtType ==
  ASSUME NEW T, NEW s \in Seq(T), NEW i \in 1..Len(s)
  PROVE  /\ RemoveAt(s, i) \in Seq(T)
         /\ Len(RemoveAt(s, i)) = Len(s) - 1
<1>0. Len(s) \in Nat /\ \A j \in 1..Len(s) : s[j] \in T
  BY ElementOfSeq, LenProperties
<1>1. SubSeq(s, 1, i-1) \in Seq(T) /\ Len(SubSeq(s, 1, i-1)) = i - 1
  <2>1. \A j \in 1..(i-1) : s[j] \in T
    BY <1>0
  <2>2. QED
    BY <1>0, <2>1, SubSeqProperties
<1>2. SubSeq(s, i+1, Len(s)) \in Seq(T) /\ Len(SubSeq(s, i+1, Len(s))) = Len(s) - i
  <2>1. \A j \in (i+1)..Len(s) : s[j] \in T
    BY <1>0
  <2>2. QED
    BY <1>0, <2>1, SubSeqProperties
<1>3. /\ RemoveAt(s, i) \in Seq(T)
      /\ Len(RemoveAt(s, i)) = Len(SubSeq(s, 1, i-1)) + Len(SubSeq(s, i+1, Len(s)))
  <2> DEFINE a == SubSeq(s, 1, i-1)
             b == SubSeq(s, i+1, Len(s))
  <2>1. a \in Seq(T) /\ b \in Seq(T)
    BY <1>1, <1>2
  <2> HIDE DEF a, b
  <2>2. a \o b \in Seq(T) /\ Len(a \o b) = Len(a) + Len(b)
    BY ONLY <2>1, ConcatProperties
  <2>3. QED
    BY <2>2 DEF RemoveAt, a, b
<1>4. (i - 1) + (Len(s) - i) = Len(s) - 1
  BY <1>0
<1>5. QED
  BY ONLY <1>1, <1>2, <1>3, <1>4, Zenon

\* Where eviction looks for a text it finds an index of the buffer.
LEMMA OldestText ==
  ASSUME NEW buf \in Seq(BufferedMessage), Texts(buf) # {}
  PROVE  Min(Texts(buf)) \in 1..Len(buf)
<1>1. Texts(buf) \in SUBSET (1..Len(buf))
  BY LenProperties DEF Texts
<1>2. QED
  BY <1>1, MinInSet, LenProperties

\* bufferMessageLocked leaves a nonempty buffer that fits or did not grow.
LEMMA BufferMessageLockedFacts ==
  ASSUME NEW buf \in Seq(BufferedMessage), NEW bm \in BufferedMessage,
         maxBuffer \in Nat \ {0}
  PROVE  LET new == bufferMessageLocked(buf, bm)
         IN  /\ new \in Seq(BufferedMessage)
             /\ new # <<>>
             /\ Len(new) > Len(buf) => Len(new) <= maxBuffer
<1>0. Len(buf) \in Nat
  BY LenProperties
<1>1. CASE Len(buf) < maxBuffer
  BY <1>0, <1>1, AppendProperties DEF bufferMessageLocked
<1>2. CASE Len(buf) >= maxBuffer /\ Texts(buf) = {}
  <2>1. bufferMessageLocked(buf, bm) = buf
    BY <1>0, <1>2 DEF bufferMessageLocked
  <2>2. buf # <<>>
    BY <1>0, <1>2
  <2>3. QED
    BY <1>0, <2>1, <2>2
<1>3. CASE Len(buf) >= maxBuffer /\ Texts(buf) # {}
  <2> DEFINE cut == RemoveAt(buf, Min(Texts(buf)))
  <2>1. cut \in Seq(BufferedMessage) /\ Len(cut) = Len(buf) - 1
    BY <1>3, OldestText, RemoveAtType
  <2>2. bufferMessageLocked(buf, bm) = Append(cut, bm)
    BY <1>0, <1>3 DEF bufferMessageLocked
  <2>3. /\ Append(cut, bm) \in Seq(BufferedMessage)
        /\ Append(cut, bm) # <<>>
        /\ Len(Append(cut, bm)) = Len(cut) + 1
    BY <2>1, AppendProperties
  <2>4. QED
    BY <1>0, <2>1, <2>2, <2>3
<1>4. QED
  BY <1>0, <1>1, <1>2, <1>3

\* TextRun counts messages of flush, so the flush never skips past its end.
LEMMA TextRunFacts ==
  ASSUME NEW s \in Seq(BufferedMessage)
  PROVE  /\ Cardinality(TextRun(s)) \in 0..Len(s)
         /\ TextRun(s) # {} => Cardinality(TextRun(s)) > 0
<1>1. TextRun(s) \in SUBSET (1..Len(s)) /\ Len(s) \in Nat
  BY LenProperties DEF TextRun
<1>2. IsFiniteSet(1..Len(s)) /\ Cardinality(1..Len(s)) = Len(s)
  <2>1. Len(s) \in Int /\ 1 \in Int
    BY <1>1
  <2>2. /\ IsFiniteSet(1..Len(s))
        /\ Cardinality(1..Len(s)) = IF 1 > Len(s) THEN 0 ELSE Len(s) - 1 + 1
    BY ONLY <2>1, FS_Interval
  <2>3. QED
    BY <1>1, <2>2
<1>3. IsFiniteSet(TextRun(s)) /\ Cardinality(TextRun(s)) <= Len(s)
  BY <1>1, <1>2, FS_Subset
<1>4. Cardinality(TextRun(s)) \in Nat
  BY <1>3, FS_CardinalityType
<1>5. TextRun(s) # {} => Cardinality(TextRun(s)) # 0
  BY <1>3, FS_EmptySet
<1>6. QED
  BY <1>1, <1>3, <1>4, <1>5

\* What is left of flush after n of its messages were sent.
LEMMA RestOfFlush ==
  ASSUME NEW s \in Seq(BufferedMessage), NEW n \in 0..Len(s)
  PROVE  /\ SubSeq(s, n+1, Len(s)) \in Seq(BufferedMessage)
         /\ Len(SubSeq(s, n+1, Len(s))) = Len(s) - n
         /\ Ids(SubSeq(s, 1, n)) \in Seq(Nat)
<1>0. Len(s) \in Nat /\ \A j \in 1..Len(s) : s[j] \in BufferedMessage
  BY ElementOfSeq, LenProperties
<1>1. \A j \in (n+1)..Len(s) : s[j] \in BufferedMessage
  BY <1>0
<1>2. \A j \in 1..n : s[j] \in BufferedMessage
  BY <1>0
<1>3. SubSeq(s, 1, n) \in Seq(BufferedMessage)
  BY <1>2, SubSeqProperties
<1>4. QED
  <2>1. Ids(SubSeq(s, 1, n)) \in Seq(Nat)
    <3> DEFINE t == SubSeq(s, 1, n)
    <3>1. t \in [1..Len(t) -> BufferedMessage] /\ Len(t) \in Nat /\ DOMAIN t = 1..Len(t)
      BY <1>3, LenProperties
    <3> HIDE DEF t
    <3>2. Ids(t) \in [1..Len(t) -> Nat]
      BY <3>1 DEF Ids, BufferedMessage
    <3>3. Ids(t) \in Seq(Nat)
      BY <3>1, <3>2, SeqDef
    <3>4. QED
      BY <3>3 DEF t
  <2>2. QED
    BY <1>0, <1>1, <2>1, SubSeqProperties

\* The elements that RemoveAt leaves: those after the removed one move up.
LEMMA RemoveAtElements ==
  ASSUME NEW T, NEW s \in Seq(T), NEW p \in 1..Len(s)
  PROVE  \A j \in 1..(Len(s) - 1) :
           RemoveAt(s, p)[j] = IF j < p THEN s[j] ELSE s[j + 1]
<1>0. Len(s) \in Nat /\ \A j \in 1..Len(s) : s[j] \in T
  BY ElementOfSeq, LenProperties
<1> DEFINE a == SubSeq(s, 1, p-1)
           b == SubSeq(s, p+1, Len(s))
<1>1. /\ a \in Seq(T) /\ Len(a) = p - 1
      /\ \A j \in 1..(p-1) : a[j] = s[j]
  <2>1. \A j \in 1..(p-1) : s[j] \in T
    BY <1>0
  <2>2. /\ a \in Seq(T)
        /\ Len(a) = IF 1 <= p-1 THEN (p-1)-1+1 ELSE 0
        /\ \A j \in 1..((p-1)-1+1) : a[j] = s[1+j-1]
    BY <1>0, <2>1, SubSeqProperties
  <2> HIDE DEF a
  <2>3. QED
    BY <1>0, <2>2
<1>2. /\ b \in Seq(T) /\ Len(b) = Len(s) - p
      /\ \A j \in 1..(Len(s) - p) : b[j] = s[p + j]
  <2>1. \A j \in (p+1)..Len(s) : s[j] \in T
    BY <1>0
  <2>2. /\ b \in Seq(T)
        /\ Len(b) = IF p+1 <= Len(s) THEN Len(s)-(p+1)+1 ELSE 0
        /\ \A j \in 1..(Len(s)-(p+1)+1) : b[j] = s[p+1+j-1]
    BY <1>0, <2>1, SubSeqProperties
  <2> HIDE DEF b
  <2>3. QED
    BY <1>0, <2>2
<1>3. RemoveAt(s, p) = a \o b
  BY DEF RemoveAt
<1> HIDE DEF a, b
<1>4. \A j \in 1..(Len(a) + Len(b)) : (a \o b)[j] = IF j <= Len(a) THEN a[j] ELSE b[j - Len(a)]
  BY <1>1, <1>2, ConcatProperties
<1>5. SUFFICES ASSUME NEW j \in 1..(Len(s) - 1)
               PROVE  (a \o b)[j] = IF j < p THEN s[j] ELSE s[j + 1]
  BY <1>3
<1>6. j \in 1..(Len(a) + Len(b))
  BY <1>0, <1>1, <1>2
<1>7. CASE j < p
  <2>1. j <= Len(a) /\ j \in 1..(p-1)
    BY <1>0, <1>1, <1>7
  <2>2. (a \o b)[j] = a[j]
    BY <1>4, <1>6, <2>1
  <2>3. QED
    BY <1>1, <1>7, <2>1, <2>2
<1>8. CASE j >= p
  <2>1. ~(j <= Len(a)) /\ j - Len(a) = j - (p - 1) /\ j - (p-1) \in 1..(Len(s) - p)
        /\ p + (j - (p-1)) = j + 1
    BY <1>0, <1>1, <1>8
  <2>2. (a \o b)[j] = b[j - (p-1)]
    BY <1>4, <1>6, <2>1
  <2>3. b[j - (p-1)] = s[j + 1]
    BY <1>2, <2>1
  <2>4. ~(j < p)
    BY <1>0, <1>8
  <2>5. QED
    BY <2>2, <2>3, <2>4
<1>9. j < p \/ j >= p
  BY <1>0
<1>10. QED
  BY <1>7, <1>8, <1>9

\* bufferMessageLocked appends, drops, or evicts a text and appends.
LEMMA BufferMessageLockedCases ==
  ASSUME NEW buf \in Seq(BufferedMessage), NEW bm \in BufferedMessage,
         maxBuffer \in Nat \ {0}
  PROVE  LET new == bufferMessageLocked(buf, bm)
         IN  \/ Len(buf) < maxBuffer /\ new = Append(buf, bm)
             \/ Len(buf) >= maxBuffer /\ Texts(buf) = {} /\ new = buf
             \/ /\ Len(buf) >= maxBuffer /\ Len(new) = Len(buf)
                /\ \E p \in 1..Len(buf) :
                     /\ buf[p].kind = "text"
                     /\ \A j \in 1..(Len(buf) - 1) :
                          new[j] = IF j < p THEN buf[j] ELSE buf[j + 1]
                     /\ new[Len(buf)] = bm
<1>0. Len(buf) \in Nat
  BY LenProperties
<1>1. CASE Len(buf) < maxBuffer
  BY <1>1 DEF bufferMessageLocked
<1>2. CASE Len(buf) >= maxBuffer /\ Texts(buf) = {}
  BY <1>0, <1>2 DEF bufferMessageLocked
<1>3. CASE Len(buf) >= maxBuffer /\ Texts(buf) # {}
  <2> DEFINE p   == Min(Texts(buf))
             cut == RemoveAt(buf, p)
  <2>1. p \in 1..Len(buf)
    BY <1>3, OldestText
  <2>2. buf[p].kind = "text"
    <3>1. Texts(buf) \in SUBSET Nat
      BY LenProperties DEF Texts
    <3>2. p \in Texts(buf)
      BY <1>3, <3>1, MinInSet
    <3>3. QED
      BY <3>2 DEF Texts
  <2>3. bufferMessageLocked(buf, bm) = Append(cut, bm)
    BY <1>0, <1>3 DEF bufferMessageLocked
  <2> HIDE DEF p
  <2>4. /\ cut \in Seq(BufferedMessage) /\ Len(cut) = Len(buf) - 1
        /\ \A j \in 1..(Len(buf) - 1) : cut[j] = IF j < p THEN buf[j] ELSE buf[j + 1]
    BY <2>1, RemoveAtType, RemoveAtElements
  <2> HIDE DEF cut
  <2>5. /\ Len(Append(cut, bm)) = Len(cut) + 1
        /\ \A j \in 1..Len(cut) : Append(cut, bm)[j] = cut[j]
        /\ Append(cut, bm)[Len(cut) + 1] = bm
    BY <2>4, AppendProperties
  <2>6. Len(cut) + 1 = Len(buf)
    BY <1>0, <2>4
  <2>7. QED
    BY <1>3, <2>1, <2>2, <2>3, <2>4, <2>5, <2>6
<1>4. QED
  BY <1>0, <1>1, <1>2, <1>3

LEMMA IncreasingIds ==
  ASSUME NEW s \in Seq(BufferedMessage)
  PROVE  Increasing(Ids(s)) <=>
           \A i, j \in 1..Len(s) : i < j => s[i].id < s[j].id
<1>1. DOMAIN s = 1..Len(s)
  BY LenProperties
<1>2. DOMAIN Ids(s) = 1..Len(s) /\ \A i \in 1..Len(s) : Ids(s)[i] = s[i].id
  BY <1>1 DEF Ids
<1>3. QED
  BY <1>2 DEF Increasing

\* Nothing strange gets into the buffer, no medium gets out of it, and a newer
\* message leaves it sorted.
LEMMA BufferContents ==
  ASSUME NEW buf \in Seq(BufferedMessage), NEW bm \in BufferedMessage,
         maxBuffer \in Nat \ {0}
  PROVE  LET new == bufferMessageLocked(buf, bm)
         IN  /\ \A j \in DOMAIN new : new[j] = bm \/ \E i \in DOMAIN buf : new[j] = buf[i]
             /\ \A i \in DOMAIN buf :
                  buf[i].kind # "text" => \E j \in DOMAIN new : new[j] = buf[i]
             /\ Increasing(Ids(buf)) /\ (\A i \in DOMAIN buf : buf[i].id < bm.id)
                  => Increasing(Ids(new))
<1> DEFINE new == bufferMessageLocked(buf, bm)
<1>0. /\ Len(buf) \in Nat /\ DOMAIN buf = 1..Len(buf)
      /\ new \in Seq(BufferedMessage)
      /\ Len(new) \in Nat /\ DOMAIN new = 1..Len(new)
      /\ \A i \in 1..Len(buf) : buf[i].id \in Nat
  <2>1. new \in Seq(BufferedMessage)
    BY BufferMessageLockedFacts
  <2>2. \A i \in 1..Len(buf) : buf[i] \in BufferedMessage
    BY ElementOfSeq
  <2>3. QED
    BY <2>1, <2>2, LenProperties DEF BufferedMessage
<1>1. \/ Len(buf) < maxBuffer /\ new = Append(buf, bm)
      \/ new = buf
      \/ /\ Len(new) = Len(buf)
         /\ \E p \in 1..Len(buf) :
              /\ buf[p].kind = "text"
              /\ \A j \in 1..(Len(buf) - 1) :
                   new[j] = IF j < p THEN buf[j] ELSE buf[j + 1]
              /\ new[Len(buf)] = bm
  BY BufferMessageLockedCases
<1> DEFINE Goal ==
      /\ \A j \in 1..Len(new) : new[j] = bm \/ \E i \in 1..Len(buf) : new[j] = buf[i]
      /\ \A i \in 1..Len(buf) :
           buf[i].kind # "text" => \E j \in 1..Len(new) : new[j] = buf[i]
      /\ (\A i, j \in 1..Len(buf) : i < j => buf[i].id < buf[j].id)
         /\ (\A i \in 1..Len(buf) : buf[i].id < bm.id)
           => \A i, j \in 1..Len(new) : i < j => new[i].id < new[j].id
<1> HIDE DEF new
<1>5. Goal
  <2>2. CASE new = Append(buf, bm)
    <3>1. /\ Len(new) = Len(buf) + 1
          /\ \A i \in 1..Len(buf) : new[i] = buf[i]
          /\ new[Len(buf) + 1] = bm
      BY <2>2, AppendProperties
    <3>2. QED
      BY <1>0, <3>1
  <2>3. CASE new = buf
    BY <1>0, <2>3
  <2>4. CASE /\ Len(new) = Len(buf)
             /\ \E p \in 1..Len(buf) :
                  /\ buf[p].kind = "text"
                  /\ \A j \in 1..(Len(buf) - 1) :
                       new[j] = IF j < p THEN buf[j] ELSE buf[j + 1]
                  /\ new[Len(buf)] = bm
    <3>0. Len(new) = Len(buf)
      BY <2>4
    <3>1. PICK p \in 1..Len(buf) :
                  /\ buf[p].kind = "text"
                  /\ \A j \in 1..(Len(buf) - 1) :
                       new[j] = IF j < p THEN buf[j] ELSE buf[j + 1]
                  /\ new[Len(buf)] = bm
      BY <2>4
    <3>2. \A j \in 1..Len(new) : new[j] = bm \/ \E i \in 1..Len(buf) : new[j] = buf[i]
      <4>1. ASSUME NEW j \in 1..Len(buf), j # Len(buf)
            PROVE  \E i \in 1..Len(buf) : new[j] = buf[i]
        <5>0. Len(buf) \in Nat
          BY <1>0
        <5>1. j \in 1..(Len(buf) - 1) /\ j + 1 \in 1..Len(buf)
          BY <4>1, <5>0
        <5>2. QED
          BY <3>1, <5>1
      <4>2. QED
        BY <3>0, <3>1, <4>1
    <3>3. \A i \in 1..Len(buf) :
            buf[i].kind # "text" => \E j \in 1..Len(new) : new[j] = buf[i]
      <4>1. SUFFICES ASSUME NEW i \in 1..Len(buf), i # p
                     PROVE  \E j \in 1..Len(new) : new[j] = buf[i]
        BY <3>1
      <4>2. CASE i < p
        <5>1. i \in 1..(Len(buf) - 1)
          BY <1>0, <4>2
        <5>2. QED
          BY <2>4, <3>1, <4>2, <5>1
      <4>3. CASE i > p
        <5>1. i - 1 \in 1..(Len(buf) - 1) /\ ~(i - 1 < p) /\ (i - 1) + 1 = i /\ i-1 \in 1..Len(new)
          BY <1>0, <3>0, <4>3
        <5>2. QED
          BY <3>1, <5>1
      <4>4. QED
        BY <4>1, <4>2, <4>3
    <3>4. ASSUME \A i, j \in 1..Len(buf) : i < j => buf[i].id < buf[j].id,
                 \A i \in 1..Len(buf) : buf[i].id < bm.id,
                 NEW i \in 1..Len(new), NEW j \in 1..Len(new), i < j
          PROVE  new[i].id < new[j].id
      <4>0. i \in 1..Len(buf) /\ j \in 1..Len(buf)
        BY <3>0
      <4>1. i \in 1..(Len(buf) - 1)
            /\ new[i] = buf[IF i < p THEN i ELSE i + 1]
        BY <1>0, <3>1, <3>4, <4>0
      <4>2. CASE j = Len(buf)
        BY <1>0, <3>1, <3>4, <4>0, <4>1, <4>2
      <4>3. CASE j # Len(buf)
        <5>0. Len(buf) \in Nat
          BY <1>0
        <5>1. j \in 1..(Len(buf) - 1)
          BY <4>0, <4>3, <5>0
        <5>2. new[j] = buf[IF j < p THEN j ELSE j + 1]
          BY <3>1, <5>1
        <5>3. QED
          BY <1>0, <3>4, <4>1, <5>1, <5>2
      <4>4. QED
        BY <4>2, <4>3
    <3>5. QED
      BY <3>2, <3>3, <3>4
  <2>5. QED
    BY <1>1, <2>2, <2>3, <2>4
<1>6. Increasing(Ids(buf)) <=> \A i, j \in 1..Len(buf) : i < j => buf[i].id < buf[j].id
  BY IncreasingIds
<1>7. Increasing(Ids(new)) <=> \A i, j \in 1..Len(new) : i < j => new[i].id < new[j].id
  BY <1>0, IncreasingIds
<1>8. QED
  BY <1>0, <1>5, <1>6, <1>7 DEF new

-----------------------------------------------------------------------------
(* The inductive invariant.                                                *)

LEMMA InitIInv == Init => IInv
<1> SUFFICES ASSUME Init PROVE IInv
  OBVIOUS
<1>1. TypeOK
  <2>1. /\ msgBuffer \in Seq(BufferedMessage) /\ flush \in Seq(BufferedMessage)
        /\ msgCh \in Seq(Reply) /\ wire \in Seq(Call)
    BY EmptySeq DEF Init
  <2>2. /\ reqPc \in [Senders -> {"idle", "resolved", "sending", "reminding"}]
        /\ reqMsg \in [Senders -> Message \cup {NoMsg}]
        /\ answer \in [Requests -> {"none", "called", "buffered"}]
    BY DEF Init
  <2>3. /\ sendBudget \in Nat /\ budgetLimit \in Nat \ {0}
        /\ maxBuffer \in Nat \ {0} /\ granted \in Nat
        /\ excess \subseteq Message /\ leastMax \in Nat \ {0}
    BY BudgetAssumption DEF Init
  <2>4. /\ bufferMode \in BOOLEAN
        /\ lastContact \in Users \cup {NoUser} /\ flushTo \in Users \cup {NoUser}
        /\ inHand \in Reply \cup {NoReply}
        /\ pipePc \in {"idle", "collected", "flushing", "fallback"}
    BY DEF Init
  <2>5. /\ nextId \in Nat \ {0} /\ replies \in Nat
        /\ spent \in Nat /\ flushed \in Nat /\ queued \subseteq Message
    BY DEF Init
  <2>6. QED
    BY <2>1, <2>2, <2>3, <2>4, <2>5, Zenon DEF TypeOK
<1>2. QED
  BY <1>1, BudgetAssumption DEF Init, IInv, TypeOK, ExhaustedBeforeBuffering,
     BufferModeIffBuffered

\* IInv's parts beside TypeOK hold on while what they mention is unchanged.
LEMMA ManagerUnchanged ==
  ASSUME IInv, TypeOK',
         UNCHANGED <<sendBudget, bufferMode, msgBuffer, granted, spent>>,
         (pipePc # "idle" <=> flush # <<>>)',
         (pipePc \in {"flushing", "fallback"} => flushTo # NoUser)',
         (\A h \in Senders : reqPc[h] # "idle" => reqMsg[h] \in Message)'
  PROVE  IInv'
BY DEF IInv, ExhaustedBeforeBuffering, BufferModeIffBuffered

\* Any call recorded with these fields is a Call.
LEMMA RecordCall ==
  ASSUME TypeOK, NEW ids \in Seq(Nat), NEW as \in MediaTypes,
         NEW to \in Users,
         NEW via \in {"direct", "flush", "reminder"}
  PROVE  Append(wire, [via |-> via, ids |-> ids, as |-> as, to |-> to]) \in Seq(Call)
<1>1. [via |-> via, ids |-> ids, as |-> as, to |-> to] \in Call
  BY DEF Call
<1>2. QED
  BY <1>1, AppendProperties DEF TypeOK

LEMMA HandleSendStep ==
  ASSUME IInv, NEW h \in Senders, NEW k \in Kinds, NEW u \in Users \cup {NoUser},
         HandleSend(h, k, u)
  PROVE  IInv'
<1>1. [id |-> 0, kind |-> k, to |-> resolveTarget(u)] \in Message
  BY DEF HandleSend, resolveTarget, IInv, TypeOK, Message
<1>2. /\ reqMsg' \in [Senders -> Message \cup {NoMsg}]
      /\ reqPc' \in [Senders -> {"idle", "resolved", "sending", "reminding"}]
  BY <1>1 DEF HandleSend, IInv, TypeOK
<1>3. TypeOK'
  BY <1>2 DEF HandleSend, managerVars, clientVars, pipeVars, countVars, IInv, TypeOK
<1>4. (\A g \in Senders : reqPc[g] # "idle" => reqMsg[g] \in Message)'
  BY <1>1 DEF HandleSend, IInv, TypeOK
<1>5. QED
  BY <1>3, <1>4, ManagerUnchanged
     DEF HandleSend, managerVars, countVars, pipeVars, IInv

LEMMA FinishSendStep ==
  ASSUME IInv, NEW h \in Senders, FinishSend(h)
  PROVE  IInv'
<1>1. reqMsg[h] \in Message
  BY DEF FinishSend, IInv
<1>2. wire' \in Seq(Call)
  <2>1. <<reqMsg[h].id>> \in Seq(Nat)
    BY <1>1 DEF Message
  <2>2. reqMsg[h].kind \in MediaTypes /\ reqMsg[h].to \in Users
    BY <1>1, BudgetAssumption DEF Message
  <2>3. QED
    BY <2>1, <2>2, RecordCall DEF FinishSend, IInv
<1>3. /\ reqPc' \in [Senders -> {"idle", "resolved", "sending", "reminding"}]
      /\ answer' \in [Requests -> {"none", "called", "buffered"}]
  BY DEF FinishSend, IInv, TypeOK
<1>4. TypeOK'
  BY <1>2, <1>3
     DEF FinishSend, managerVars, clientVars, pipeVars, countVars, IInv, TypeOK
<1>5. (\A g \in Senders : reqPc[g] # "idle" => reqMsg[g] \in Message)'
  BY DEF FinishSend, IInv, TypeOK
<1>6. QED
  BY <1>4, <1>5, ManagerUnchanged
     DEF FinishSend, managerVars, countVars, pipeVars, IInv

LEMMA ReminderStep ==
  ASSUME IInv, NEW h \in Senders, sendBufferActivationReminder(h)
  PROVE  IInv'
<1>1. wire' \in Seq(Call)
  <2>1. <<>> \in Seq(Nat) /\ "text" \in MediaTypes
    BY EmptySeq DEF MediaTypes
  <2>2. CASE lastContact = NoUser
    BY <2>2 DEF sendBufferActivationReminder, IInv, TypeOK
  <2>3. CASE lastContact # NoUser
    <3>1. lastContact \in Users
      BY <2>3 DEF IInv, TypeOK
    <3>2. QED
      BY <2>1, <2>3, <3>1, RecordCall DEF sendBufferActivationReminder, IInv
  <2>4. QED
    BY <2>2, <2>3
<1>2. /\ reqPc' \in [Senders -> {"idle", "resolved", "sending", "reminding"}]
      /\ answer' \in [Requests -> {"none", "called", "buffered"}]
  BY DEF sendBufferActivationReminder, IInv, TypeOK
<1>3. TypeOK'
  BY <1>1, <1>2
     DEF sendBufferActivationReminder, managerVars, clientVars, pipeVars,
         countVars, IInv, TypeOK
<1>4. (\A g \in Senders : reqPc[g] # "idle" => reqMsg[g] \in Message)'
  BY DEF sendBufferActivationReminder, IInv, TypeOK
<1>5. QED
  BY <1>3, <1>4, ManagerUnchanged
     DEF sendBufferActivationReminder, managerVars, countVars, pipeVars, IInv

\* The one step of a handler that touches the Manager.
LEMMA BudgetedSendStep ==
  ASSUME IInv, NEW h \in Senders, BudgetedSend(h)
  PROVE  IInv'
<1> DEFINE m == [reqMsg[h] EXCEPT !.id = nextId]
<1>1. /\ m \in Message /\ reqMsg' = [reqMsg EXCEPT ![h] = m]
      /\ nextId' = nextId + 1
      /\ Spend(h, m) \/ EnterBuffer(h, m)
      /\ UNCHANGED <<budgetLimit, maxBuffer, clientVars, pipeVars, granted, flushed,
                     leastMax, wire>>
  BY DEF BudgetedSend, IInv, TypeOK, Message
<1> HIDE DEF m
<1>2. /\ reqMsg' \in [Senders -> Message \cup {NoMsg}]
      /\ \A g \in Senders : reqMsg'[g] = IF g = h THEN m ELSE reqMsg[g]
  BY <1>1 DEF IInv, TypeOK
<1>3. CASE Spend(h, m)
  <2>1. sendBudget' \in Nat /\ spent' \in Nat /\ spent' + sendBudget' = granted'
    BY <1>1, <1>3 DEF Spend, HasBudget, IInv, TypeOK
  <2>2. /\ reqPc' \in [Senders -> {"idle", "resolved", "sending", "reminding"}]
        /\ \A g \in Senders : reqPc'[g] = IF g = h THEN "sending" ELSE reqPc[g]
    BY <1>3 DEF Spend, IInv, TypeOK
  <2>3. TypeOK'
    BY <1>1, <1>2, <1>3, <2>1, <2>2
       DEF Spend, clientVars, pipeVars, IInv, TypeOK
  <2>4. (ExhaustedBeforeBuffering /\ BufferModeIffBuffered)'
    BY <1>3, <2>1 DEF Spend, HasBudget, IInv, ExhaustedBeforeBuffering,
                      BufferModeIffBuffered
  <2>5. (\A g \in Senders : reqPc[g] # "idle" => reqMsg[g] \in Message)'
    BY <1>1, <1>2, <2>2 DEF IInv
  <2>6. QED
    BY <1>1, <2>1, <2>3, <2>4, <2>5 DEF pipeVars, IInv
<1>4. CASE EnterBuffer(h, m)
  <2>1. Buffered(m) \in BufferedMessage
    BY <1>1 DEF Message, Buffered, BufferedMessage
  <2>2. msgBuffer' \in Seq(BufferedMessage) /\ msgBuffer' # <<>>
    BY <1>4, <2>1, BufferMessageLockedFacts DEF EnterBuffer, IInv, TypeOK
  <2>3. queued' \subseteq Message /\ excess' \subseteq Message
    BY <1>1, <1>4 DEF EnterBuffer, IInv, TypeOK
  <2>4. /\ reqPc' \in [Senders -> {"idle", "resolved", "sending", "reminding"}]
        /\ \A g \in Senders : g # h => reqPc'[g] = reqPc[g]
        /\ answer' \in [Requests -> {"none", "called", "buffered"}]
    BY <1>4 DEF EnterBuffer, IInv, TypeOK
  <2>5. TypeOK'
    BY <1>1, <1>2, <1>4, <2>2, <2>3, <2>4
       DEF EnterBuffer, clientVars, pipeVars, IInv, TypeOK
  <2>6. (ExhaustedBeforeBuffering /\ BufferModeIffBuffered)'
    BY <1>4, <2>2 DEF EnterBuffer, HasBudget, IInv, ExhaustedBeforeBuffering,
                      BufferModeIffBuffered
  <2>7. (\A g \in Senders : reqPc[g] # "idle" => reqMsg[g] \in Message)'
    BY <1>1, <1>2, <2>4 DEF IInv
  <2>8. QED
    BY <1>1, <1>4, <2>5, <2>6, <2>7 DEF EnterBuffer, pipeVars, IInv
<1>5. QED
  BY <1>1, <1>3, <1>4

LEMMA SetLimitsStep ==
  ASSUME IInv, NEW l \in Limits, NEW n \in BufferSizes, SetLimits(l, n)
  PROVE  IInv'
<1>1. leastMax' \in Nat \ {0}
  <2>1. {leastMax, n} \in SUBSET Nat /\ leastMax # 0 /\ n # 0
    BY BudgetAssumption DEF IInv, TypeOK
  <2>2. QED
    BY <2>1, MinInSet DEF SetLimits
<1>2. TypeOK'
  BY <1>1, BudgetAssumption
     DEF SetLimits, clientVars, reqVars, pipeVars, IInv, TypeOK
<1>3. QED
  BY <1>2, ManagerUnchanged DEF SetLimits, reqVars, pipeVars, IInv

LEMMA ReceiveMessageStep ==
  ASSUME IInv, NEW u \in Users, NEW slash \in BOOLEAN, ReceiveMessage(u, slash)
  PROVE  IInv'
<1>1. inHand' \in Reply \cup {NoReply}
  BY DEF ReceiveMessage, Reply
<1>2. TypeOK'
  BY <1>1 DEF ReceiveMessage, managerVars, reqVars, pipeVars, countVars, IInv, TypeOK
<1>3. QED
  BY <1>2, ManagerUnchanged
     DEF ReceiveMessage, managerVars, countVars, reqVars, pipeVars, IInv

LEMMA EnqueueStep ==
  ASSUME IInv, Enqueue
  PROVE  IInv'
<1>1. msgCh' \in Seq(Reply)
  BY AppendProperties DEF Enqueue, IInv, TypeOK
<1>2. TypeOK'
  BY <1>1 DEF Enqueue, managerVars, reqVars, pipeVars, countVars, IInv, TypeOK
<1>3. QED
  BY <1>2, ManagerUnchanged
     DEF Enqueue, managerVars, countVars, reqVars, pipeVars, IInv

\* A reset empties the buffer even when it does not flush: outside buffer
\* mode there is nothing in it.
LEMMA OnUserMessageStep ==
  ASSUME IInv, OnUserMessage
  PROVE  IInv'
<1>1. msgCh' \in Seq(Reply)
  BY HeadTailProperties DEF OnUserMessage, IInv, TypeOK
<1>2. /\ msgBuffer' = <<>>
      /\ flush' \in Seq(BufferedMessage)
      /\ pipePc' = IF flush' = <<>> THEN "idle" ELSE "collected"
  <2>1. bufferMode <=> msgBuffer # <<>>
    BY DEF IInv, BufferModeIffBuffered
  <2>2. Len(msgBuffer) > 0 <=> msgBuffer # <<>>
    BY LenProperties DEF IInv, TypeOK
  <2>3. CASE shouldFlush(Head(msgCh).slash)
    BY <2>3 DEF OnUserMessage, collectFlushLocked, IInv, TypeOK
  <2>4. CASE ~shouldFlush(Head(msgCh).slash)
    <3>1. msgBuffer = <<>>
      BY <2>1, <2>2, <2>4 DEF shouldFlush
    <3>2. QED
      BY <2>4, <3>1, EmptySeq DEF OnUserMessage
  <2>5. QED
    BY <2>3, <2>4
<1>3. /\ sendBudget' = budgetLimit /\ granted' = budgetLimit
      /\ spent' = 0 /\ flushed' = 0 /\ bufferMode' = FALSE
      /\ excess' = {} /\ leastMax' = maxBuffer
      /\ UNCHANGED <<budgetLimit, maxBuffer, lastContact, inHand, replies, reqVars,
                     flushTo, wire>>
  BY DEF OnUserMessage
<1>4. budgetLimit \in Nat /\ msgBuffer' \in Seq(BufferedMessage)
  BY <1>2, EmptySeq DEF IInv, TypeOK
<1>5. TypeOK'
  BY <1>1, <1>2, <1>3, <1>4 DEF reqVars, IInv, TypeOK
<1>6. QED
  BY <1>2, <1>3, <1>4, <1>5
     DEF reqVars, IInv, ExhaustedBeforeBuffering, BufferModeIffBuffered

LEMMA BeginFlushStep ==
  ASSUME IInv, BeginFlush
  PROVE  IInv'
<1>1. /\ flush' \in Seq(BufferedMessage)
      /\ pipePc' \in {"idle", "flushing"}
      /\ flushTo' \in Users \cup {NoUser}
      /\ pipePc' # "idle" <=> flush' # <<>>
      /\ pipePc' = "flushing" => flushTo' # NoUser
  BY EmptySeq DEF BeginFlush, IInv, TypeOK
<1>2. TypeOK'
  BY <1>1 DEF BeginFlush, managerVars, clientVars, reqVars, countVars, IInv, TypeOK
<1>3. QED
  BY <1>1, <1>2, ManagerUnchanged DEF BeginFlush, managerVars, countVars, reqVars, IInv

\* What the three flushing steps have in common: a call is recorded and n
\* messages leave flush, or none does and the retry is next.
LEMMA FlushStep ==
  ASSUME IInv, pipePc \in {"flushing", "fallback"},
         NEW ids \in Seq(Nat), NEW kind \in MediaTypes, FlushCall(ids, kind),
         NEW n \in 0..Len(flush),
         Flushed(n) \/ (pipePc' = "fallback" /\ UNCHANGED flush),
         UNCHANGED <<managerVars, clientVars, reqVars, flushTo>>
  PROVE  IInv'
<1>1. flushTo \in Users
  BY DEF IInv, TypeOK
<1>2. wire' \in Seq(Call)
  BY <1>1, RecordCall DEF FlushCall, IInv
<1>3. /\ flush' \in Seq(BufferedMessage)
      /\ pipePc' \in {"idle", "flushing", "fallback"}
      /\ pipePc' # "idle" <=> flush' # <<>>
  <2>1. CASE Flushed(n)
    <3>1. /\ SubSeq(flush, n+1, Len(flush)) \in Seq(BufferedMessage)
          /\ Len(SubSeq(flush, n+1, Len(flush))) = Len(flush) - n
      BY RestOfFlush DEF IInv, TypeOK
    <3>2. flush' \in Seq(BufferedMessage) /\ Len(flush') = Len(flush) - n
      BY <2>1, <3>1 DEF Flushed
    <3>3. flush' = <<>> <=> Len(flush') = 0
      BY <3>2, LenProperties
    <3>4. QED
      BY <2>1, <3>2, <3>3 DEF Flushed
  <2>2. CASE pipePc' = "fallback" /\ UNCHANGED flush
    BY <2>2 DEF IInv, TypeOK
  <2>3. QED
    BY <2>1, <2>2
<1>4. flushed' \in Nat /\ UNCHANGED <<granted, spent, excess, leastMax>>
  BY DEF FlushCall, IInv, TypeOK
<1>5. TypeOK'
  BY <1>2, <1>3, <1>4 DEF managerVars, clientVars, reqVars, IInv, TypeOK
<1>6. QED
  BY <1>1, <1>3, <1>4, <1>5, ManagerUnchanged, BudgetAssumption
     DEF managerVars, reqVars, IInv

LEMMA FlushTextStep ==
  ASSUME IInv, FlushText
  PROVE  IInv'
<1> DEFINE n == Cardinality(TextRun(flush))
<1>1. n \in 0..Len(flush)
  BY TextRunFacts DEF IInv, TypeOK
<1>2. Ids(SubSeq(flush, 1, n)) \in Seq(Nat) /\ "text" \in MediaTypes
  BY <1>1, RestOfFlush DEF IInv, TypeOK, MediaTypes
<1>3. QED
  BY <1>1, <1>2, FlushStep DEF FlushText

\* While the pipeline flushes there is a next message.
LEMMA NextMedium ==
  ASSUME IInv, pipePc # "idle"
  PROVE  /\ 1 \in 0..Len(flush)
         /\ <<flush[1].id>> \in Seq(Nat)
         /\ flush[1].kind \in MediaTypes
<1>1. flush \in Seq(BufferedMessage) /\ flush # <<>>
  BY DEF IInv, TypeOK
<1>2. Len(flush) \in Nat /\ Len(flush) # 0
  BY <1>1, LenProperties
<1>3. flush[1] \in BufferedMessage
  BY <1>1, <1>2, ElementOfSeq
<1>4. QED
  BY <1>2, <1>3, BudgetAssumption DEF BufferedMessage

LEMMA FlushFileStep ==
  ASSUME IInv, NEW ok \in BOOLEAN, FlushFile(ok)
  PROVE  IInv'
<1>1. "file" \in MediaTypes
  BY DEF MediaTypes
<1>2. QED
  BY <1>1, NextMedium, FlushStep DEF FlushFile

LEMMA FlushFallbackStep ==
  ASSUME IInv, FlushFallback
  PROVE  IInv'
BY NextMedium, FlushStep DEF FlushFallback

\* The invariant is inductive.
LEMMA NextIInv == IInv /\ [Next]_vars => IInv'
<1> SUFFICES ASSUME IInv, [Next]_vars PROVE IInv'
  OBVIOUS
<1>1. ASSUME NEW h \in Senders, Handler(h) PROVE IInv'
  BY <1>1, BudgetedSendStep, FinishSendStep, ReminderStep DEF Handler
<1>2. ASSUME NEW h \in Senders, NEW k \in Kinds, NEW u \in Users \cup {NoUser},
             HandleSend(h, k, u)
      PROVE  IInv'
  BY <1>2, HandleSendStep
<1>3. ASSUME NEW l \in Limits, NEW n \in BufferSizes, SetLimits(l, n) PROVE IInv'
  BY <1>3, SetLimitsStep
<1>4. ASSUME NEW u \in Users, NEW slash \in BOOLEAN, ReceiveMessage(u, slash)
      PROVE  IInv'
  BY <1>4, ReceiveMessageStep
<1>5. CASE Enqueue
  BY <1>5, EnqueueStep
<1>6. CASE Pipeline
  BY <1>6, OnUserMessageStep, BeginFlushStep, FlushTextStep, FlushFileStep,
     FlushFallbackStep DEF Pipeline
<1>7. CASE UNCHANGED vars
  BY <1>7 DEF vars, managerVars, clientVars, reqVars, pipeVars, countVars, IInv,
     TypeOK, ExhaustedBeforeBuffering, BufferModeIffBuffered
<1>8. QED
  BY <1>1, <1>2, <1>3, <1>4, <1>5, <1>6, <1>7 DEF Next

-----------------------------------------------------------------------------
(* The theorems.                                                           *)

\* Every state of every behaviour satisfies the inductive invariant.
THEOREM Invariance == Spec => []IInv
<1>1. Init => IInv
  BY InitIInv
<1>2. IInv /\ [Next]_vars => IInv'
  BY NextIInv
<1>3. QED
  BY <1>1, <1>2, PTL DEF Spec

\* Manager, client, handlers and pipeline keep to their types.
THEOREM TypeCorrectness == Spec => []TypeOK
<1>1. IInv => TypeOK
  BY DEF IInv
<1>2. QED
  BY <1>1, Invariance, PTL

\* However many handlers race, the direct calls stay within the budget that
\* the last user message granted.
THEOREM BudgetSafety == Spec => []BudgetNeverOverspent
<1>1. IInv => BudgetNeverOverspent
  BY DEF IInv, TypeOK, BudgetNeverOverspent
<1>2. QED
  BY <1>1, Invariance, PTL

\* A message is buffered only while no budget is left, and bufferMode says so.
THEOREM BufferingIsConsistent ==
  Spec => [](ExhaustedBeforeBuffering /\ BufferModeIffBuffered)
<1>1. IInv => ExhaustedBeforeBuffering /\ BufferModeIffBuffered
  BY DEF IInv
<1>2. QED
  BY <1>1, Invariance, PTL

\* No step lets the buffer grow beyond max_buffered_messages, whatever the
\* settings were before.
THEOREM BufferGrowth == Spec => BufferBounded
<1>1. ASSUME IInv, [Next]_vars
      PROVE  Len(msgBuffer') > Len(msgBuffer) => Len(msgBuffer') <= maxBuffer
  <2>1. Len(msgBuffer) \in Nat
    BY <1>1, LenProperties DEF IInv, TypeOK
  <2>2. CASE \E h \in Senders : BudgetedSend(h)
    <3>1. PICK h \in Senders : BudgetedSend(h)
      BY <2>2
    <3> DEFINE m == [reqMsg[h] EXCEPT !.id = nextId]
    <3>2. m \in Message /\ (Spend(h, m) \/ EnterBuffer(h, m))
      BY <1>1, <3>1 DEF BudgetedSend, IInv, TypeOK, Message
    <3> HIDE DEF m
    <3>3. Buffered(m) \in BufferedMessage
      BY <3>2 DEF Message, Buffered, BufferedMessage
    <3>4. CASE Spend(h, m)
      BY <2>1, <3>4 DEF Spend
    <3>5. CASE EnterBuffer(h, m)
      <4>1. msgBuffer \in Seq(BufferedMessage) /\ maxBuffer \in Nat \ {0}
        BY <1>1 DEF IInv, TypeOK
      <4>2. msgBuffer' = bufferMessageLocked(msgBuffer, Buffered(m))
        BY <3>5 DEF EnterBuffer
      <4>3. QED
        BY ONLY <3>3, <4>1, <4>2, BufferMessageLockedFacts
    <3>6. QED
      BY <3>2, <3>4, <3>5
  <2>3. CASE OnUserMessage
    <3>1. msgBuffer' = msgBuffer \/ msgBuffer' = <<>>
      BY <2>3 DEF OnUserMessage, collectFlushLocked
    <3>2. QED
      BY <2>1, <3>1
  <2>4. CASE UNCHANGED msgBuffer
    BY <2>1, <2>4
  <2>5. ASSUME NEW h \in Senders, Handler(h)
        PROVE  BudgetedSend(h) \/ UNCHANGED msgBuffer
    BY <2>5 DEF Handler, FinishSend, sendBufferActivationReminder, managerVars
  <2>6. ASSUME Pipeline
        PROVE  OnUserMessage \/ UNCHANGED msgBuffer
    BY <2>6 DEF Pipeline, BeginFlush, FlushText, FlushFile, FlushFallback, managerVars
  <2>7. ASSUME NEW h \in Senders, NEW k \in Kinds, NEW u \in Users \cup {NoUser},
               HandleSend(h, k, u)
        PROVE  UNCHANGED msgBuffer
    BY <2>7 DEF HandleSend, managerVars
  <2>8. ASSUME NEW l \in Limits, NEW n \in BufferSizes, SetLimits(l, n)
        PROVE  UNCHANGED msgBuffer
    BY <2>8 DEF SetLimits
  <2>9. ASSUME NEW u \in Users, NEW slash \in BOOLEAN, ReceiveMessage(u, slash)
        PROVE  UNCHANGED msgBuffer
    BY <2>9 DEF ReceiveMessage, managerVars
  <2>10. ASSUME Enqueue \/ UNCHANGED vars
         PROVE  UNCHANGED msgBuffer
    BY <2>10 DEF Enqueue, vars, managerVars
  <2>11. QED
    BY <1>1, <2>2, <2>3, <2>4, <2>5, <2>6, <2>7, <2>8, <2>9, <2>10 DEF Next
<1>2. IInv /\ [Next]_vars =>
        [Len(msgBuffer') > Len(msgBuffer) => Len(msgBuffer') <= maxBuffer]_vars
  BY <1>1
<1>3. QED
  BY <1>2, Invariance, PTL DEF Spec, BufferBounded

-----------------------------------------------------------------------------
(* Where every message is, and which calls were made for it.               *)

Sending   == {h \in Senders : reqPc[h] = "sending"}
QueuedIds == {m.id : m \in queued}
MediaIds  == {m.id : m \in Media}

\* An id is given out once: to a message that was queued or to one that is
\* being sent.
Accepted ==
  /\ \A m \in queued : m.id < nextId
  /\ \A m, n \in queued : m.id = n.id => m = n
  /\ \A i \in DOMAIN msgBuffer : \E m \in queued : msgBuffer[i] = Buffered(m)
  /\ \A i \in DOMAIN flush : \E m \in queued : flush[i] = Buffered(m)
  /\ \A h \in Sending : reqMsg[h].id < nextId /\ reqMsg[h].id \notin QueuedIds
  /\ \A g, h \in Sending : reqMsg[g].id = reqMsg[h].id => g = h

\* The calls made for a message tell where it is: none before it leaves the
\* buffer or its handler calls, one for the medium whose SendFile failed.
Called ==
  /\ \A k \in DOMAIN wire : \A i \in Range(wire[k].ids) : i < nextId
  /\ \A h \in Sending : CallsOf(reqMsg[h].id) = {}
  /\ \A i \in IdSet(msgBuffer) : CallsOf(i) = {}
  /\ \A j \in DOMAIN flush :
       Cardinality(CallsOf(flush[j].id)) =
         IF j = 1 /\ pipePc = "fallback" THEN 1 ELSE 0
  /\ pipePc = "fallback" => flush[1].kind # "text"
  /\ \A i \in Requests :
       Cardinality(CallsOf(i)) <= IF i \in MediaIds THEN 2 ELSE 1

\* Whenever the pipeline has a message or is about to ask for the contact,
\* there is one, so that BeginFlush drops nothing.
Contacted ==
  pipePc = "collected" \/ msgCh # <<>> \/ inHand # NoReply
    => lastContact # NoUser

Tracked ==
  Accepted /\ Called /\ InAcceptOrder /\ NoMediaLost /\ Contacted

\* One more call on the wire.
LEMMA CallRecorded ==
  ASSUME wire \in Seq(Call), NEW c \in Call, wire' = Append(wire, c)
  PROVE  /\ Len(wire) \in Nat /\ DOMAIN wire = 1..Len(wire)
         /\ DOMAIN wire' = DOMAIN wire \cup {Len(wire) + 1}
         /\ \A k \in DOMAIN wire : wire'[k] = wire[k]
         /\ wire'[Len(wire) + 1] = c
         /\ FlushCalls' = FlushCalls \cup
              IF c.via = "flush" THEN {Len(wire) + 1} ELSE {}
<1>1. /\ Len(wire) \in Nat /\ DOMAIN wire = 1..Len(wire)
      /\ wire' \in Seq(Call) /\ Len(wire') = Len(wire) + 1
      /\ \A i \in 1..Len(wire) : wire'[i] = wire[i]
      /\ wire'[Len(wire) + 1] = c
  BY AppendProperties, LenProperties
<1>2. DOMAIN wire' = 1..Len(wire')
  BY <1>1, LenProperties
<1>3. 1..(Len(wire) + 1) = 1..Len(wire) \cup {Len(wire) + 1}
  BY <1>1
<1>4. QED
  BY <1>1, <1>2, <1>3 DEF FlushCalls

\* CallsOf is finite,
LEMMA FiniteCalls ==
  ASSUME wire \in Seq(Call), NEW i
  PROVE  /\ IsFiniteSet(CallsOf(i)) /\ Cardinality(CallsOf(i)) \in Nat
         /\ CallsOf(i) = {} <=> Cardinality(CallsOf(i)) = 0
<1>1. IsFiniteSet(1..Len(wire))
  BY LenProperties, FS_Interval
<1>2. CallsOf(i) \subseteq 1..Len(wire)
  BY LenProperties DEF CallsOf
<1>3. IsFiniteSet(CallsOf(i))
  BY <1>1, <1>2, FS_Subset
<1>4. QED
  BY <1>3, FS_CardinalityType, FS_EmptySet

\* and grows with the wire.
LEMMA CallsCounted ==
  ASSUME wire \in Seq(Call), NEW c \in Call, wire' = Append(wire, c), NEW i
  PROVE  /\ IsFiniteSet(CallsOf(i)) /\ Cardinality(CallsOf(i)) \in Nat
         /\ CallsOf(i) = {} <=> Cardinality(CallsOf(i)) = 0
         /\ CallsOf(i)' = CallsOf(i) \cup
              IF i \in Range(c.ids) THEN {Len(wire) + 1} ELSE {}
         /\ Cardinality(CallsOf(i)') = Cardinality(CallsOf(i)) +
              IF i \in Range(c.ids) THEN 1 ELSE 0
<1>1. /\ Len(wire) \in Nat /\ DOMAIN wire = 1..Len(wire)
      /\ DOMAIN wire' = DOMAIN wire \cup {Len(wire) + 1}
      /\ \A k \in DOMAIN wire : wire'[k] = wire[k]
      /\ wire'[Len(wire) + 1] = c
  BY CallRecorded
<1>2. /\ IsFiniteSet(CallsOf(i)) /\ Cardinality(CallsOf(i)) \in Nat
      /\ CallsOf(i) = {} <=> Cardinality(CallsOf(i)) = 0
  BY FiniteCalls
<1>3. CallsOf(i)' = CallsOf(i) \cup IF i \in Range(c.ids) THEN {Len(wire) + 1} ELSE {}
  BY <1>1 DEF CallsOf
<1>4. Len(wire) + 1 \notin CallsOf(i)
  BY <1>1 DEF CallsOf
<1>5. Cardinality(CallsOf(i) \cup {Len(wire) + 1}) = Cardinality(CallsOf(i)) + 1
  BY <1>2, <1>4, FS_AddElement
<1>6. CASE i \in Range(c.ids)
  BY <1>2, <1>3, <1>5, <1>6
<1>7. CASE i \notin Range(c.ids)
  BY <1>2, <1>3, <1>7
<1>8. QED
  BY <1>6, <1>7

LEMMA NothingCalled ==
  ASSUME UNCHANGED wire, NEW i
  PROVE  CallsOf(i)' = CallsOf(i) /\ FlushCalls' = FlushCalls
BY DEF CallsOf, FlushCalls

LEMMA TrackedUnchanged ==
  ASSUME Tracked, Contacted',
         UNCHANGED <<msgBuffer, flush, queued, nextId, wire>>,
         (pipePc = "fallback")' <=> pipePc = "fallback",
         \A h \in Sending' : h \in Sending /\ reqMsg'[h] = reqMsg[h]
  PROVE  Tracked'
<1>1. \A i : CallsOf(i)' = CallsOf(i)
  BY NothingCalled
<1>2. QueuedIds' = QueuedIds /\ Media' = Media /\ MediaIds' = MediaIds
  BY DEF QueuedIds, MediaIds, Media
<1>3. Accepted'
  BY <1>2 DEF Tracked, Accepted
<1>4. Called'
  <2>1. (\A k \in DOMAIN wire : \A i \in Range(wire[k].ids) : i < nextId)'
    BY DEF Tracked, Called
  <2>2. (\A h \in Sending : CallsOf(reqMsg[h].id) = {})'
    BY DEF Tracked, Called, CallsOf
  <2>3. (\A i \in IdSet(msgBuffer) : CallsOf(i) = {})'
    BY <1>1 DEF Tracked, Called
  <2>4. (\A j \in DOMAIN flush :
           Cardinality(CallsOf(flush[j].id)) =
             IF j = 1 /\ pipePc = "fallback" THEN 1 ELSE 0)'
    BY <1>1 DEF Tracked, Called
  <2>5. (pipePc = "fallback" => flush[1].kind # "text")'
    BY DEF Tracked, Called
  <2>6. (\A i \in Requests :
           Cardinality(CallsOf(i)) <= IF i \in MediaIds THEN 2 ELSE 1)'
    BY <1>1, <1>2 DEF Tracked, Called
  <2>7. QED
    BY <2>1, <2>2, <2>3, <2>4, <2>5, <2>6 DEF Called
<1>5. InAcceptOrder'
  BY NothingCalled DEF Tracked, InAcceptOrder
<1>6. NoMediaLost'
  BY <1>1, <1>2 DEF Tracked, NoMediaLost
<1>7. QED
  BY <1>3, <1>4, <1>5, <1>6 DEF Tracked

\* What waits was queued, and its id is smaller than those to come.
LEMMA WaitingWasQueued ==
  ASSUME Accepted, NEW i \in IdSet(msgBuffer) \cup IdSet(flush)
  PROVE  i \in QueuedIds /\ i < nextId
<1>1. PICK m \in queued : i = m.id
  BY DEF Accepted, IdSet, Buffered
<1>2. QED
  BY <1>1 DEF Accepted, QueuedIds

\* A call that is none of a flush: of a handler that is sending, or a reminder.
LEMMA OtherCall ==
  ASSUME IInv, Tracked, NEW c \in Call, wire' = Append(wire, c), c.via # "flush",
         UNCHANGED <<msgBuffer, flush, queued, nextId, pipePc, reqMsg,
                     lastContact, inHand, msgCh>>,
         Sending' \subseteq Sending,
         \A i \in Range(c.ids) : \E h \in Sending \ Sending' : i = reqMsg[h].id
  PROVE  Tracked'
<1>0. wire \in Seq(Call)
  BY DEF IInv, TypeOK
<1>1. /\ DOMAIN wire' = DOMAIN wire \cup {Len(wire) + 1}
      /\ \A k \in DOMAIN wire : wire'[k] = wire[k]
      /\ wire'[Len(wire) + 1] = c
      /\ FlushCalls' = FlushCalls
      /\ FlushCalls \subseteq DOMAIN wire
  BY <1>0, CallRecorded DEF FlushCalls
<1>2. \A i : i \notin Range(c.ids) => CallsOf(i)' = CallsOf(i)
  BY <1>0, CallsCounted
<1>3. QueuedIds' = QueuedIds /\ Media' = Media /\ MediaIds' = MediaIds
  BY DEF QueuedIds, MediaIds, Media
<1>4. Accepted'
  BY <1>3 DEF Tracked, Accepted
<1>5. \A i \in Range(c.ids) : i < nextId /\ i \notin QueuedIds /\ CallsOf(i) = {}
  BY DEF Tracked, Accepted, Called
<1>6. \A h \in Sending' : reqMsg[h].id \notin Range(c.ids)
  BY DEF Tracked, Accepted
<1>7. \A i \in IdSet(msgBuffer) \cup IdSet(flush) : i \notin Range(c.ids)
  BY <1>5, WaitingWasQueued DEF Tracked
<1>8. Called'
  <2>1. (\A k \in DOMAIN wire : \A i \in Range(wire[k].ids) : i < nextId)'
    BY <1>1, <1>5 DEF Tracked, Called
  <2>2. (\A h \in Sending : CallsOf(reqMsg[h].id) = {})'
    <3>1. SUFFICES ASSUME NEW h \in Sending' PROVE CallsOf(reqMsg[h].id)' = {}
      OBVIOUS
    <3>2. h \in Sending /\ reqMsg'[h].id = reqMsg[h].id
      OBVIOUS
    <3>3. CallsOf(reqMsg[h].id) = {}
      BY <3>2 DEF Tracked, Called
    <3>4. CallsOf(reqMsg[h].id)' = CallsOf(reqMsg[h].id)
      BY <1>2, <1>6 DEF CallsOf
    <3>5. QED
      BY <3>2, <3>3, <3>4
  <2>3. (\A i \in IdSet(msgBuffer) : CallsOf(i) = {})'
    BY <1>2, <1>7 DEF Tracked, Called
  <2>4. (\A j \in DOMAIN flush :
           Cardinality(CallsOf(flush[j].id)) =
             IF j = 1 /\ pipePc = "fallback" THEN 1 ELSE 0)'
    <3>1. SUFFICES ASSUME NEW j \in DOMAIN flush
                   PROVE  CallsOf(flush[j].id)' = CallsOf(flush[j].id)
      BY DEF Tracked, Called
    <3>2. flush[j].id \notin Range(c.ids)
      BY <1>7 DEF IdSet
    <3>3. QED
      BY <1>2, <3>2 DEF CallsOf
  <2>5. (pipePc = "fallback" => flush[1].kind # "text")'
    BY DEF Tracked, Called
  <2>6. (\A i \in Requests :
           Cardinality(CallsOf(i)) <= IF i \in MediaIds THEN 2 ELSE 1)'
    <3>1. SUFFICES ASSUME NEW i \in Requests
                   PROVE  Cardinality(CallsOf(i)') <= IF i \in MediaIds THEN 2 ELSE 1
      BY <1>3
    <3>2. CASE i \notin Range(c.ids)
      BY <1>2, <3>2 DEF Tracked, Called
    <3>3. CASE i \in Range(c.ids)
      <4>1. Cardinality(CallsOf(i)') = Cardinality(CallsOf(i)) + 1
        BY <1>0, <3>3, CallsCounted
      <4>2. Cardinality(CallsOf(i)) = 0
        BY <1>5, <3>3, FS_EmptySet
      <4>3. QED
        BY <4>1, <4>2
    <3>4. QED
      BY <3>2, <3>3
  <2>7. QED
    BY <2>1, <2>2, <2>3, <2>4, <2>5, <2>6 DEF Called
<1>9. InAcceptOrder'
  BY <1>1 DEF Tracked, InAcceptOrder
<1>10. NoMediaLost'
  <2>1. \A i : CallsOf(i) # {} => CallsOf(i)' # {}
    BY <1>0, CallsCounted
  <2>2. QED
    BY <1>3, <2>1 DEF Tracked, NoMediaLost
<1>11. Contacted'
  BY DEF Tracked, Contacted
<1>12. QED
  BY <1>4, <1>8, <1>9, <1>10, <1>11 DEF Tracked

LEMMA TrackedHandleSend ==
  ASSUME IInv, Tracked, NEW h \in Senders, NEW k \in Kinds,
         NEW u \in Users \cup {NoUser}, HandleSend(h, k, u)
  PROVE  Tracked'
<1>1. \A g \in Sending' : g \in Sending /\ reqMsg'[g] = reqMsg[g]
  BY DEF HandleSend, Sending, IInv, TypeOK
<1>2. Contacted'
  BY DEF HandleSend, clientVars, pipeVars, Tracked, Contacted
<1>3. QED
  BY <1>1, <1>2, TrackedUnchanged DEF HandleSend, managerVars, pipeVars

LEMMA TrackedFinishSend ==
  ASSUME IInv, Tracked, NEW h \in Senders, FinishSend(h)
  PROVE  Tracked'
<1> DEFINE c == [via |-> "direct", ids |-> <<reqMsg[h].id>>,
                 as |-> reqMsg[h].kind, to |-> reqMsg[h].to]
<1>1. reqMsg[h] \in Message
  BY DEF FinishSend, IInv
<1>2. c \in Call
  BY <1>1, BudgetAssumption DEF Message, Call
<1>3. Range(c.ids) = {reqMsg[h].id}
  BY DEF Range
<1>4. h \in Sending /\ Sending' = Sending \ {h}
  BY DEF FinishSend, Sending, IInv, TypeOK
<1>5. wire' = Append(wire, c) /\ c.via # "flush"
      /\ UNCHANGED <<msgBuffer, flush, queued, nextId, pipePc, reqMsg,
                     lastContact, inHand, msgCh>>
  BY DEF FinishSend, managerVars, clientVars, pipeVars
<1> HIDE DEF c
<1>6. QED
  BY <1>2, <1>3, <1>4, <1>5, OtherCall

LEMMA TrackedReminder ==
  ASSUME IInv, Tracked, NEW h \in Senders, sendBufferActivationReminder(h)
  PROVE  Tracked'
<1> DEFINE c == [via |-> "reminder", ids |-> <<>>, as |-> "text",
                 to |-> lastContact]
<1>1. Sending' = Sending
  BY DEF sendBufferActivationReminder, Sending, IInv, TypeOK
<1>2. UNCHANGED <<msgBuffer, flush, queued, nextId, pipePc, reqMsg,
                  lastContact, inHand, msgCh>>
  BY DEF sendBufferActivationReminder, managerVars, clientVars, pipeVars
<1>3. CASE lastContact = NoUser
  <2>1. UNCHANGED wire
    BY <1>3 DEF sendBufferActivationReminder
  <2>2. Contacted'
    BY <1>2 DEF Tracked, Contacted
  <2>3. QED
    BY <1>1, <1>2, <2>1, <2>2, TrackedUnchanged
<1>4. CASE lastContact # NoUser
  <2>1. c \in Call
    BY <1>4 DEF Call, MediaTypes, IInv, TypeOK
  <2>2. Range(c.ids) = {} /\ wire' = Append(wire, c) /\ c.via # "flush"
    BY <1>4 DEF Range, sendBufferActivationReminder
  <2> HIDE DEF c
  <2>3. QED
    BY <1>1, <1>2, <2>1, <2>2, OtherCall
<1>5. QED
  BY <1>3, <1>4

\* Every id that is recorded anywhere is a natural number.
LEMMA IdsAreNaturals ==
  ASSUME IInv
  PROVE  /\ \A m \in queued : m.id \in Nat
         /\ \A g \in Sending : reqMsg[g].id \in Nat
         /\ \A k \in DOMAIN wire : \A i \in Range(wire[k].ids) : i \in Nat
<1>1. \A m \in queued : m.id \in Nat
  BY DEF IInv, TypeOK, Message
<1>2. \A g \in Sending : reqMsg[g].id \in Nat
  BY DEF Sending, IInv, Message
<1>3. ASSUME NEW k \in DOMAIN wire
      PROVE  Range(wire[k].ids) \in SUBSET Nat
  <2>1. wire \in Seq(Call)
    BY DEF IInv, TypeOK
  <2>2. wire[k] \in Call
    BY <2>1, LenProperties, ElementOfSeq
  <2>3. QED
    BY <2>2, RangeOfSeq DEF Call
<1>4. QED
  BY <1>1, <1>2, <1>3

LEMMA TrackedSpend ==
  ASSUME IInv, Tracked, NEW h \in Senders, BudgetedSend(h),
         Spend(h, [reqMsg[h] EXCEPT !.id = nextId])
  PROVE  Tracked'
<1>1. /\ Sending' = Sending \cup {h} /\ h \notin Sending
      /\ reqMsg'[h].id = nextId
      /\ \A g \in Sending : reqMsg'[g] = reqMsg[g]
  BY DEF BudgetedSend, Spend, Sending, IInv, TypeOK, Message
<1>2. /\ UNCHANGED <<msgBuffer, flush, queued, wire, pipePc,
                     lastContact, inHand, msgCh>>
      /\ nextId' = nextId + 1 /\ nextId \in Nat
  BY DEF BudgetedSend, Spend, clientVars, pipeVars, IInv, TypeOK
<1>3. QueuedIds' = QueuedIds /\ Media' = Media /\ MediaIds' = MediaIds
  BY <1>2 DEF QueuedIds, MediaIds, Media
<1>4. nextId \notin QueuedIds /\ \A g \in Sending : reqMsg[g].id # nextId
  BY <1>2 DEF Tracked, Accepted, QueuedIds
<1>5. CallsOf(nextId) = {}
  BY <1>2 DEF Tracked, Called, CallsOf
<1>6. \A i : CallsOf(i)' = CallsOf(i)
  BY <1>2, NothingCalled
<1>7. /\ \A m \in queued : m.id \in Nat
      /\ \A g \in Sending : reqMsg[g].id \in Nat
      /\ \A k \in DOMAIN wire : \A i \in Range(wire[k].ids) : i \in Nat
  BY IdsAreNaturals
<1>10. Accepted'
  <2>1. (\A m \in queued : m.id < nextId)'
    BY <1>2, <1>7 DEF Tracked, Accepted
  <2>2. (\A g \in Sending : reqMsg[g].id < nextId /\ reqMsg[g].id \notin QueuedIds)'
    BY <1>1, <1>2, <1>3, <1>4, <1>7 DEF Tracked, Accepted
  <2>3. (\A f, g \in Sending : reqMsg[f].id = reqMsg[g].id => f = g)'
    BY <1>1, <1>4 DEF Tracked, Accepted
  <2>4. QED
    BY <1>2, <2>1, <2>2, <2>3 DEF Tracked, Accepted
<1>11. Called'
  <2>1. (\A k \in DOMAIN wire : \A i \in Range(wire[k].ids) : i < nextId)'
    BY <1>2, <1>7 DEF Tracked, Called
  <2>2. (\A g \in Sending : CallsOf(reqMsg[g].id) = {})'
    BY <1>1, <1>2, <1>5 DEF Tracked, Called, CallsOf
  <2>3. QED
    BY <1>2, <1>3, <1>6, <2>1, <2>2 DEF Tracked, Called, CallsOf
<1>12. InAcceptOrder'
  BY <1>2, NothingCalled DEF Tracked, InAcceptOrder
<1>13. NoMediaLost' /\ Contacted'
  BY <1>2, <1>3, <1>6 DEF Tracked, NoMediaLost, Contacted
<1>14. QED
  BY <1>10, <1>11, <1>12, <1>13 DEF Tracked

LEMMA TrackedEnterBuffer ==
  ASSUME IInv, Tracked, NEW h \in Senders, BudgetedSend(h),
         EnterBuffer(h, [reqMsg[h] EXCEPT !.id = nextId])
  PROVE  Tracked'
<1> DEFINE m == [reqMsg[h] EXCEPT !.id = nextId]
<1>1. m \in Message /\ m.id = nextId /\ nextId \in Nat
  BY DEF BudgetedSend, IInv, TypeOK, Message
<1>2. /\ Sending' = Sending
      /\ \A g \in Sending : reqMsg'[g] = reqMsg[g]
  BY DEF BudgetedSend, EnterBuffer, Sending, IInv, TypeOK
<1>3. /\ UNCHANGED <<flush, wire, pipePc, lastContact, inHand, msgCh>>
      /\ nextId' = nextId + 1
      /\ msgBuffer' = bufferMessageLocked(msgBuffer, Buffered(m))
      /\ queued' = IF nextId \in IdSet(msgBuffer') THEN queued \cup {m} ELSE queued
  BY <1>1 DEF BudgetedSend, EnterBuffer, clientVars, pipeVars
<1> HIDE DEF m
<1>4. /\ \A n \in queued : n.id \in Nat
      /\ \A g \in Sending : reqMsg[g].id \in Nat
      /\ \A k \in DOMAIN wire : \A i \in Range(wire[k].ids) : i \in Nat
  BY IdsAreNaturals
<1>5. /\ msgBuffer \in Seq(BufferedMessage) /\ flush \in Seq(BufferedMessage)
      /\ maxBuffer \in Nat \ {0}
      /\ Buffered(m) \in BufferedMessage /\ Buffered(m).id = nextId
  BY <1>1 DEF IInv, TypeOK, Message, Buffered, BufferedMessage
<1>6. /\ \A i \in DOMAIN msgBuffer : msgBuffer[i].id < nextId
      /\ \A i \in DOMAIN flush : flush[i].id < nextId
  BY WaitingWasQueued DEF Tracked, IdSet
<1>7. /\ \A j \in DOMAIN msgBuffer' :
           \/ msgBuffer'[j] = Buffered(m)
           \/ \E i \in DOMAIN msgBuffer : msgBuffer'[j] = msgBuffer[i]
      /\ \A i \in DOMAIN msgBuffer : msgBuffer[i].kind # "text" =>
           \E j \in DOMAIN msgBuffer' : msgBuffer'[j] = msgBuffer[i]
      /\ Increasing(Ids(msgBuffer'))
  BY <1>3, <1>5, <1>6, BufferContents DEF Tracked, InAcceptOrder
<1>8. /\ \A i \in IdSet(msgBuffer') : i = nextId \/ i \in IdSet(msgBuffer)
      /\ \A j \in DOMAIN msgBuffer' : msgBuffer'[j] = Buffered(m) => nextId \in IdSet(msgBuffer')
  BY <1>5, <1>7 DEF IdSet
<1>9. nextId \notin QueuedIds /\ \A g \in Sending : reqMsg[g].id # nextId
  BY <1>4 DEF Tracked, Accepted, QueuedIds
<1>10. CallsOf(nextId) = {}
  BY <1>4 DEF Tracked, Called, CallsOf
<1>11. \A i : CallsOf(i)' = CallsOf(i)
  BY <1>3, NothingCalled
<1>12. /\ queued \subseteq queued' /\ queued' \subseteq queued \cup {m}
       /\ MediaIds \subseteq MediaIds' /\ QueuedIds' \subseteq QueuedIds \cup {nextId}
  BY <1>1, <1>3 DEF QueuedIds, MediaIds, Media
<1>13. Accepted'
  <2>1. (\A n \in queued : n.id < nextId)'
    BY <1>1, <1>3, <1>4, <1>12 DEF Tracked, Accepted
  <2>2. (\A n, o \in queued : n.id = o.id => n = o)'
    BY <1>1, <1>9, <1>12 DEF Tracked, Accepted, QueuedIds
  <2>3. ASSUME NEW j \in DOMAIN msgBuffer'
        PROVE  \E n \in queued' : msgBuffer'[j] = Buffered(n)
    <3>1. CASE msgBuffer'[j] = Buffered(m)
      BY <1>3, <1>8, <3>1
    <3>2. CASE msgBuffer'[j] # Buffered(m)
      BY <1>7, <1>12, <3>2 DEF Tracked, Accepted
    <3>3. QED
      BY <3>1, <3>2
  <2>4. (\A i \in DOMAIN flush : \E n \in queued : flush[i] = Buffered(n))'
    BY <1>3, <1>12 DEF Tracked, Accepted
  <2>5. (\A g \in Sending : reqMsg[g].id < nextId /\ reqMsg[g].id \notin QueuedIds)'
    BY <1>1, <1>2, <1>3, <1>4, <1>9, <1>12 DEF Tracked, Accepted
  <2>6. (\A f, g \in Sending : reqMsg[f].id = reqMsg[g].id => f = g)'
    BY <1>2 DEF Tracked, Accepted
  <2>7. QED
    BY <2>1, <2>2, <2>3, <2>4, <2>5, <2>6 DEF Accepted, Buffered
<1>14. Called'
  <2>1. (\A k \in DOMAIN wire : \A i \in Range(wire[k].ids) : i < nextId)'
    BY <1>1, <1>3, <1>4 DEF Tracked, Called
  <2>2. (\A g \in Sending : CallsOf(reqMsg[g].id) = {})'
    BY <1>2, <1>3 DEF Tracked, Called, CallsOf
  <2>3. (\A i \in IdSet(msgBuffer) : CallsOf(i) = {})'
    BY <1>8, <1>10, <1>11 DEF Tracked, Called
  <2>4. (\A j \in DOMAIN flush :
           Cardinality(CallsOf(flush[j].id)) =
             IF j = 1 /\ pipePc = "fallback" THEN 1 ELSE 0)'
    BY <1>3 DEF Tracked, Called, CallsOf
  <2>5. (pipePc = "fallback" => flush[1].kind # "text")'
    BY <1>3 DEF Tracked, Called
  <2>6. (\A i \in Requests :
           Cardinality(CallsOf(i)) <= IF i \in MediaIds THEN 2 ELSE 1)'
    <3>1. SUFFICES ASSUME NEW i \in Requests
                   PROVE  Cardinality(CallsOf(i)) <= IF i \in MediaIds' THEN 2 ELSE 1
      BY <1>11
    <3>2. Cardinality(CallsOf(i)) \in Nat
      BY FiniteCalls DEF IInv, TypeOK
    <3>3. Cardinality(CallsOf(i)) <= IF i \in MediaIds THEN 2 ELSE 1
      BY DEF Tracked, Called
    <3>4. QED
      BY <1>12, <3>2, <3>3
  <2>7. QED
    BY <2>1, <2>2, <2>3, <2>4, <2>5, <2>6 DEF Called
<1>15. InAcceptOrder'
  <2>1. FlushCalls' = FlushCalls /\ FlushCalls \subseteq DOMAIN wire
    BY <1>3, NothingCalled DEF FlushCalls
  <2>2. \A i \in IdSet(flush), j \in IdSet(msgBuffer') : i < j
    BY <1>6, <1>8 DEF Tracked, InAcceptOrder, IdSet
  <2>3. \A k \in FlushCalls :
          NoneAfter(Range(wire[k].ids), IdSet(flush) \cup IdSet(msgBuffer'))
    <3>1. \A k \in FlushCalls : \A i \in Range(wire[k].ids) : i <= nextId
      BY <1>1, <1>4, <2>1 DEF Tracked, Called
    <3>2. QED
      BY <1>8, <3>1 DEF Tracked, InAcceptOrder, NoneAfter
  <2>4. Increasing(Ids(flush)) /\ \A k \in FlushCalls :
          /\ Increasing(wire[k].ids)
          /\ \A l \in FlushCalls :
               k < l => NoneAfter(Range(wire[k].ids), Range(wire[l].ids))
    BY DEF Tracked, InAcceptOrder
  <2>5. flush' = flush /\ wire' = wire
    BY <1>3
  <2>6. QED
    BY ONLY <1>7, <2>1, <2>2, <2>3, <2>4, <2>5 DEF InAcceptOrder, IdSet
<1>16. NoMediaLost'
  <2>1. SUFFICES ASSUME NEW n \in Media'
                 PROVE  \/ n.id \in IdSet(msgBuffer') \cup IdSet(flush)
                        \/ CallsOf(n.id) # {}
    BY <1>3, <1>11 DEF NoMediaLost
  <2>2. CASE n \notin queued
    BY <1>1, <1>3, <2>2 DEF Media
  <2>3. CASE n \in queued
    <3>1. n \in Media
      BY <2>3 DEF Media
    <3>2. SUFFICES ASSUME n.id \in IdSet(msgBuffer) PROVE n.id \in IdSet(msgBuffer')
      BY <3>1 DEF Tracked, NoMediaLost
    <3>3. PICK i \in DOMAIN msgBuffer : msgBuffer[i].id = n.id
      BY <3>2 DEF IdSet
    <3>4. PICK o \in queued : msgBuffer[i] = Buffered(o)
      BY DEF Tracked, Accepted
    <3>5. o = n
      BY <2>3, <3>3, <3>4 DEF Tracked, Accepted, Buffered
    <3>6. msgBuffer[i].kind # "text"
      BY <3>1, <3>4, <3>5 DEF Media, Buffered
    <3>7. QED
      BY <1>7, <3>3, <3>6 DEF IdSet
  <2>4. QED
    BY <2>2, <2>3
<1>17. Contacted'
  BY <1>3 DEF Tracked, Contacted
<1>18. QED
  BY <1>13, <1>14, <1>15, <1>16, <1>17 DEF Tracked

\* Outside buffer mode the reset finds the buffer empty, so it always collects
\* all there is.
LEMMA ResetEmptiesBuffer ==
  ASSUME IInv, OnUserMessage
  PROVE  msgBuffer' = <<>> /\ flush' = msgBuffer /\ flush = <<>>
<1>1. CASE shouldFlush(Head(msgCh).slash)
  BY <1>1 DEF OnUserMessage, collectFlushLocked, IInv
<1>2. CASE ~shouldFlush(Head(msgCh).slash)
  <2>1. msgBuffer # <<>> => Len(msgBuffer) > 0
    BY EmptySeq DEF IInv, TypeOK
  <2>2. msgBuffer = <<>>
    BY <1>2, <2>1 DEF shouldFlush, IInv, BufferModeIffBuffered
  <2>3. QED
    BY <1>2, <2>2 DEF OnUserMessage, IInv
<1>3. QED
  BY <1>1, <1>2

\* All that was buffered moves to flush, where nothing was.
LEMMA TrackedOnUserMessage ==
  ASSUME IInv, Tracked, OnUserMessage
  PROVE  Tracked'
<1>1. flush = <<>> /\ pipePc = "idle"
  BY DEF OnUserMessage, IInv
<1>2. /\ msgBuffer' = <<>> /\ flush' = msgBuffer
      /\ pipePc' # "fallback"
  BY ResetEmptiesBuffer DEF OnUserMessage
<1>3. /\ UNCHANGED <<nextId, queued, wire, reqPc, reqMsg, lastContact>>
      /\ msgCh # <<>>
  BY DEF OnUserMessage, reqVars
<1>4. /\ QueuedIds' = QueuedIds /\ Media' = Media /\ MediaIds' = MediaIds
      /\ Sending' = Sending
  BY <1>3 DEF QueuedIds, MediaIds, Media, Sending
<1>5. \A i : CallsOf(i)' = CallsOf(i)
  BY <1>3, NothingCalled
<1>6. IdSet(flush') = IdSet(msgBuffer) /\ IdSet(msgBuffer') = {} /\ IdSet(flush) = {}
  BY <1>1, <1>2 DEF IdSet
<1>7. Accepted'
  BY <1>2, <1>3, <1>4 DEF Tracked, Accepted
<1>8. Called'
  <2>1. (\A h \in Sending : CallsOf(reqMsg[h].id) = {})'
    BY <1>3, <1>4 DEF Tracked, Called, CallsOf
  <2>2. (\A j \in DOMAIN flush :
           Cardinality(CallsOf(flush[j].id)) =
             IF j = 1 /\ pipePc = "fallback" THEN 1 ELSE 0)'
    <3>1. SUFFICES ASSUME NEW j \in DOMAIN msgBuffer
                   PROVE  Cardinality(CallsOf(msgBuffer[j].id)) = 0
      BY <1>2, <1>3 DEF CallsOf
    <3>2. CallsOf(msgBuffer[j].id) = {}
      BY DEF Tracked, Called, IdSet
    <3>3. QED
      BY <3>2, FS_EmptySet
  <2>3. QED
    BY <1>2, <1>3, <1>4, <1>5, <1>6, <2>1, <2>2 DEF Tracked, Called
<1>9. InAcceptOrder'
  <2>1. Increasing(Ids(msgBuffer'))
    BY <1>2 DEF Increasing, Ids
  <2>2. FlushCalls' = FlushCalls
    BY <1>3, NothingCalled
  <2>3. QED
    BY <1>2, <1>3, <1>6, <2>1, <2>2 DEF Tracked, InAcceptOrder
<1>10. NoMediaLost'
  BY <1>4, <1>5, <1>6 DEF Tracked, NoMediaLost
<1>11. Contacted'
  BY <1>3 DEF Tracked, Contacted
<1>12. QED
  BY <1>7, <1>8, <1>9, <1>10, <1>11 DEF Tracked

\* What a flushing step leaves: everything behind the n messages sent, or all
\* of it when the one sent is to be tried again.
LEMMA LeftOfFlush ==
  ASSUME IInv, NEW n \in 1..Len(flush), Flushed(n)
  PROVE  /\ flush' \in Seq(BufferedMessage) /\ Len(flush') = Len(flush) - n
         /\ \A j \in 1..Len(flush') : flush'[j] = flush[n + j]
         /\ pipePc' \in {"idle", "flushing"}
<1>1. flush \in Seq(BufferedMessage) /\ Len(flush) \in Nat
  BY LenProperties DEF IInv, TypeOK
<1>2. \A j \in (n+1)..Len(flush) : flush[j] \in BufferedMessage
  BY <1>1, ElementOfSeq
<1>3. /\ SubSeq(flush, n+1, Len(flush)) \in Seq(BufferedMessage)
      /\ Len(SubSeq(flush, n+1, Len(flush))) =
           IF n+1 <= Len(flush) THEN Len(flush)-(n+1)+1 ELSE 0
      /\ \A j \in 1..(Len(flush)-(n+1)+1) :
           SubSeq(flush, n+1, Len(flush))[j] = flush[(n+1)+j-1]
  BY <1>1, <1>2, SubSeqProperties
<1>4. flush' = SubSeq(flush, n+1, Len(flush)) /\ pipePc' \in {"idle", "flushing"}
  BY DEF Flushed
<1>5. Len(flush') = Len(flush) - n
  BY <1>1, <1>3, <1>4
<1>6. Len(flush)-(n+1)+1 = Len(flush) - n /\ \A j \in 1..(Len(flush) - n) : (n+1)+j-1 = n + j
  BY <1>1
<1>7. QED
  BY <1>3, <1>4, <1>5, <1>6

LEMMA TrackedFlush ==
  ASSUME IInv, Tracked, pipePc \in {"flushing", "fallback"},
         NEW n \in 1..Len(flush), pipePc = "fallback" => n = 1,
         NEW ids \in Seq(Nat), NEW kind \in MediaTypes, FlushCall(ids, kind),
         Increasing(ids), Range(ids) = {flush[i].id : i \in 1..n},
         \/ Flushed(n)
         \/ /\ n = 1 /\ flush[1].kind # "text"
            /\ pipePc = "flushing" /\ pipePc' = "fallback" /\ UNCHANGED flush,
         UNCHANGED <<managerVars, clientVars, reqVars>>
  PROVE  Tracked'
<1> DEFINE c == [via |-> "flush", ids |-> ids, as |-> kind, to |-> flushTo]
<1>1. wire \in Seq(Call) /\ c \in Call /\ wire' = Append(wire, c)
      /\ c.ids = ids /\ c.via = "flush"
  BY DEF Call, FlushCall, IInv, TypeOK
<1> HIDE DEF c
<1>2. /\ Len(wire) \in Nat /\ DOMAIN wire = 1..Len(wire)
      /\ DOMAIN wire' = DOMAIN wire \cup {Len(wire) + 1}
      /\ \A k \in DOMAIN wire : wire'[k] = wire[k]
      /\ wire'[Len(wire) + 1] = c
      /\ FlushCalls' = FlushCalls \cup {Len(wire) + 1}
      /\ FlushCalls \subseteq DOMAIN wire
  BY <1>1, CallRecorded DEF FlushCalls
<1>3. \A i : /\ Cardinality(CallsOf(i)) \in Nat
             /\ i \notin Range(ids) => CallsOf(i)' = CallsOf(i)
             /\ i \in Range(ids) => CallsOf(i)' # {}
                     /\ Cardinality(CallsOf(i)') = Cardinality(CallsOf(i)) + 1
  BY <1>1, CallsCounted
<1>4. UNCHANGED <<msgBuffer, queued, nextId, reqPc, reqMsg, lastContact, inHand, msgCh>>
  BY DEF managerVars, clientVars, reqVars
<1>5. /\ QueuedIds' = QueuedIds /\ Media' = Media /\ MediaIds' = MediaIds
      /\ Sending' = Sending
  BY <1>4 DEF QueuedIds, MediaIds, Media, Sending
<1>6. /\ flush \in Seq(BufferedMessage) /\ Len(flush) \in Nat
      /\ DOMAIN flush = 1..Len(flush)
      /\ \A i, j \in 1..Len(flush) : i < j => flush[i].id < flush[j].id
      /\ \A i \in 1..Len(flush) : flush[i].id \in Nat
  <2>1. flush \in Seq(BufferedMessage)
    BY DEF IInv, TypeOK
  <2>2. \A i \in 1..Len(flush) : flush[i] \in BufferedMessage
    BY <2>1, ElementOfSeq
  <2>3. QED
    BY <2>1, <2>2, LenProperties, IncreasingIds
       DEF Tracked, InAcceptOrder, BufferedMessage
<1>7. \A i \in Range(ids) : i \in IdSet(flush) /\ i \in QueuedIds /\ i < nextId
  BY <1>6, WaitingWasQueued DEF IdSet, Tracked
\* every message left was behind those sent, or none left
<1>8. /\ flush' \in Seq(BufferedMessage) /\ DOMAIN flush' = 1..Len(flush')
      /\ Len(flush') \in Nat
      /\ \A i, j \in 1..Len(flush') : i < j => flush'[i].id < flush'[j].id
      /\ \A j \in 1..Len(flush') : \E i \in DOMAIN flush : flush'[j] = flush[i]
      /\ \A i \in Range(ids), j \in IdSet(flush') : i <= j
      /\ \A j \in 1..Len(flush') : \A i : i = flush'[j].id =>
           Cardinality(CallsOf(i)') =
             IF j = 1 /\ pipePc' = "fallback" THEN 1 ELSE 0
      /\ \A i \in IdSet(flush) : i \in Range(ids) \cup IdSet(flush')
      /\ pipePc' = "fallback" => flush'[1].kind # "text"
  <2>1. \A j \in 1..Len(flush) :
          Cardinality(CallsOf(flush[j].id)) =
             IF j = 1 /\ pipePc = "fallback" THEN 1 ELSE 0
    BY <1>6 DEF Tracked, Called
  <2>2. CASE Flushed(n)
    <3>1. /\ flush' \in Seq(BufferedMessage) /\ Len(flush') = Len(flush) - n
          /\ \A j \in 1..Len(flush') : flush'[j] = flush[n + j]
          /\ pipePc' \in {"idle", "flushing"}
      BY <2>2, LeftOfFlush
    <3>2. DOMAIN flush' = 1..Len(flush') /\ Len(flush') \in Nat
      BY <3>1, LenProperties
    <3>3. \A j \in 1..Len(flush') : n + j \in 1..Len(flush) /\ n + j # 1
      BY <1>6, <3>1, <3>2
    <3>4. \A i, j \in 1..Len(flush') : i < j => flush'[i].id < flush'[j].id
      BY <1>6, <3>1, <3>3
    <3>5. ASSUME NEW i \in 1..n, NEW j \in 1..Len(flush')
          PROVE  flush[i].id < flush'[j].id
      <4>1. i \in 1..Len(flush) /\ i < n + j
        BY <1>6, <3>2
      <4>2. QED
        BY <1>6, <3>1, <3>3, <4>1
    <3>6. \A j \in 1..Len(flush') : flush'[j].id \notin Range(ids) /\ flush'[j].id \in Nat
      BY <1>6, <3>1, <3>3, <3>5
    <3>7. ASSUME NEW j \in 1..Len(flush'), NEW i, i = flush'[j].id
          PROVE  Cardinality(CallsOf(i)') = 0
      <4>0. i \notin Range(ids) /\ i = flush[n + j].id
        BY <3>1, <3>6, <3>7
      <4>1. Cardinality(CallsOf(i)) = 0
        BY <2>1, <3>3, <4>0
      <4>2. CallsOf(i)' = CallsOf(i)
        BY <1>3, <4>0
      <4>3. QED
        BY <4>1, <4>2
    <3>8. ASSUME NEW i \in 1..Len(flush), flush[i].id \notin Range(ids)
          PROVE  flush[i].id \in IdSet(flush')
      <4>1. ~(i <= n)
        BY <3>8
      <4>2. i - n \in 1..Len(flush') /\ n + (i - n) = i
        BY <1>6, <3>1, <3>2, <4>1
      <4>3. flush'[i - n] = flush[i]
        BY <3>1, <4>2
      <4>4. QED
        BY <3>2, <4>2, <4>3 DEF IdSet
    <3>9. \A i \in Range(ids), j \in IdSet(flush') : i <= j
      BY <1>6, <3>2, <3>5, <3>6 DEF IdSet
    <3>10. \A i \in IdSet(flush) : i \in Range(ids) \cup IdSet(flush')
      BY <1>6, <3>8 DEF IdSet
    <3>11. QED
      BY <1>6, <3>1, <3>2, <3>3, <3>4, <3>7, <3>9, <3>10
  <2>3. CASE /\ n = 1 /\ flush[1].kind # "text"
             /\ pipePc = "flushing" /\ pipePc' = "fallback" /\ UNCHANGED flush
    <3>1. Range(ids) = {flush[1].id}
      BY <2>3
    <3>2. ASSUME NEW j \in 1..Len(flush), j # 1
          PROVE  flush[1].id < flush[j].id /\ flush[j].id \notin Range(ids)
      <4>1. 1 \in 1..Len(flush) /\ 1 < j
        BY <1>6, <3>2
      <4>2. flush[1].id < flush[j].id /\ flush[1].id \in Nat /\ flush[j].id \in Nat
        BY <1>6, <4>1
      <4>3. flush[1].id # flush[j].id
        BY <4>2
      <4>4. QED
        BY <3>1, <4>2, <4>3
    <3>3. ASSUME NEW j \in 1..Len(flush), NEW i, i = flush[j].id
          PROVE  Cardinality(CallsOf(i)') = IF j = 1 THEN 1 ELSE 0
      <4>1. Cardinality(CallsOf(i)) = 0
        BY <2>1, <2>3, <3>3
      <4>2. CASE j = 1
        BY <1>3, <3>1, <3>3, <4>1, <4>2
      <4>3. CASE j # 1
        <5>1. i \notin Range(ids)
          BY <3>2, <3>3, <4>3
        <5>2. CallsOf(i)' = CallsOf(i)
          BY <1>3, <5>1
        <5>3. QED
          BY <4>1, <4>3, <5>2
      <4>4. QED
        BY <4>2, <4>3
    <3>4. ASSUME NEW j \in 1..Len(flush) PROVE flush[1].id <= flush[j].id
      <4>1. 1 \in 1..Len(flush)
        BY <1>6
      <4>2. flush[1].id \in Nat /\ flush[j].id \in Nat
        BY <1>6, <4>1
      <4>3. QED
        BY <3>2, <4>2
    <3>5. flush' = flush /\ pipePc' = "fallback" /\ flush[1].kind # "text"
      BY <2>3
    <3>6. \A i \in Range(ids), j \in IdSet(flush') : i <= j
      BY <1>6, <3>1, <3>4, <3>5 DEF IdSet
    <3>7. \A j \in 1..Len(flush') : \E i \in DOMAIN flush : flush'[j] = flush[i]
      BY <1>6, <3>5
    <3>8. QED
      BY <1>6, <3>3, <3>5, <3>6, <3>7
  <2>4. QED
    BY <2>2, <2>3
<1>9. IdSet(flush') \subseteq IdSet(flush)
  BY <1>8 DEF IdSet
<1>10. \A i \in IdSet(msgBuffer) : i \notin Range(ids)
  <2>1. \A i \in Range(ids) : i \in Nat /\ i \in IdSet(flush)
    BY <1>6, <1>7
  <2>2. \A i \in IdSet(flush), j \in IdSet(msgBuffer) : i < j
    BY DEF Tracked, InAcceptOrder
  <2>3. SUFFICES ASSUME NEW i \in IdSet(msgBuffer), i \in Range(ids) PROVE FALSE
    OBVIOUS
  <2>4. i \in Nat /\ i < i
    BY <2>1, <2>2, <2>3
  <2>5. QED
    BY <2>4
<1>11. Accepted'
  BY <1>4, <1>5, <1>8 DEF Tracked, Accepted
<1>12. Called'
  <2>1. (\A k \in DOMAIN wire : \A i \in Range(wire[k].ids) : i < nextId)'
    BY <1>1, <1>2, <1>4, <1>7 DEF Tracked, Called
  <2>2. (\A h \in Sending : CallsOf(reqMsg[h].id) = {})'
    <3>1. SUFFICES ASSUME NEW h \in Sending PROVE CallsOf(reqMsg[h].id)' = {}
      BY <1>5
    <3>2. reqMsg[h].id \notin Range(ids) /\ reqMsg'[h] = reqMsg[h]
      BY <1>4, <1>7 DEF Tracked, Accepted
    <3>3. CallsOf(reqMsg[h].id) = {}
      BY DEF Tracked, Called
    <3>4. QED
      BY <1>3, <3>2, <3>3 DEF CallsOf
  <2>3. (\A i \in IdSet(msgBuffer) : CallsOf(i) = {})'
    BY <1>3, <1>4, <1>10 DEF Tracked, Called
  <2>4. (\A j \in DOMAIN flush :
           Cardinality(CallsOf(flush[j].id)) =
             IF j = 1 /\ pipePc = "fallback" THEN 1 ELSE 0)'
    BY <1>8 DEF CallsOf
  <2>5. (pipePc = "fallback" => flush[1].kind # "text")'
    BY <1>8
  <2>6. ASSUME NEW i \in Requests
        PROVE  Cardinality(CallsOf(i)') <= IF i \in MediaIds' THEN 2 ELSE 1
    <3>1. CASE i \notin Range(ids)
      BY <1>3, <1>5, <3>1 DEF Tracked, Called
    <3>2. CASE i \in Range(ids)
      <4>1. PICK j \in 1..n : i = flush[j].id
        BY <3>2
      <4>2. j \in DOMAIN flush
        BY <1>6
      <4>3. Cardinality(CallsOf(i)) = IF j = 1 /\ pipePc = "fallback" THEN 1 ELSE 0
        BY <4>1, <4>2 DEF Tracked, Called
      <4>4. j = 1 /\ pipePc = "fallback" => i \in MediaIds
        <5>1. PICK m \in queued : flush[j] = Buffered(m)
          BY <4>2 DEF Tracked, Accepted
        <5>2. j = 1 /\ pipePc = "fallback" => m.kind # "text" /\ m.id = i
          BY <4>1, <5>1 DEF Tracked, Called, Buffered
        <5>3. QED
          BY <5>2 DEF MediaIds, Media
      <4>5. Cardinality(CallsOf(i)') = Cardinality(CallsOf(i)) + 1
        BY <1>3, <3>2
      <4>6. QED
        BY <1>5, <4>3, <4>4, <4>5
    <3>3. QED
      BY <3>1, <3>2
  <2>7. QED
    BY <2>1, <2>2, <2>3, <2>4, <2>5, <2>6 DEF Called
<1>13. InAcceptOrder'
  <2> DEFINE l == Len(wire) + 1
  <2>1. Increasing(Ids(flush')) /\ Increasing(Ids(msgBuffer'))
    BY <1>4, <1>8, IncreasingIds DEF Tracked, InAcceptOrder
  <2>2. \A i \in IdSet(flush'), j \in IdSet(msgBuffer') : i < j
    BY <1>4, <1>9 DEF Tracked, InAcceptOrder
  <2>3. wire'[l].ids = ids /\ \A k \in FlushCalls : wire'[k] = wire[k] /\ k < l
    BY <1>1, <1>2
  <2>4. NoneAfter(Range(ids), IdSet(flush') \cup IdSet(msgBuffer'))
    <3>1. \A i \in IdSet(flush), j \in IdSet(msgBuffer) : i <= j
      <4>1. \A i \in IdSet(flush) : i \in Nat
        BY <1>6 DEF IdSet
      <4>2. msgBuffer \in Seq(BufferedMessage)
        BY DEF IInv, TypeOK
      <4>3. \A j \in IdSet(msgBuffer) : j \in Nat
        <5>1. \A j \in DOMAIN msgBuffer : msgBuffer[j] \in BufferedMessage
          BY <4>2, LenProperties, ElementOfSeq
        <5>2. QED
          BY <5>1 DEF IdSet, BufferedMessage
      <4>4. QED
        BY <4>1, <4>3 DEF Tracked, InAcceptOrder
    <3>2. QED
      BY <1>4, <1>7, <1>8, <3>1 DEF NoneAfter
  <2>5. ASSUME NEW k \in FlushCalls
        PROVE  /\ Increasing(wire[k].ids)
               /\ NoneAfter(Range(wire[k].ids), IdSet(flush') \cup IdSet(msgBuffer'))
               /\ NoneAfter(Range(wire[k].ids), Range(ids))
               /\ \A o \in FlushCalls :
                    k < o => NoneAfter(Range(wire[k].ids), Range(wire[o].ids))
    BY <1>4, <1>7, <1>9 DEF Tracked, InAcceptOrder, NoneAfter
  <2>6. ASSUME NEW k \in FlushCalls'
        PROVE  /\ Increasing(wire'[k].ids)
               /\ NoneAfter(Range(wire'[k].ids), IdSet(flush') \cup IdSet(msgBuffer'))
               /\ \A o \in FlushCalls' :
                    k < o => NoneAfter(Range(wire'[k].ids), Range(wire'[o].ids))
    <3>1. CASE k \in FlushCalls
      BY <1>2, <2>3, <2>5, <3>1
    <3>2. CASE k = l
      <4>1. \A o \in FlushCalls' : ~(k < o)
        BY <1>2, <3>2
      <4>2. QED
        BY <2>3, <2>4, <3>2, <4>1
    <3>3. QED
      BY <1>2, <3>1, <3>2
  <2>7. QED
    BY <2>1, <2>2, <2>6 DEF InAcceptOrder, IdSet
<1>14. NoMediaLost'
  <2>1. SUFFICES ASSUME NEW m \in Media
                 PROVE  \/ m.id \in IdSet(msgBuffer) \cup IdSet(flush')
                        \/ CallsOf(m.id)' # {}
    BY <1>4, <1>5 DEF NoMediaLost, IdSet
  <2>2. m.id \in IdSet(msgBuffer) \cup IdSet(flush) \/ CallsOf(m.id) # {}
    BY DEF Tracked, NoMediaLost
  <2>3. QED
    BY <1>3, <1>8, <2>2
<1>15. Contacted'
  <2>1. pipePc' # "collected"
    BY LeftOfFlush
  <2>2. QED
    BY <1>4, <2>1 DEF Tracked, Contacted
<1>16. QED
  BY <1>11, <1>12, <1>13, <1>14, <1>15 DEF Tracked

LEMMA TrackedFlushText ==
  ASSUME IInv, Tracked, FlushText
  PROVE  Tracked'
<1> DEFINE n == Cardinality(TextRun(flush))
           s == SubSeq(flush, 1, n)
<1>1. /\ flush \in Seq(BufferedMessage) /\ Len(flush) \in Nat
      /\ \A i, j \in 1..Len(flush) : i < j => flush[i].id < flush[j].id
  BY LenProperties, IncreasingIds DEF IInv, TypeOK, Tracked, InAcceptOrder
<1>2. n \in 1..Len(flush)
  BY <1>1, TextRunFacts DEF FlushText
<1> HIDE DEF n
<1>3. \A j \in 1..n : j \in 1..Len(flush) /\ flush[j] \in BufferedMessage
  BY <1>1, <1>2, ElementOfSeq
<1>4. /\ s \in Seq(BufferedMessage) /\ Len(s) = n
      /\ \A j \in 1..n : s[j] = flush[j]
  <2>1. /\ s \in Seq(BufferedMessage)
        /\ Len(s) = IF 1 <= n THEN n - 1 + 1 ELSE 0
        /\ \A j \in 1..(n - 1 + 1) : s[j] = flush[1 + j - 1]
    BY <1>2, <1>3, SubSeqProperties
  <2> HIDE DEF s
  <2>2. n - 1 + 1 = n /\ 1 <= n /\ \A j \in 1..n : 1 + j - 1 = j
    BY <1>2
  <2>3. QED
    BY <2>1, <2>2
<1> HIDE DEF s
<1>5. DOMAIN s = 1..n
  BY <1>4, LenProperties
<1>6. Increasing(Ids(s))
  BY <1>1, <1>3, <1>4, IncreasingIds
<1>7. Range(Ids(s)) = {flush[i].id : i \in 1..n}
  BY <1>4, <1>5 DEF Range, Ids
<1>8. Ids(s) \in Seq(Nat) /\ "text" \in MediaTypes
  BY <1>1, <1>2, RestOfFlush DEF s, MediaTypes
<1>9. /\ pipePc = "flushing" /\ FlushCall(Ids(s), "text") /\ Flushed(n)
      /\ UNCHANGED <<managerVars, clientVars, reqVars>>
  BY DEF FlushText, s, n
<1>10. QED
  BY <1>2, <1>6, <1>7, <1>8, <1>9, TrackedFlush

\* The next medium is a call of its own.
LEMMA MediumAlone ==
  ASSUME IInv, pipePc # "idle"
  PROVE  /\ 1 \in 1..Len(flush) /\ <<flush[1].id>> \in Seq(Nat)
         /\ flush[1].kind \in MediaTypes
         /\ Increasing(<<flush[1].id>>)
         /\ Range(<<flush[1].id>>) = {flush[i].id : i \in 1..1}
<1>1. 1 \in 0..Len(flush) /\ <<flush[1].id>> \in Seq(Nat) /\ flush[1].kind \in MediaTypes
  BY NextMedium
<1>2. Increasing(<<flush[1].id>>)
  BY DEF Increasing
<1>3. Range(<<flush[1].id>>) = {flush[i].id : i \in 1..1}
  BY DEF Range
<1>4. QED
  BY <1>1, <1>2, <1>3

LEMMA TrackedFlushFile ==
  ASSUME IInv, Tracked, NEW ok \in BOOLEAN, FlushFile(ok)
  PROVE  Tracked'
<1>1. "file" \in MediaTypes
  BY DEF MediaTypes
<1>2. flush[1].kind # "text"
  <2>1. 1 \in DOMAIN flush
    BY MediumAlone, LenProperties DEF FlushFile, IInv, TypeOK
  <2>2. QED
    BY <2>1 DEF FlushFile, TextRun
<1>3. /\ pipePc = "flushing" /\ FlushCall(<<flush[1].id>>, "file")
      /\ UNCHANGED <<managerVars, clientVars, reqVars>>
      /\ Flushed(1) \/ (pipePc' = "fallback" /\ UNCHANGED flush)
  BY DEF FlushFile
<1>4. QED
  BY <1>1, <1>2, <1>3, MediumAlone, TrackedFlush

LEMMA TrackedFlushFallback ==
  ASSUME IInv, Tracked, FlushFallback
  PROVE  Tracked'
BY MediumAlone, TrackedFlush DEF FlushFallback

LEMMA InitTracked == Init => Tracked
<1> SUFFICES ASSUME Init PROVE Tracked
  OBVIOUS
<1>1. /\ msgBuffer = <<>> /\ flush = <<>> /\ queued = {} /\ wire = <<>>
      /\ msgCh = <<>> /\ inHand = NoReply /\ pipePc = "idle"
      /\ \A h \in Senders : reqPc[h] # "sending"
  BY DEF Init
<1>2. \A i : CallsOf(i) = {}
  BY <1>1 DEF CallsOf
<1>3. \A i : Cardinality(CallsOf(i)) = 0
  BY <1>2, FS_EmptySet
<1>4. Accepted
  BY <1>1 DEF Accepted, Sending
<1>5. Called
  BY <1>1, <1>2, <1>3 DEF Called, Sending, IdSet
<1>6. InAcceptOrder
  BY <1>1 DEF InAcceptOrder, Increasing, Ids, IdSet, FlushCalls
<1>7. NoMediaLost /\ Contacted
  BY <1>1 DEF NoMediaLost, Media, Contacted
<1>8. QED
  BY <1>4, <1>5, <1>6, <1>7 DEF Tracked

LEMMA NextTracked == IInv /\ Tracked /\ [Next]_vars => Tracked'
<1> SUFFICES ASSUME IInv, Tracked, [Next]_vars PROVE Tracked'
  OBVIOUS
<1>1. ASSUME NEW h \in Senders, BudgetedSend(h) PROVE Tracked'
  <2>1. \/ Spend(h, [reqMsg[h] EXCEPT !.id = nextId])
        \/ EnterBuffer(h, [reqMsg[h] EXCEPT !.id = nextId])
    BY <1>1 DEF BudgetedSend
  <2>2. QED
    BY <1>1, <2>1, TrackedSpend, TrackedEnterBuffer
<1>2. ASSUME NEW h \in Senders, Handler(h) PROVE Tracked'
  BY <1>1, <1>2, TrackedFinishSend, TrackedReminder DEF Handler
<1>3. ASSUME NEW h \in Senders, NEW k \in Kinds, NEW u \in Users \cup {NoUser},
             HandleSend(h, k, u)
      PROVE  Tracked'
  BY <1>3, TrackedHandleSend
<1>4. ASSUME NEW l \in Limits, NEW n \in BufferSizes, SetLimits(l, n) PROVE Tracked'
  <2>1. UNCHANGED <<msgBuffer, flush, queued, nextId, wire, pipePc, reqPc, reqMsg,
                    lastContact, inHand, msgCh>>
    BY <1>4 DEF SetLimits, clientVars, reqVars, pipeVars
  <2>2. Contacted' /\ Sending' = Sending
    BY <2>1 DEF Tracked, Contacted, Sending
  <2>3. QED
    BY <2>1, <2>2, TrackedUnchanged
<1>5. ASSUME NEW u \in Users, NEW slash \in BOOLEAN, ReceiveMessage(u, slash)
      PROVE  Tracked'
  <2>1. UNCHANGED <<msgBuffer, flush, queued, nextId, wire, pipePc, reqPc, reqMsg>>
    BY <1>5 DEF ReceiveMessage, managerVars, reqVars, pipeVars
  <2>2. Contacted' /\ Sending' = Sending
    BY <1>5, <2>1, BudgetAssumption DEF ReceiveMessage, Contacted, Sending
  <2>3. QED
    BY <2>1, <2>2, TrackedUnchanged
<1>6. ASSUME Enqueue PROVE Tracked'
  <2>1. UNCHANGED <<msgBuffer, flush, queued, nextId, wire, pipePc, reqPc, reqMsg>>
    BY <1>6 DEF Enqueue, managerVars, reqVars, pipeVars
  <2>2. Contacted' /\ Sending' = Sending
    BY <1>6, <2>1 DEF Enqueue, Tracked, Contacted, Sending
  <2>3. QED
    BY <2>1, <2>2, TrackedUnchanged
<1>7. ASSUME BeginFlush PROVE Tracked'
  <2>1. UNCHANGED <<msgBuffer, flush, queued, nextId, wire, reqPc, reqMsg,
                    lastContact, inHand, msgCh>>
        /\ pipePc = "collected" /\ pipePc' = "flushing"
    BY <1>7 DEF BeginFlush, managerVars, clientVars, reqVars, Tracked, Contacted
  <2>2. Contacted' /\ Sending' = Sending
    BY <2>1 DEF Tracked, Contacted, Sending
  <2>3. QED
    BY <2>1, <2>2, TrackedUnchanged
<1>8. ASSUME Pipeline PROVE Tracked'
  BY <1>7, <1>8, TrackedOnUserMessage, TrackedFlushText, TrackedFlushFile,
     TrackedFlushFallback DEF Pipeline
<1>9. ASSUME UNCHANGED vars PROVE Tracked'
  <2>1. UNCHANGED <<msgBuffer, flush, queued, nextId, wire, pipePc, reqPc, reqMsg,
                    lastContact, inHand, msgCh>>
    BY <1>9 DEF vars, managerVars, clientVars, reqVars, pipeVars
  <2>2. Contacted' /\ Sending' = Sending
    BY <2>1 DEF Tracked, Contacted, Sending
  <2>3. QED
    BY <2>1, <2>2, TrackedUnchanged
<1>10. QED
  BY <1>2, <1>3, <1>4, <1>5, <1>6, <1>8, <1>9 DEF Next

\* Where every message is.
THEOREM Tracking == Spec => []Tracked
<1>1. Init => Tracked
  BY InitTracked
<1>2. IInv /\ Tracked /\ [Next]_vars => Tracked'
  BY NextTracked
<1>3. QED
  BY <1>1, <1>2, Invariance, PTL DEF Spec

\* Buffered messages are flushed in the order in which they were accepted.
THEOREM AcceptOrder == Spec => []InAcceptOrder
<1>1. Tracked => InAcceptOrder
  BY DEF Tracked
<1>2. QED
  BY <1>1, Tracking, PTL

\* A medium that is in the buffer is never lost.
THEOREM MediaKept == Spec => []NoMediaLost
<1>1. Tracked => NoMediaLost
  BY DEF Tracked
<1>2. QED
  BY <1>1, Tracking, PTL

\* Increasing ids occur once.
LEMMA AtMostOnce ==
  ASSUME NEW s \in Seq(BufferedMessage), Increasing(Ids(s)), NEW i
  PROVE  LET at == {k \in DOMAIN s : s[k].id = i}
         IN  Cardinality(at) = IF i \in IdSet(s) THEN 1 ELSE 0
<1> DEFINE at == {k \in DOMAIN s : s[k].id = i}
<1>1. /\ DOMAIN s = 1..Len(s) /\ Len(s) \in Nat
      /\ \A k, l \in 1..Len(s) : k < l => s[k].id < s[l].id
  BY LenProperties, IncreasingIds
<1>2. \A k \in 1..Len(s) : s[k].id \in Nat
  <2>1. \A k \in 1..Len(s) : s[k] \in BufferedMessage
    BY ElementOfSeq
  <2>2. QED
    BY <2>1 DEF BufferedMessage
<1>3. ASSUME NEW k \in at, NEW l \in at PROVE k = l
  <2>1. k \in 1..Len(s) /\ l \in 1..Len(s) /\ s[k].id = i /\ s[l].id = i
    BY <1>1
  <2>2. ~(s[k].id < s[l].id) /\ ~(s[l].id < s[k].id)
    BY <1>2, <2>1
  <2>3. ~(k < l) /\ ~(l < k)
    BY <1>1, <2>1, <2>2
  <2>4. QED
    BY <1>1, <2>1, <2>3
<1>4. CASE i \in IdSet(s)
  <2>1. PICK k \in at : TRUE
    BY <1>4 DEF IdSet
  <2>2. at = {k}
    BY <1>3, <2>1
  <2>3. Cardinality({k}) = 1
    BY FS_Singleton
  <2>4. QED
    BY <1>4, <2>2, <2>3
<1>5. CASE i \notin IdSet(s)
  <2>1. at = {}
    BY <1>5 DEF IdSet
  <2>2. QED
    BY <1>5, <2>1, FS_EmptySet
<1>6. QED
  BY <1>4, <1>5

\* No message is sent twice, but for a medium whose first call failed.
THEOREM SentOnce == Spec => []SentAtMostOnce
<1>1. ASSUME IInv, Tracked PROVE SentAtMostOnce
  <2>1. SUFFICES ASSUME NEW i \in Requests
        PROVE  Cardinality(CallsOf(i))
                 + Cardinality({k \in DOMAIN flush : flush[k].id = i})
                 + Cardinality({k \in DOMAIN msgBuffer : msgBuffer[k].id = i})
               <= IF i \in MediaIds THEN 2 ELSE 1
    BY DEF SentAtMostOnce, MediaIds
  <2>2. /\ Cardinality({k \in DOMAIN flush : flush[k].id = i})
             = IF i \in IdSet(flush) THEN 1 ELSE 0
        /\ Cardinality({k \in DOMAIN msgBuffer : msgBuffer[k].id = i})
             = IF i \in IdSet(msgBuffer) THEN 1 ELSE 0
    BY <1>1, AtMostOnce DEF IInv, TypeOK, Tracked, InAcceptOrder
  <2>3. Cardinality(CallsOf(i)) \in Nat
    BY <1>1, FiniteCalls DEF IInv, TypeOK
  <2>4. Cardinality(CallsOf(i)) <= IF i \in MediaIds THEN 2 ELSE 1
    BY <1>1 DEF Tracked, Called
  <2>5. CASE i \in IdSet(msgBuffer)
    <3>1. i \notin IdSet(flush)
      BY <1>1, <2>5 DEF Tracked, InAcceptOrder, Requests
    <3>2. Cardinality(CallsOf(i)) = 0
      BY <1>1, <2>5, FS_EmptySet DEF Tracked, Called
    <3>3. QED
      BY <2>2, <2>5, <3>1, <3>2
  <2>6. CASE i \notin IdSet(msgBuffer) /\ i \in IdSet(flush)
    <3>1. PICK j \in DOMAIN flush : flush[j].id = i
      BY <2>6 DEF IdSet
    <3>2. Cardinality(CallsOf(i)) = IF j = 1 /\ pipePc = "fallback" THEN 1 ELSE 0
      BY <1>1, <3>1 DEF Tracked, Called
    <3>3. j = 1 /\ pipePc = "fallback" => i \in MediaIds
      <4>1. PICK m \in queued : flush[j] = Buffered(m)
        BY <1>1 DEF Tracked, Accepted
      <4>2. j = 1 /\ pipePc = "fallback" => m.kind # "text" /\ m.id = i
        BY <1>1, <3>1, <4>1 DEF Tracked, Called, Buffered
      <4>3. QED
        BY <4>2 DEF MediaIds, Media
    <3>4. QED
      BY <2>2, <2>6, <3>2, <3>3
  <2>7. CASE i \notin IdSet(msgBuffer) /\ i \notin IdSet(flush)
    BY <2>2, <2>3, <2>4, <2>7
  <2>8. QED
    BY <2>5, <2>6, <2>7
<1>2. QED
  BY <1>1, Invariance, Tracking, PTL

-----------------------------------------------------------------------------
(* What an empty budget costs.                                             *)

MediaOf(ms) == {m \in ms : m.kind # "text"}
KeptOf(ms)  == {m \in ms : m.id \in IdSet(msgBuffer)}

\* The round's excess is where the buffer comes from, and it lost one of a sort
\* only with leastMax of the sort in the buffer.
Overflow ==
  /\ leastMax <= maxBuffer
  /\ IsFiniteSet(excess)
  /\ \A m \in excess : m.id < nextId
  /\ \A m, n \in excess : m.id = n.id => m = n
  /\ \A i \in DOMAIN msgBuffer : \E m \in excess : msgBuffer[i] = Buffered(m)
  /\ \A ms \in {excess, MediaOf(excess)} :
       KeptOf(ms) = ms \/ Cardinality(KeptOf(ms)) >= leastMax

\* A sorted buffer holds as many messages as it has places.
LEMMA KeptAtLeast ==
  ASSUME NEW buf \in Seq(BufferedMessage), Increasing(Ids(buf)),
         NEW ms, IsFiniteSet(ms),
         \A i \in DOMAIN buf : \E m \in ms : buf[i] = Buffered(m)
  PROVE  Cardinality({m \in ms : m.id \in IdSet(buf)}) >= Len(buf)
<1> DEFINE kept == {m \in ms : m.id \in IdSet(buf)}
           f    == [i \in 1..Len(buf) |-> CHOOSE m \in ms : buf[i] = Buffered(m)]
<1>1. /\ Len(buf) \in Nat /\ DOMAIN buf = 1..Len(buf)
      /\ \A i, j \in 1..Len(buf) : i < j => buf[i].id < buf[j].id
  BY LenProperties, IncreasingIds
<1>2. \A i \in 1..Len(buf) : buf[i].id \in Nat
  <2>1. \A i \in 1..Len(buf) : buf[i] \in BufferedMessage
    BY ElementOfSeq
  <2>2. QED
    BY <2>1 DEF BufferedMessage
<1>3. ASSUME NEW i \in 1..Len(buf)
      PROVE  f[i] \in ms /\ f[i].id = buf[i].id /\ f[i] \in kept
  <2>1. f[i] \in ms /\ buf[i] = Buffered(f[i])
    BY <1>1
  <2> HIDE DEF f
  <2>2. f[i].id = buf[i].id
    BY <2>1 DEF Buffered
  <2>3. QED
    BY <1>1, <2>1, <2>2 DEF IdSet
<1>4. f \in [1..Len(buf) -> kept]
  BY <1>3
<1>5. ASSUME NEW i \in 1..Len(buf), NEW j \in 1..Len(buf), f[i] = f[j]
      PROVE  i = j
  <2>1. buf[i].id = buf[j].id
    BY <1>3, <1>5
  <2>2. ~(buf[i].id < buf[j].id) /\ ~(buf[j].id < buf[i].id)
    BY <1>2, <2>1
  <2>3. ~(i < j) /\ ~(j < i)
    BY <1>1, <2>2
  <2>4. QED
    BY <1>1, <2>3
<1> HIDE DEF f
<1>6. f \in Injection(1..Len(buf), kept)
  BY <1>4, <1>5 DEF Injection, IsInjective
<1>7. IsFiniteSet(kept) /\ kept \subseteq ms
  BY FS_Subset
<1> HIDE DEF kept
<1>8. Cardinality(1..Len(buf)) <= Cardinality(kept)
  BY <1>6, <1>7, FS_Injection
<1>9. Cardinality(1..Len(buf)) = Len(buf)
  <2>1. Cardinality(1..Len(buf)) = IF 1 > Len(buf) THEN 0 ELSE Len(buf) - 1 + 1
    BY <1>1, FS_Interval
  <2>2. QED
    BY <1>1, <2>1
<1>10. Cardinality(kept) \in Nat
  BY <1>7, FS_CardinalityType
<1>11. QED
  BY <1>1, <1>8, <1>9, <1>10 DEF kept

\* One more message that is kept.
LEMMA KeptOneMore ==
  ASSUME NEW ms, IsFiniteSet(ms), NEW kept \in SUBSET ms, NEW m, NEW least \in Nat,
         kept = ms \/ Cardinality(kept) >= least
  PROVE  kept \cup {m} = ms \cup {m} \/ Cardinality(kept \cup {m}) >= least
<1>1. IsFiniteSet(kept)
  BY FS_Subset
<1>2. Cardinality(kept) \in Nat
  BY <1>1, FS_CardinalityType
<1>3. Cardinality(kept \cup {m}) =
        IF m \in kept THEN Cardinality(kept) ELSE Cardinality(kept) + 1
  BY <1>1, FS_AddElement
<1>4. QED
  BY <1>2, <1>3

LEMMA OverflowEnterBuffer ==
  ASSUME IInv, Tracked, Tracked', Overflow, NEW h \in Senders, BudgetedSend(h),
         EnterBuffer(h, [reqMsg[h] EXCEPT !.id = nextId])
  PROVE  Overflow'
<1> DEFINE m == [reqMsg[h] EXCEPT !.id = nextId]
<1>1. m \in Message /\ m.id = nextId /\ nextId \in Nat
  BY DEF BudgetedSend, IInv, TypeOK, Message
<1>2. /\ UNCHANGED <<maxBuffer, leastMax>>
      /\ nextId' = nextId + 1 /\ excess' = excess \cup {m}
      /\ msgBuffer' = bufferMessageLocked(msgBuffer, Buffered(m))
  BY DEF BudgetedSend, EnterBuffer
<1> HIDE DEF m
<1>3. /\ msgBuffer \in Seq(BufferedMessage) /\ msgBuffer' \in Seq(BufferedMessage)
      /\ maxBuffer \in Nat \ {0} /\ leastMax \in Nat
      /\ Buffered(m) \in BufferedMessage /\ Buffered(m).id = nextId
  <2>1. Buffered(m) \in BufferedMessage /\ Buffered(m).id = nextId
    BY <1>1 DEF Message, Buffered, BufferedMessage
  <2>2. QED
    BY <1>2, <2>1, BufferMessageLockedFacts DEF IInv, TypeOK
<1>4. \A n \in excess : n.id \in Nat /\ n.id < nextId /\ n.id # nextId
  <2>1. \A n \in excess : n.id \in Nat
    BY DEF IInv, TypeOK, Message
  <2>2. QED
    BY <1>1, <2>1 DEF Overflow
<1>5. /\ \A j \in DOMAIN msgBuffer' :
           \/ msgBuffer'[j] = Buffered(m)
           \/ \E i \in DOMAIN msgBuffer : msgBuffer'[j] = msgBuffer[i]
      /\ \A i \in DOMAIN msgBuffer : msgBuffer[i].kind # "text" =>
           \E j \in DOMAIN msgBuffer' : msgBuffer'[j] = msgBuffer[i]
  BY <1>2, <1>3, BufferContents
<1>6. Increasing(Ids(msgBuffer)) /\ Increasing(Ids(msgBuffer'))
  BY DEF Tracked, InAcceptOrder, Ids
<1>7. IsFiniteSet(excess) /\ IsFiniteSet(excess')
      /\ IsFiniteSet(MediaOf(excess)) /\ MediaOf(excess) \subseteq excess
  BY <1>2, FS_AddElement, FS_Subset DEF Overflow, MediaOf
<1>8. /\ \A n \in excess' : n.id < nextId'
      /\ \A n, o \in excess' : n.id = o.id => n = o
  <2>1. \A n \in excess' : n \in excess \/ n = m
    BY <1>2
  <2>2. \A n, o \in excess : n.id = o.id => n = o
    BY DEF Overflow
  <2>3. QED
    BY <1>1, <1>2, <1>4, <2>1, <2>2
<1>9. \A j \in DOMAIN msgBuffer' : \E n \in excess' : msgBuffer'[j] = Buffered(n)
  BY <1>2, <1>5 DEF Overflow
<1>10. leastMax <= maxBuffer /\ Len(msgBuffer) \in Nat
  BY <1>3, LenProperties DEF Overflow
\* old messages that are kept after the step were kept before
<1>11. \A n \in excess : n.id \in IdSet(msgBuffer') => n.id \in IdSet(msgBuffer)
  BY <1>3, <1>4, <1>5 DEF IdSet
\* media stay
<1>12. ASSUME NEW n \in MediaOf(excess), n.id \in IdSet(msgBuffer)
       PROVE  n.id \in IdSet(msgBuffer')
  <2>1. PICK i \in DOMAIN msgBuffer : msgBuffer[i].id = n.id
    BY <1>12 DEF IdSet
  <2>2. msgBuffer[i].kind # "text"
    <3>1. PICK o \in excess : msgBuffer[i] = Buffered(o)
      BY DEF Overflow
    <3>2. o.id = n.id /\ o.kind = msgBuffer[i].kind
      BY <2>1, <3>1 DEF Buffered
    <3>3. o = n
      BY <1>7, <3>2 DEF Overflow
    <3>4. QED
      BY <3>2, <3>3 DEF MediaOf
  <2>3. QED
    BY <1>5, <2>1, <2>2 DEF IdSet
<1>13. ASSUME NEW ms, NEW ms2, ms = excess \/ ms = MediaOf(excess),
              ms2 = ms \cup {m}, nextId \in IdSet(msgBuffer'),
              \A n \in ms : n.id \in IdSet(msgBuffer) => n.id \in IdSet(msgBuffer')
       PROVE  LET kept == {n \in ms2 : n.id \in IdSet(msgBuffer')}
              IN  kept = ms2 \/ Cardinality(kept) >= leastMax
  <2> DEFINE old  == KeptOf(ms)
             kept == {n \in ms2 : n.id \in IdSet(msgBuffer')}
  <2>1. kept = old \cup {m}
    BY <1>1, <1>7, <1>11, <1>13 DEF KeptOf
  <2>2. old = ms \/ Cardinality(old) >= leastMax
    BY <1>13 DEF Overflow
  <2>3. old \subseteq ms /\ IsFiniteSet(ms)
    BY <1>7, <1>13 DEF KeptOf
  <2> HIDE DEF old, kept
  <2>4. QED
    BY <1>3, <1>13, <2>1, <2>2, <2>3, KeptOneMore DEF kept
<1>14. ASSUME m.kind # "text"
       PROVE  MediaOf(excess') = MediaOf(excess) \cup {m}
  BY <1>2, <1>14 DEF MediaOf
<1>15. ASSUME m.kind = "text"
       PROVE  /\ MediaOf(excess') = MediaOf(excess)
              /\ KeptOf(MediaOf(excess))' = KeptOf(MediaOf(excess))
  <2>1. MediaOf(excess') = MediaOf(excess)
    BY <1>2, <1>15 DEF MediaOf
  <2>2. QED
    BY <1>7, <1>11, <1>12, <2>1 DEF KeptOf
<1> DEFINE Good(ms) == KeptOf(ms) = ms \/ Cardinality(KeptOf(ms)) >= leastMax
<1>16. Good(excess)' /\ Good(MediaOf(excess))'
  <2>1. CASE Len(msgBuffer) < maxBuffer /\ msgBuffer' = Append(msgBuffer, Buffered(m))
    <3>1. IdSet(msgBuffer') = IdSet(msgBuffer) \cup {nextId}
      <4>1. /\ Len(msgBuffer') = Len(msgBuffer) + 1
            /\ \A i \in 1..Len(msgBuffer) : msgBuffer'[i] = msgBuffer[i]
            /\ msgBuffer'[Len(msgBuffer) + 1] = Buffered(m)
        BY <1>3, <2>1, AppendProperties
      <4>2. DOMAIN msgBuffer' = 1..Len(msgBuffer') /\ DOMAIN msgBuffer = 1..Len(msgBuffer)
        BY <1>3, LenProperties
      <4>3. DOMAIN msgBuffer' = DOMAIN msgBuffer \cup {Len(msgBuffer) + 1}
        BY <1>10, <4>1, <4>2
      <4>4. QED
        BY <1>3, <4>1, <4>2, <4>3 DEF IdSet
    <3>2. Good(excess)'
      BY <1>2, <1>13, <3>1 DEF KeptOf
    <3>3. CASE m.kind = "text"
      BY <1>2, <1>15, <3>2, <3>3 DEF Overflow
    <3>4. CASE m.kind # "text"
      BY <1>2, <1>13, <1>14, <3>1, <3>2, <3>4 DEF KeptOf
    <3>5. QED
      BY <3>3, <3>4
  <2>2. CASE Len(msgBuffer) >= maxBuffer /\ Texts(msgBuffer) = {} /\ msgBuffer' = msgBuffer
    <3>1. \A i \in DOMAIN msgBuffer : \E n \in MediaOf(excess) : msgBuffer[i] = Buffered(n)
      BY <2>2 DEF Overflow, Texts, MediaOf, Buffered
    <3>2. Cardinality(KeptOf(excess)) >= Len(msgBuffer)
      BY <1>3, <1>6, <1>7, KeptAtLeast DEF Overflow, KeptOf
    <3>3. Cardinality(KeptOf(MediaOf(excess))) >= Len(msgBuffer)
      BY <1>3, <1>6, <1>7, <3>1, KeptAtLeast DEF KeptOf
    <3>4. nextId \notin IdSet(msgBuffer)
      BY <1>1, WaitingWasQueued DEF Tracked
    <3>5. KeptOf(excess)' = KeptOf(excess) /\ KeptOf(MediaOf(excess))' = KeptOf(MediaOf(excess))
      BY <1>1, <1>2, <2>2, <3>4 DEF KeptOf, MediaOf
    <3>6. Cardinality(KeptOf(excess)) \in Nat /\ Cardinality(KeptOf(MediaOf(excess))) \in Nat
      <4>1. KeptOf(excess) \subseteq excess /\ KeptOf(MediaOf(excess)) \subseteq MediaOf(excess)
        BY DEF KeptOf
      <4>2. QED
        BY <1>7, <4>1, FS_Subset, FS_CardinalityType
    <3>7. /\ Cardinality(KeptOf(excess)) >= leastMax
          /\ Cardinality(KeptOf(MediaOf(excess))) >= leastMax
      BY <1>3, <1>10, <2>2, <3>2, <3>3, <3>6
    <3>8. QED
      BY <1>2, <3>5, <3>7
  <2>3. CASE /\ Len(msgBuffer) >= maxBuffer /\ Len(msgBuffer') = Len(msgBuffer)
             /\ nextId \in IdSet(msgBuffer')
    <3>1. Cardinality(KeptOf(excess)') >= Len(msgBuffer')
      BY <1>3, <1>6, <1>7, <1>9, KeptAtLeast DEF KeptOf
    <3>2. Cardinality(KeptOf(excess)') \in Nat
      <4>1. KeptOf(excess)' \subseteq excess'
        BY DEF KeptOf
      <4>2. QED
        BY <1>7, <4>1, FS_Subset, FS_CardinalityType
    <3>3. Good(excess)'
      BY <1>2, <1>3, <1>10, <2>3, <3>1, <3>2
    <3>4. CASE m.kind = "text"
      BY <1>2, <1>15, <3>3, <3>4 DEF Overflow
    <3>5. CASE m.kind # "text"
      BY <1>2, <1>12, <1>13, <1>14, <2>3, <3>3, <3>5 DEF KeptOf
    <3>6. QED
      BY <3>4, <3>5
  <2>4. \/ Len(msgBuffer) < maxBuffer /\ msgBuffer' = Append(msgBuffer, Buffered(m))
        \/ Len(msgBuffer) >= maxBuffer /\ Texts(msgBuffer) = {} /\ msgBuffer' = msgBuffer
        \/ /\ Len(msgBuffer) >= maxBuffer /\ Len(msgBuffer') = Len(msgBuffer)
           /\ msgBuffer'[Len(msgBuffer)] = Buffered(m)
    BY <1>2, <1>3, BufferMessageLockedCases
  <2>5. ASSUME /\ Len(msgBuffer) >= maxBuffer /\ Len(msgBuffer') = Len(msgBuffer)
               /\ msgBuffer'[Len(msgBuffer)] = Buffered(m)
        PROVE  nextId \in IdSet(msgBuffer')
    <3>1. Len(msgBuffer) \in DOMAIN msgBuffer'
      BY <1>3, <1>10, <2>5, LenProperties
    <3>2. QED
      BY <1>3, <2>5, <3>1 DEF IdSet
  <2>6. QED
    BY <2>1, <2>2, <2>3, <2>4, <2>5
<1>17. QED
  BY <1>2, <1>7, <1>8, <1>9, <1>10, <1>16 DEF Overflow, Buffered

LEMMA InitOverflow == Init => Overflow
<1> SUFFICES ASSUME Init PROVE Overflow
  OBVIOUS
<1>1. excess = {} /\ msgBuffer = <<>> /\ leastMax = maxBuffer /\ maxBuffer \in Nat
  BY BudgetAssumption DEF Init
<1>2. MediaOf(excess) = {} /\ KeptOf({}) = {}
  BY <1>1 DEF MediaOf, KeptOf
<1>3. leastMax <= maxBuffer /\ IsFiniteSet(excess)
  BY <1>1, FS_EmptySet
<1>4. QED
  BY <1>1, <1>2, <1>3 DEF Overflow, KeptOf

LEMMA NextOverflow ==
  IInv /\ Tracked /\ Tracked' /\ Overflow /\ [Next]_vars => Overflow'
<1> SUFFICES ASSUME IInv, Tracked, Tracked', Overflow, [Next]_vars PROVE Overflow'
  OBVIOUS
<1>0. leastMax \in Nat /\ maxBuffer \in Nat /\ nextId \in Nat
      /\ \A m \in excess : m.id \in Nat
  BY DEF IInv, TypeOK, Message
<1>1. ASSUME UNCHANGED <<msgBuffer, excess>>, nextId' = nextId \/ nextId' = nextId + 1,
             leastMax' \in Nat, leastMax' <= maxBuffer', leastMax' <= leastMax
      PROVE  Overflow'
  <2>1. \A m \in excess : m.id < nextId'
    BY <1>0, <1>1 DEF Overflow
  <2>2. ASSUME NEW ms \in {excess, MediaOf(excess)}
        PROVE  KeptOf(ms) = ms \/ Cardinality(KeptOf(ms)) >= leastMax'
    <3>1. Cardinality(KeptOf(ms)) \in Nat
      <4>1. KeptOf(ms) \subseteq excess
        BY DEF KeptOf, MediaOf
      <4>2. QED
        BY <4>1, FS_Subset, FS_CardinalityType DEF Overflow
    <3>2. QED
      BY <1>0, <1>1, <3>1 DEF Overflow
  <2>3. \A ms : KeptOf(ms)' = KeptOf(ms)
    BY <1>1 DEF KeptOf
  <2>4. MediaOf(excess)' = MediaOf(excess)
    BY <1>1 DEF MediaOf
  <2>5. QED
    BY <1>1, <2>1, <2>2, <2>3, <2>4 DEF Overflow
<1>2. ASSUME UNCHANGED <<msgBuffer, excess, leastMax, maxBuffer>>,
             nextId' = nextId \/ nextId' = nextId + 1
      PROVE  Overflow'
  BY <1>0, <1>1, <1>2 DEF Overflow
<1>3. ASSUME NEW h \in Senders, BudgetedSend(h) PROVE Overflow'
  <2>1. CASE EnterBuffer(h, [reqMsg[h] EXCEPT !.id = nextId])
    BY <1>3, <2>1, OverflowEnterBuffer
  <2>2. CASE Spend(h, [reqMsg[h] EXCEPT !.id = nextId])
    BY <1>2, <1>3, <2>2 DEF BudgetedSend, Spend
  <2>3. QED
    BY <1>3, <2>1, <2>2 DEF BudgetedSend
<1>4. ASSUME NEW h \in Senders, Handler(h) PROVE Overflow'
  BY <1>2, <1>3, <1>4
     DEF Handler, FinishSend, sendBufferActivationReminder, managerVars, countVars
<1>5. ASSUME NEW h \in Senders, NEW k \in Kinds, NEW u \in Users \cup {NoUser},
             HandleSend(h, k, u)
      PROVE  Overflow'
  BY <1>2, <1>5 DEF HandleSend, managerVars, countVars
<1>6. ASSUME NEW l \in Limits, NEW n \in BufferSizes, SetLimits(l, n) PROVE Overflow'
  <2>1. n \in Nat /\ {leastMax, n} \in SUBSET Nat
    BY <1>0, BudgetAssumption
  <2>2. leastMax' \in Nat /\ leastMax' <= n /\ leastMax' <= leastMax
    BY <1>6, <2>1, MinInSet DEF SetLimits
  <2>3. QED
    BY <1>1, <1>6, <2>2 DEF SetLimits, reqVars
<1>7. ASSUME NEW u \in Users, NEW slash \in BOOLEAN, ReceiveMessage(u, slash)
      PROVE  Overflow'
  BY <1>2, <1>7 DEF ReceiveMessage, managerVars, reqVars, countVars
<1>8. ASSUME Enqueue PROVE Overflow'
  BY <1>2, <1>8 DEF Enqueue, managerVars, reqVars, countVars
<1>9. ASSUME OnUserMessage PROVE Overflow'
  <2>1. msgBuffer' = <<>> /\ excess' = {} /\ leastMax' = maxBuffer'
    BY <1>9, ResetEmptiesBuffer DEF OnUserMessage
  <2>2. MediaOf(excess') = {} /\ KeptOf({})' = {}
    BY <2>1 DEF MediaOf, KeptOf
  <2>3. maxBuffer' \in Nat
    BY <1>0, <1>9 DEF OnUserMessage
  <2>4. leastMax' <= maxBuffer' /\ IsFiniteSet(excess')
    BY <2>1, <2>3, FS_EmptySet
  <2>5. QED
    BY <2>1, <2>2, <2>4 DEF Overflow, KeptOf
<1>10. ASSUME Pipeline PROVE Overflow'
  BY <1>2, <1>9, <1>10
     DEF Pipeline, BeginFlush, FlushText, FlushFile, FlushFallback, FlushCall,
         managerVars, reqVars, countVars
<1>11. CASE UNCHANGED vars
  BY <1>2, <1>11 DEF vars, managerVars, reqVars, countVars
<1>12. QED
  BY <1>4, <1>5, <1>6, <1>7, <1>8, <1>10, <1>11 DEF Next

\* A message is dropped or evicted only for want of places.
THEOREM LossOnlyAtLimit == Spec => []LosesOnlyAtLimit
<1>1. ASSUME IInv, Overflow PROVE LosesOnlyAtLimit
  <2>1. SUFFICES ASSUME NEW ms \in {excess, MediaOf(excess)}
                 PROVE  Cardinality(KeptOf(ms)) >= Min({Cardinality(ms), leastMax})
    BY DEF LosesOnlyAtLimit, MediaOf, KeptOf
  <2>2. Cardinality(KeptOf(ms)) \in Nat /\ Cardinality(ms) \in Nat
    <3>1. KeptOf(ms) \subseteq excess /\ ms \subseteq excess
      BY DEF KeptOf, MediaOf
    <3>2. QED
      BY <1>1, <3>1, FS_Subset, FS_CardinalityType DEF Overflow
  <2>3. KeptOf(ms) = ms \/ Cardinality(KeptOf(ms)) >= leastMax
    BY <1>1 DEF Overflow
  <2>4. {Cardinality(ms), leastMax} \in SUBSET Nat
    BY <1>1, <2>2 DEF IInv, TypeOK
  <2>5. /\ Min({Cardinality(ms), leastMax}) \in Nat
        /\ Min({Cardinality(ms), leastMax}) <= Cardinality(ms)
        /\ Min({Cardinality(ms), leastMax}) <= leastMax
    BY <2>4, MinInSet
  <2>6. leastMax \in Nat
    BY <2>4
  <2>7. QED
    BY <2>2, <2>3, <2>5, <2>6
<1>2. Init => Overflow
  BY InitOverflow
<1>3. IInv /\ Tracked /\ Tracked' /\ Overflow /\ [Next]_vars => Overflow'
  BY NextOverflow
<1>4. QED
  BY <1>1, <1>2, <1>3, Invariance, Tracking, PTL DEF Spec

-----------------------------------------------------------------------------
(* How many calls a round makes.                                           *)

Largest == Max({InitMaxBuffer} \cup BufferSizes)

\* The buffer keeps to the largest limit there can be, and the calls of a flush
\* come out of what it held.
Room ==
  /\ maxBuffer <= Largest /\ Len(msgBuffer) <= Largest
  /\ flushed + 2 * Len(flush) - (IF pipePc = "fallback" THEN 1 ELSE 0)
       <= 2 * Largest

LEMMA LargestLimit ==
  Largest \in Nat /\ InitMaxBuffer <= Largest /\ \A n \in BufferSizes : n <= Largest
<1>1. IsFiniteSet({InitMaxBuffer} \cup BufferSizes)
  BY BudgetAssumption, FS_Singleton, FS_Union
<1>2. {InitMaxBuffer} \cup BufferSizes \in SUBSET Nat
  BY BudgetAssumption
<1>3. QED
  BY <1>1, <1>2, MaxInSet DEF Largest

LEMMA NextRoom == IInv /\ Room /\ [Next]_vars => Room'
<1> SUFFICES ASSUME IInv, Room, [Next]_vars PROVE Room'
  OBVIOUS
<1>0. /\ Largest \in Nat /\ Largest' = Largest
      /\ msgBuffer \in Seq(BufferedMessage) /\ Len(msgBuffer) \in Nat
      /\ flush \in Seq(BufferedMessage) /\ Len(flush) \in Nat
      /\ maxBuffer \in Nat \ {0} /\ flushed \in Nat
  BY LargestLimit, LenProperties DEF IInv, TypeOK, Largest
<1>1. ASSUME UNCHANGED <<msgBuffer, maxBuffer, flush, flushed>>,
             pipePc' = "fallback" <=> pipePc = "fallback"
      PROVE  Room'
  BY <1>0, <1>1 DEF Room
<1>2. ASSUME NEW h \in Senders, BudgetedSend(h) PROVE Room'
  <2> DEFINE m == [reqMsg[h] EXCEPT !.id = nextId]
  <2>1. m \in Message /\ (Spend(h, m) \/ EnterBuffer(h, m))
    BY <1>2 DEF BudgetedSend, IInv, TypeOK, Message
  <2> HIDE DEF m
  <2>2. UNCHANGED <<maxBuffer, flush, flushed, pipePc>>
    BY <1>2 DEF BudgetedSend, pipeVars
  <2>3. CASE Spend(h, m)
    BY <1>1, <2>2, <2>3 DEF Spend
  <2>4. CASE EnterBuffer(h, m)
    <3>1. Buffered(m) \in BufferedMessage
      BY <2>1 DEF Message, Buffered, BufferedMessage
    <3>2. msgBuffer' \in Seq(BufferedMessage)
          /\ (Len(msgBuffer') > Len(msgBuffer) => Len(msgBuffer') <= maxBuffer)
      BY <1>0, <2>4, <3>1, BufferMessageLockedFacts DEF EnterBuffer
    <3>3. Len(msgBuffer') \in Nat
      BY <3>2, LenProperties
    <3>4. Len(msgBuffer') <= Largest
      BY <1>0, <3>2, <3>3 DEF Room
    <3>5. QED
      BY <1>0, <2>2, <3>4 DEF Room
  <2>5. QED
    BY <2>1, <2>3, <2>4
<1>3. ASSUME NEW h \in Senders, Handler(h) PROVE Room'
  BY <1>1, <1>2, <1>3 DEF Handler, FinishSend, sendBufferActivationReminder,
                          managerVars, countVars, pipeVars
<1>4. ASSUME NEW h \in Senders, NEW k \in Kinds, NEW u \in Users \cup {NoUser},
             HandleSend(h, k, u)
      PROVE  Room'
  BY <1>1, <1>4 DEF HandleSend, managerVars, countVars, pipeVars
<1>5. ASSUME NEW l \in Limits, NEW n \in BufferSizes, SetLimits(l, n) PROVE Room'
  <2>1. maxBuffer' <= Largest /\ UNCHANGED <<msgBuffer, flush, flushed, pipePc>>
    BY <1>5, LargestLimit DEF SetLimits, pipeVars
  <2>2. QED
    BY <1>0, <2>1 DEF Room
<1>6. ASSUME NEW u \in Users, NEW slash \in BOOLEAN, ReceiveMessage(u, slash)
      PROVE  Room'
  BY <1>1, <1>6 DEF ReceiveMessage, managerVars, countVars, pipeVars
<1>7. ASSUME Enqueue PROVE Room'
  BY <1>1, <1>7 DEF Enqueue, managerVars, countVars, pipeVars
<1>8. ASSUME OnUserMessage PROVE Room'
  <2>1. /\ msgBuffer' = <<>> /\ flush' = msgBuffer /\ flushed' = 0
        /\ pipePc' # "fallback" /\ maxBuffer' = maxBuffer
    BY <1>8, ResetEmptiesBuffer DEF OnUserMessage
  <2>2. Len(msgBuffer') = 0 /\ Len(flush') = Len(msgBuffer)
    BY <2>1
  <2>3. QED
    BY <1>0, <2>1, <2>2 DEF Room
<1>9. ASSUME NEW n \in 1..Len(flush), Flushed(n), flushed' = flushed + 1,
             UNCHANGED <<msgBuffer, maxBuffer>>, pipePc # "fallback" \/ n = 1
      PROVE  Room'
  <2>1. Len(flush') = Len(flush) - n /\ pipePc' # "fallback"
    BY <1>9, LeftOfFlush
  <2>2. flushed + 1 + 2 * (Len(flush) - n) <= 2 * Largest
    BY <1>0, <1>9 DEF Room
  <2>3. QED
    BY <1>0, <1>9, <2>1, <2>2 DEF Room
<1>10. ASSUME FlushText PROVE Room'
  <2>1. Cardinality(TextRun(flush)) \in 1..Len(flush)
    BY <1>0, <1>10, TextRunFacts DEF FlushText
  <2>2. QED
    BY <1>9, <1>10, <2>1 DEF FlushText, FlushCall, managerVars
<1>11. ASSUME NEW ok \in BOOLEAN, FlushFile(ok) PROVE Room'
  <2>1. 1 \in 1..Len(flush) /\ flushed' = flushed + 1 /\ pipePc = "flushing"
        /\ UNCHANGED <<msgBuffer, maxBuffer>>
    BY <1>11, MediumAlone DEF FlushFile, FlushCall, managerVars
  <2>2. CASE Flushed(1)
    BY <1>9, <2>1, <2>2
  <2>3. CASE pipePc' = "fallback" /\ UNCHANGED flush
    BY <1>0, <2>1, <2>3 DEF Room
  <2>4. QED
    BY <1>11, <2>2, <2>3 DEF FlushFile
<1>12. ASSUME FlushFallback PROVE Room'
  BY <1>9, <1>12, MediumAlone DEF FlushFallback, FlushCall, managerVars
<1>13. ASSUME BeginFlush PROVE Room'
  <2>1. /\ UNCHANGED <<msgBuffer, maxBuffer, flushed>>
        /\ pipePc = "collected" /\ pipePc' # "fallback"
        /\ flush' = flush \/ flush' = <<>>
    BY <1>13 DEF BeginFlush, managerVars, countVars
  <2>2. Len(flush') <= Len(flush) /\ Len(flush') \in Nat
    BY <1>0, <2>1
  <2>3. QED
    BY <1>0, <2>1, <2>2 DEF Room
<1>14. ASSUME Pipeline PROVE Room'
  BY <1>8, <1>10, <1>11, <1>12, <1>13, <1>14 DEF Pipeline
<1>15. CASE UNCHANGED vars
  BY <1>1, <1>15 DEF vars, managerVars, countVars, pipeVars
<1>16. QED
  BY <1>3, <1>4, <1>5, <1>6, <1>7, <1>14, <1>15 DEF Next

\* A round makes a bounded number of calls.
THEOREM RoundBounded == Spec => []CallsPerRound
<1>1. Init => Room
  <2> SUFFICES ASSUME Init PROVE Room
    OBVIOUS
  <2>1. /\ maxBuffer = InitMaxBuffer /\ Len(msgBuffer) = 0 /\ Len(flush) = 0
        /\ flushed = 0 /\ pipePc # "fallback"
    BY DEF Init
  <2>2. QED
    BY <2>1, LargestLimit DEF Room
<1>2. IInv /\ Room /\ [Next]_vars => Room'
  BY NextRoom
<1>3. ASSUME IInv, Room PROVE CallsPerRound
  <2>1. /\ spent \in Nat /\ sendBudget \in Nat /\ granted \in Nat /\ flushed \in Nat
        /\ spent + sendBudget = granted /\ Len(flush) \in Nat
    BY <1>3, LenProperties DEF IInv, TypeOK
  <2>2. Len(flush) = 0 => pipePc # "fallback"
    <3>1. flush \in Seq(BufferedMessage)
      BY <1>3 DEF IInv, TypeOK
    <3>2. QED
      BY <1>3, <3>1, EmptySeq DEF IInv
  <2>3. flushed <= 2 * Largest
    BY <1>3, <2>1, <2>2, LargestLimit DEF Room
  <2>4. QED
    BY <2>1, <2>3, LargestLimit DEF CallsPerRound, Largest
<1>4. QED
  BY <1>1, <1>2, <1>3, Invariance, PTL DEF Spec

-----------------------------------------------------------------------------
(* Reminders.                                                              *)

\* A reminder is due once between two resets: bufferMode is set with it and
\* cleared only by a reset.
Reminded ==
  /\ IsFiniteSet(Reminders) /\ IsFiniteSet(Reminding)
  /\ Cardinality(Reminders) + Cardinality(Reminding)
       <= Processed + (IF bufferMode THEN 1 ELSE 0)

LEMMA InitReminded == Init => Reminded
<1> SUFFICES ASSUME Init PROVE Reminded
  OBVIOUS
<1>1. Reminders = {} /\ Reminding = {}
  BY DEF Init, Reminders, Reminding
<1>2. Processed = 0 /\ bufferMode = FALSE
  <2>1. replies = 0 /\ Len(msgCh) = 0 /\ inHand = NoReply /\ bufferMode = FALSE
    BY DEF Init
  <2>2. QED
    BY <2>1 DEF Processed
<1>3. QED
  BY <1>1, <1>2, FS_EmptySet DEF Reminded

\* What most steps do: no reminder more, no message processed.
LEMMA RemindedUnchanged ==
  ASSUME Reminded, UNCHANGED <<Reminders, Reminding, Processed, bufferMode>>
  PROVE  Reminded'
BY DEF Reminded

\* A call that is no reminder.
LEMMA NoReminder ==
  ASSUME wire \in Seq(Call), NEW c \in Call, wire' = Append(wire, c),
         c.via # "reminder"
  PROVE  Reminders' = Reminders
BY CallRecorded DEF Reminders

LEMMA NextReminded == IInv /\ Reminded /\ [Next]_vars => Reminded'
<1> SUFFICES ASSUME IInv, Reminded, [Next]_vars PROVE Reminded'
  OBVIOUS
<1>0. /\ wire \in Seq(Call) /\ msgCh \in Seq(Reply) /\ Len(msgCh) \in Nat
      /\ replies \in Nat /\ bufferMode \in BOOLEAN
      /\ inHand \in Reply \cup {NoReply}
      /\ Cardinality(Reminders) \in Nat /\ Cardinality(Reminding) \in Nat
  BY LenProperties, FS_CardinalityType DEF IInv, TypeOK, Reminded
<1>1. ASSUME UNCHANGED <<wire, reqPc, replies, msgCh, inHand, bufferMode>>
      PROVE  Reminded'
  BY <1>1, RemindedUnchanged DEF Reminders, Reminding, Processed
<1>2. ASSUME NEW h \in Senders, BudgetedSend(h) PROVE Reminded'
  <2> DEFINE m == [reqMsg[h] EXCEPT !.id = nextId]
  <2>1. /\ reqPc[h] = "resolved" /\ (Spend(h, m) \/ EnterBuffer(h, m))
        /\ UNCHANGED <<wire, replies, msgCh, inHand>>
    BY <1>2 DEF BudgetedSend, clientVars
  <2> HIDE DEF m
  <2>2. Reminders' = Reminders /\ Processed' = Processed
    BY <2>1 DEF Reminders, Processed
  <2>3. CASE Spend(h, m)
    <3>1. Reminding' = Reminding /\ bufferMode' = bufferMode
      BY <2>1, <2>3 DEF Spend, Reminding, IInv, TypeOK
    <3>2. QED
      BY <2>2, <3>1, RemindedUnchanged
  <2>4. CASE EnterBuffer(h, m) /\ bufferMode
    <3>1. Reminding' = Reminding /\ bufferMode' = bufferMode
      BY <2>1, <2>4 DEF EnterBuffer, enterBufferModeLocked, Reminding, IInv, TypeOK
    <3>2. QED
      BY <2>2, <3>1, RemindedUnchanged
  <2>5. CASE EnterBuffer(h, m) /\ ~bufferMode
    <3>1. Reminding' = Reminding \cup {h} /\ h \notin Reminding /\ bufferMode' = TRUE
      BY <2>1, <2>5 DEF EnterBuffer, enterBufferModeLocked, Reminding, IInv, TypeOK
    <3>2. IsFiniteSet(Reminding')
          /\ Cardinality(Reminding') = Cardinality(Reminding) + 1
      BY <3>1, FS_AddElement DEF Reminded
    <3>3. Processed \in Int
      BY <1>0 DEF Processed
    <3>4. QED
      BY <1>0, <2>2, <2>5, <3>1, <3>2, <3>3 DEF Reminded
  <2>6. QED
    BY <2>1, <2>3, <2>4, <2>5
<1>3. ASSUME NEW h \in Senders, FinishSend(h) PROVE Reminded'
  <2> DEFINE c == [via |-> "direct", ids |-> <<reqMsg[h].id>>,
                   as |-> reqMsg[h].kind, to |-> reqMsg[h].to]
  <2>1. reqMsg[h] \in Message
    BY <1>3 DEF FinishSend, IInv
  <2>2. c \in Call /\ wire' = Append(wire, c) /\ c.via # "reminder"
    BY <1>3, <2>1, BudgetAssumption DEF FinishSend, Message, Call
  <2> HIDE DEF c
  <2>3. Reminders' = Reminders
    BY <1>0, <2>2, NoReminder
  <2>4. UNCHANGED <<Reminding, Processed, bufferMode>>
    BY <1>3 DEF FinishSend, managerVars, clientVars, Reminding, Processed, IInv, TypeOK
  <2>5. QED
    BY <2>3, <2>4, RemindedUnchanged
<1>4. ASSUME NEW h \in Senders, sendBufferActivationReminder(h) PROVE Reminded'
  <2> DEFINE c == [via |-> "reminder", ids |-> <<>>, as |-> "text",
                   to |-> lastContact]
  <2>1. UNCHANGED <<Processed, bufferMode>>
    BY <1>4 DEF sendBufferActivationReminder, managerVars, clientVars, Processed
  <2>2. Reminding' = Reminding \ {h} /\ h \in Reminding
    BY <1>4 DEF sendBufferActivationReminder, Reminding, IInv, TypeOK
  <2>3. IsFiniteSet(Reminding') /\ Cardinality(Reminding') = Cardinality(Reminding) - 1
    BY <2>2, FS_RemoveElement DEF Reminded
  <2>4. /\ IsFiniteSet(Reminders')
        /\ Cardinality(Reminders') \in {Cardinality(Reminders), Cardinality(Reminders) + 1}
    <3>1. CASE lastContact = NoUser
      BY <1>4, <3>1 DEF sendBufferActivationReminder, Reminders, Reminded
    <3>2. CASE lastContact # NoUser
      <4>1. c \in Call /\ wire' = Append(wire, c)
        BY <1>4, <3>2 DEF sendBufferActivationReminder, Call, MediaTypes, IInv, TypeOK
      <4> HIDE DEF c
      <4>2. Reminders' \subseteq Reminders \cup {Len(wire) + 1}
            /\ Reminders \subseteq Reminders'
        BY <1>0, <4>1, CallRecorded DEF Reminders
      <4>3. Reminders' = Reminders \/ Reminders' = Reminders \cup {Len(wire) + 1}
        BY <4>2
      <4>4. QED
        BY <4>3, FS_AddElement DEF Reminded
    <3>3. QED
      BY <3>1, <3>2
  <2>5. Processed \in Int
    BY <1>0 DEF Processed
  <2>6. QED
    BY <1>0, <2>1, <2>3, <2>4, <2>5 DEF Reminded
<1>5. ASSUME NEW h \in Senders, Handler(h) PROVE Reminded'
  BY <1>2, <1>3, <1>4, <1>5 DEF Handler
<1>6. ASSUME NEW h \in Senders, NEW k \in Kinds, NEW u \in Users \cup {NoUser},
             HandleSend(h, k, u)
      PROVE  Reminded'
  <2>1. UNCHANGED <<Reminders, Processed, bufferMode>>
    BY <1>6 DEF HandleSend, managerVars, clientVars, Reminders, Processed
  <2>2. UNCHANGED Reminding
    BY <1>6 DEF HandleSend, Reminding, IInv, TypeOK
  <2>3. QED
    BY <2>1, <2>2, RemindedUnchanged
<1>7. ASSUME NEW l \in Limits, NEW n \in BufferSizes, SetLimits(l, n) PROVE Reminded'
  BY <1>1, <1>7 DEF SetLimits, reqVars, clientVars
<1>8. ASSUME NEW u \in Users, NEW slash \in BOOLEAN, ReceiveMessage(u, slash)
      PROVE  Reminded'
  <2>1. inHand = NoReply /\ inHand' # NoReply
        /\ replies' = replies + 1 /\ msgCh' = msgCh
    BY <1>8, BudgetAssumption DEF ReceiveMessage, NoReply
  <2>2. Processed' = Processed
    BY <1>0, <2>1 DEF Processed
  <2>3. UNCHANGED <<Reminders, Reminding, bufferMode>>
    BY <1>8 DEF ReceiveMessage, managerVars, reqVars, Reminders, Reminding
  <2>4. QED
    BY <2>2, <2>3, RemindedUnchanged
<1>9. ASSUME Enqueue PROVE Reminded'
  <2>1. /\ inHand # NoReply /\ inHand' = NoReply /\ replies' = replies
        /\ msgCh' = Append(msgCh, inHand)
    BY <1>9 DEF Enqueue
  <2>2. Len(msgCh') = Len(msgCh) + 1
    BY <1>0, <2>1, AppendProperties
  <2>3. Processed' = Processed
    BY <1>0, <2>1, <2>2 DEF Processed
  <2>4. UNCHANGED <<Reminders, Reminding, bufferMode>>
    BY <1>9 DEF Enqueue, managerVars, reqVars, Reminders, Reminding
  <2>5. QED
    BY <2>3, <2>4, RemindedUnchanged
<1>10. ASSUME OnUserMessage PROVE Reminded'
  <2>1. /\ msgCh # <<>> /\ msgCh' = Tail(msgCh)
        /\ replies' = replies /\ inHand' = inHand /\ bufferMode' = FALSE
        /\ UNCHANGED <<Reminders, Reminding>>
    BY <1>10 DEF OnUserMessage, reqVars, Reminders, Reminding
  <2>2. Len(msgCh') = Len(msgCh) - 1
    BY <1>0, <2>1, HeadTailProperties
  <2>3. Processed' = Processed + 1 /\ Processed \in Int
    BY <1>0, <2>1, <2>2 DEF Processed
  <2>4. QED
    BY <1>0, <2>1, <2>3 DEF Reminded
<1>11. ASSUME NEW ids \in Seq(Nat), NEW kind \in MediaTypes, FlushCall(ids, kind),
              flushTo # NoUser, UNCHANGED <<managerVars, clientVars, reqVars>>
       PROVE  Reminded'
  <2> DEFINE c == [via |-> "flush", ids |-> ids, as |-> kind, to |-> flushTo]
  <2>1. c \in Call /\ wire' = Append(wire, c) /\ c.via # "reminder"
    BY <1>11 DEF FlushCall, Call, IInv, TypeOK
  <2> HIDE DEF c
  <2>2. UNCHANGED <<Reminding, Processed, bufferMode>>
    BY <1>11 DEF managerVars, clientVars, reqVars, Reminding, Processed
  <2>3. QED
    BY <1>0, <2>1, <2>2, NoReminder, RemindedUnchanged
<1>12. ASSUME FlushText PROVE Reminded'
  <2>1. Ids(SubSeq(flush, 1, Cardinality(TextRun(flush)))) \in Seq(Nat)
        /\ "text" \in MediaTypes
    BY TextRunFacts, RestOfFlush DEF IInv, TypeOK, MediaTypes
  <2>2. QED
    BY <1>11, <1>12, <2>1 DEF FlushText, IInv
<1>13. ASSUME NEW ok \in BOOLEAN, FlushFile(ok) PROVE Reminded'
  <2>1. <<flush[1].id>> \in Seq(Nat) /\ "file" \in MediaTypes
    BY <1>13, MediumAlone DEF FlushFile, MediaTypes
  <2>2. QED
    BY <1>11, <1>13, <2>1 DEF FlushFile, IInv
<1>14. ASSUME FlushFallback PROVE Reminded'
  BY <1>11, <1>14, MediumAlone DEF FlushFallback, IInv
<1>15. ASSUME BeginFlush PROVE Reminded'
  BY <1>1, <1>15 DEF BeginFlush, managerVars, clientVars, reqVars
<1>16. ASSUME Pipeline PROVE Reminded'
  BY <1>10, <1>12, <1>13, <1>14, <1>15, <1>16 DEF Pipeline
<1>17. CASE UNCHANGED vars
  BY <1>1, <1>17 DEF vars, managerVars, clientVars, reqVars
<1>18. QED
  BY <1>5, <1>6, <1>7, <1>8, <1>9, <1>16, <1>17 DEF Next

\* At most one reminder a round.
THEOREM ReminderOnce == Spec => []ReminderOncePerRound
<1>1. Init => Reminded
  BY InitReminded
<1>2. IInv /\ Reminded /\ [Next]_vars => Reminded'
  BY NextReminded
<1>3. ASSUME IInv, Reminded PROVE ReminderOncePerRound
  <2>1. Cardinality(Reminders) \in Nat /\ Cardinality(Reminding) \in Nat
    BY <1>3, FS_CardinalityType DEF Reminded
  <2>2. Processed \in Int
    BY <1>3, LenProperties DEF IInv, TypeOK, Processed
  <2>3. QED
    BY <1>3, <2>1, <2>2 DEF Reminded, ReminderOncePerRound
<1>4. QED
  BY <1>1, <1>2, <1>3, Invariance, PTL DEF Spec
=============================================================================
