------------------------- MODULE MediaUploadProofs -------------------------
(***************************************************************************)
(* Theorems about MediaUpload, for files of every size, any number of      *)
(* uploads at once and any number of rewrites of the file.                 *)
(***************************************************************************)
EXTENDS MediaUpload, TLAPS

\* computeCiphertextSize agrees with pkcs7Pad except when the plaintext is
\* one byte short of a multiple of 16: then it is a block too long.
THEOREM CiphertextSize ==
  ASSUME NEW n \in Nat
  PROVE  /\ n % 16 # 15 => computeCiphertextSize(n) = pkcs7Pad(n)
         /\ n % 16 = 15 => computeCiphertextSize(n) = pkcs7Pad(n) + 16
BY SMT DEF computeCiphertextSize, pkcs7Pad, BlockSize

\* Padding always adds between one byte and a block, and fills the last one.
LEMMA PaddedLength ==
  ASSUME NEW n \in Nat
  PROVE  /\ pkcs7Pad(n) \in Nat /\ computeCiphertextSize(n) \in Nat
         /\ pkcs7Pad(n) % 16 = 0
         /\ pkcs7Pad(n) - n \in 1..16
BY SMT DEF computeCiphertextSize, pkcs7Pad, BlockSize

LEMMA InitIInv == Init => IInv
<1> SUFFICES ASSUME Init PROVE IInv
  OBVIOUS
<1>0. [size |-> 0, version |-> 0] \in File
  BY DEF File
<1>1. file \in File
  BY UploadAssumption DEF Init, File
<1>2. TypeOK
  BY <1>0, <1>1 DEF Init, TypeOK
<1>3. QED
  BY <1>2 DEF Init, IInv

LEMMA RewriteStep ==
  ASSUME IInv, NEW size \in FileSizes, Rewrite(size)
  PROVE  IInv'
<1>1. file' \in File
  BY UploadAssumption DEF Rewrite, IInv, TypeOK, File
<1>2. QED
  BY <1>1 DEF Rewrite, IInv, TypeOK

LEMMA HandleSendMediaStep ==
  ASSUME IInv, NEW u \in Uploads, handleSendMedia(u)
  PROVE  IInv'
BY DEF handleSendMedia, IInv, TypeOK

LEMMA ReadFileStep ==
  ASSUME IInv, NEW u \in Uploads, ReadFile(u)
  PROVE  IInv'
BY DEF ReadFile, Fail, IInv, TypeOK, Slot, Object, CDNMessage

\* A step that gives up changes only where the upload is.
LEMMA FailStep ==
  ASSUME IInv, NEW u \in Uploads, pc[u] \in {"accepted", "read", "url", "uploaded"},
         Fail(u), UNCHANGED <<file, data>>,
         slots' = slots \/
           (pc[u] = "read" /\ slots' = slots \cup
              {[of |-> u, rawsize |-> data[u].size,
                filesize |-> computeCiphertextSize(data[u].size)]}),
         objects' = objects \/
           (pc[u] = "url" /\ objects' = objects \cup
              {[of |-> u, plain |-> data[u], bytes |-> pkcs7Pad(data[u].size),
                key |-> u]}),
         messages' = messages \/
           (pc[u] = "uploaded" /\ messages' = messages \cup
              {[of |-> u, key |-> u, len |-> data[u].size,
                video_size |-> computeCiphertextSize(data[u].size)]})
  PROVE  IInv'
<1>1. /\ data[u] \in File /\ pkcs7Pad(data[u].size) \in Nat
      /\ data[u].size \in Nat /\ computeCiphertextSize(data[u].size) \in Nat
  BY PaddedLength DEF IInv, TypeOK, File
<1>2. /\ slots' \subseteq Slot /\ objects' \subseteq Object
      /\ messages' \subseteq CDNMessage
  BY <1>1 DEF IInv, TypeOK, Slot, Object, CDNMessage
<1>3. TypeOK'
  BY <1>2 DEF Fail, IInv, TypeOK
<1>4. \A v \in Uploads : pc'[v] = IF v = u THEN "done" ELSE pc[v]
  BY DEF Fail, IInv, TypeOK
<1>5. QED
  BY <1>3, <1>4 DEF IInv, TypeOK, Object, Slot, CDNMessage

LEMMA GetUploadURLStep ==
  ASSUME IInv, NEW u \in Uploads, GetUploadURL(u)
  PROVE  IInv'
<1> DEFINE s0 == [of |-> u, rawsize |-> data[u].size,
                  filesize |-> computeCiphertextSize(data[u].size)]
<1>1. CASE Fail(u)
  BY <1>1, FailStep DEF GetUploadURL
<1>2. CASE slots' = slots \cup {s0} /\ pc' = [pc EXCEPT ![u] = "url"]
           /\ UNCHANGED result
  <2>1. s0 \in Slot
    BY PaddedLength DEF IInv, TypeOK, File, Slot
  <2>2. TypeOK'
    BY <1>2, <2>1 DEF GetUploadURL, IInv, TypeOK
  <2>3. \A v \in Uploads : pc'[v] = IF v = u THEN "url" ELSE pc[v]
    BY <1>2 DEF IInv, TypeOK
  <2>4. UNCHANGED <<data, objects, messages>> /\ pc[u] = "read"
    BY DEF GetUploadURL
  <2>5. slots \subseteq slots' /\ s0 \in slots' /\ s0.of = u
    BY <1>2
  <2>6. ASSUME NEW s \in slots'
        PROVE  /\ pc'[s.of] \in {"url", "uploaded", "done"}
               /\ s.filesize = computeCiphertextSize(data'[s.of].size)
    <3>1. CASE s = s0
      BY <2>3, <2>4, <3>1
    <3>2. CASE s \in slots
      BY <2>3, <2>4, <3>2 DEF IInv, TypeOK, Slot
    <3>3. QED
      BY <1>2, <3>1, <3>2
  <2> HIDE DEF s0
  <2>7. ASSUME NEW o \in objects'
        PROVE  /\ pc'[o.of] \in {"uploaded", "done"}
               /\ o.plain = data'[o.of] /\ o.key = o.of
               /\ o.bytes = pkcs7Pad(o.plain.size)
               /\ \E s \in slots' : s.of = o.of
    BY <2>3, <2>4, <2>5 DEF IInv, TypeOK, Object
  <2>8. ASSUME NEW v \in Uploads
        PROVE  /\ pc'[v] = "url" => \E s \in slots' : s.of = v
               /\ pc'[v] = "uploaded" => \E o \in objects' : o.of = v
    BY <2>3, <2>4, <2>5 DEF IInv
  <2>9. ASSUME NEW m \in messages'
        PROVE  /\ pc'[m.of] = "done" /\ m.key = m.of /\ m.len = data'[m.of].size
               /\ \E o \in objects' : o.of = m.of
    BY <2>3, <2>4 DEF IInv, TypeOK, CDNMessage
  <2>10. QED
    BY <2>2, <2>6, <2>7, <2>8, <2>9 DEF IInv
<1>3. QED
  BY <1>1, <1>2 DEF GetUploadURL

LEMMA UploadToCDNStep ==
  ASSUME IInv, NEW u \in Uploads, UploadToCDN(u)
  PROVE  IInv'
<1> DEFINE o0 == [of |-> u, plain |-> data[u],
                  bytes |-> pkcs7Pad(data[u].size), key |-> u]
<1>1. CASE Fail(u)
  BY <1>1, FailStep DEF UploadToCDN
<1>2. CASE objects' = objects \cup {o0} /\ pc' = [pc EXCEPT ![u] = "uploaded"]
           /\ UNCHANGED result
  <2>1. o0 \in Object
    BY PaddedLength DEF IInv, TypeOK, File, Object
  <2>2. TypeOK'
    BY <1>2, <2>1 DEF UploadToCDN, IInv, TypeOK
  <2>3. \A v \in Uploads : pc'[v] = IF v = u THEN "uploaded" ELSE pc[v]
    BY <1>2 DEF IInv, TypeOK
  <2>4. /\ UNCHANGED <<data, slots, messages>> /\ pc[u] = "url"
        /\ \E s \in slots : s.of = u
    BY <1>2 DEF UploadToCDN, IInv
  <2>5. ASSUME NEW o \in objects'
        PROVE  /\ pc'[o.of] \in {"uploaded", "done"}
               /\ o.plain = data'[o.of] /\ o.key = o.of
               /\ o.bytes = pkcs7Pad(o.plain.size)
               /\ \E s \in slots' : s.of = o.of
    <3>1. CASE o = o0
      BY <2>3, <2>4, <3>1
    <3>2. CASE o \in objects
      BY <2>3, <2>4, <3>2 DEF IInv, TypeOK, Object
    <3>3. QED
      BY <1>2, <3>1, <3>2
  <2>6. ASSUME NEW s \in slots'
        PROVE  /\ pc'[s.of] \in {"url", "uploaded", "done"}
               /\ s.filesize = computeCiphertextSize(data'[s.of].size)
    BY <2>3, <2>4 DEF IInv, TypeOK, Slot
  <2>7. ASSUME NEW v \in Uploads
        PROVE  /\ pc'[v] = "url" => \E s \in slots' : s.of = v
               /\ pc'[v] = "uploaded" => \E o \in objects' : o.of = v
    <3>1. o0 \in objects' /\ o0.of = u /\ objects \subseteq objects'
      BY <1>2
    <3> HIDE DEF o0
    <3>2. QED
      BY <2>3, <2>4, <3>1 DEF IInv
  <2>8. ASSUME NEW m \in messages'
        PROVE  /\ pc'[m.of] = "done" /\ m.key = m.of /\ m.len = data'[m.of].size
               /\ \E o \in objects' : o.of = m.of
    BY <1>2, <2>3, <2>4 DEF IInv, TypeOK, CDNMessage
  <2>9. QED
    BY <2>2, <2>5, <2>6, <2>7, <2>8 DEF IInv
<1>3. QED
  BY <1>1, <1>2 DEF UploadToCDN

LEMMA SendItemStep ==
  ASSUME IInv, NEW u \in Uploads, SendItem(u)
  PROVE  IInv'
<1> DEFINE m0 == [of |-> u, key |-> u, len |-> data[u].size,
                  video_size |-> computeCiphertextSize(data[u].size)]
<1>1. CASE Fail(u)
  BY <1>1, FailStep DEF SendItem
<1>2. CASE /\ messages' = messages \cup {m0}
           /\ pc' = [pc EXCEPT ![u] = "done"] /\ result' = [result EXCEPT ![u] = "sent"]
  <2>1. m0 \in CDNMessage
    BY PaddedLength DEF IInv, TypeOK, File, CDNMessage
  <2>2. TypeOK'
    BY <1>2, <2>1 DEF SendItem, IInv, TypeOK
  <2>3. \A v \in Uploads : pc'[v] = IF v = u THEN "done" ELSE pc[v]
    BY <1>2 DEF IInv, TypeOK
  <2>4. /\ UNCHANGED <<data, slots, objects>> /\ pc[u] = "uploaded"
        /\ \E o \in objects : o.of = u
    BY <1>2 DEF SendItem, IInv
  <2>5. ASSUME NEW o \in objects'
        PROVE  /\ pc'[o.of] \in {"uploaded", "done"}
               /\ o.plain = data'[o.of] /\ o.key = o.of
               /\ o.bytes = pkcs7Pad(o.plain.size)
               /\ \E s \in slots' : s.of = o.of
    BY <2>3, <2>4 DEF IInv, TypeOK, Object
  <2>6. ASSUME NEW s \in slots'
        PROVE  /\ pc'[s.of] \in {"url", "uploaded", "done"}
               /\ s.filesize = computeCiphertextSize(data'[s.of].size)
    BY <2>3, <2>4 DEF IInv, TypeOK, Slot
  <2>7. ASSUME NEW v \in Uploads
        PROVE  /\ pc'[v] = "url" => \E s \in slots' : s.of = v
               /\ pc'[v] = "uploaded" => \E o \in objects' : o.of = v
    BY <2>3, <2>4 DEF IInv
  <2>8. ASSUME NEW m \in messages'
        PROVE  /\ pc'[m.of] = "done" /\ m.key = m.of /\ m.len = data'[m.of].size
               /\ \E o \in objects' : o.of = m.of
    <3>1. CASE m = m0
      BY <2>3, <2>4, <3>1
    <3>2. CASE m \in messages
      BY <2>3, <2>4, <3>2 DEF IInv, TypeOK, CDNMessage
    <3>3. QED
      BY <1>2, <3>1, <3>2
  <2>9. QED
    BY <2>2, <2>5, <2>6, <2>7, <2>8 DEF IInv
<1>3. QED
  BY <1>1, <1>2 DEF SendItem

LEMMA NextIInv == IInv /\ [Next]_vars => IInv'
<1> SUFFICES ASSUME IInv, [Next]_vars PROVE IInv'
  OBVIOUS
<1>1. CASE UNCHANGED vars
  BY <1>1 DEF vars, IInv, TypeOK
<1>2. QED
  BY <1>1, RewriteStep, HandleSendMediaStep, ReadFileStep, GetUploadURLStep,
     UploadToCDNStep, SendItemStep DEF Next, Upload

\* The invariant both properties below follow from.
THEOREM Invariance == Spec => []IInv
BY InitIInv, NextIInv, PTL DEF Spec

\* Whatever happens to the file and whichever calls fail, a message names an
\* object that exists, with its key and its length.
THEOREM MessagesResolvable == Spec => []MessageMatchesObject
<1>1. IInv => MessageMatchesObject
  BY DEF IInv, TypeOK, CDNMessage, MessageMatchesObject
<1>2. QED
  BY <1>1, Invariance, PTL

\* The declared ciphertext size is right for every file but those of length
\* 15 modulo 16.
THEOREM DeclaredSizes == Spec => []SizeWrongOnlyAt15
<1>1. ASSUME IInv, NEW o \in objects
      PROVE  \E s \in slots :
               /\ s.of = o.of
               /\ o.plain.size % BlockSize # BlockSize - 1 => s.filesize = o.bytes
  <2>1. PICK s \in slots : s.of = o.of
    BY <1>1 DEF IInv
  <2>2. /\ o.plain = data[o.of] /\ o.bytes = pkcs7Pad(o.plain.size)
        /\ s.filesize = computeCiphertextSize(o.plain.size)
        /\ o.plain.size \in Nat
    BY <1>1, <2>1 DEF IInv, TypeOK, Object, File
  <2>3. o.plain.size % 16 # 15 =>
          computeCiphertextSize(o.plain.size) = pkcs7Pad(o.plain.size)
    BY <2>2, CiphertextSize
  <2>4. QED
    BY <2>1, <2>2, <2>3 DEF BlockSize
<1>2. IInv => SizeWrongOnlyAt15
  BY <1>1 DEF SizeWrongOnlyAt15
<1>3. QED
  BY <1>2, Invariance, PTL
=============================================================================
