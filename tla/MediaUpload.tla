---------------------------- MODULE MediaUpload ----------------------------
(***************************************************************************)
(* Sending an image, a file or a video: the checks of handleSendMedia      *)
(* (api/wechat_bot.go), UploadFile and the Send* methods of client.go, the *)
(* encryption of cdn.go.  The file belongs to somebody else, who may       *)
(* rewrite it at any time; the request may wait in the buffer between the  *)
(* check and the upload; every call may fail.  A key is the upload that    *)
(* made it and a ciphertext is its length, key and plaintext.              *)
(***************************************************************************)
EXTENDS Integers, FiniteSets

CONSTANTS
  Uploads,        \* media requests in a behaviour
  FileSizes,      \* sizes the file may have
  MaxFileSize,    \* 50 MB in the code
  MaxRewrites     \* bound: how often the file is rewritten

ASSUME UploadAssumption ==
  /\ FileSizes \subseteq Nat
  /\ MaxFileSize \in Nat /\ MaxRewrites \in Nat

BlockSize == 16   \* aes.BlockSize

VARIABLES
  file,      \* the file on disk: its size, and how often it was rewritten
  pc, data,  \* each upload: where it is, and what it read of the file
  slots,     \* what getuploadurl was told of each file
  objects,   \* what is on the CDN
  messages,  \* the media messages sent
  result     \* each upload: "none", "sent" or "error"

vars == <<file, pc, data, slots, objects, messages, result>>

File   == [size : Nat, version : Nat]
Slot   == [of : Uploads, rawsize : Nat, filesize : Nat]
Object == [of : Uploads, plain : File, bytes : Nat, key : Uploads]
CDNMessage == [of : Uploads, key : Uploads, len : Nat, video_size : Nat]

-----------------------------------------------------------------------------
\* The length of pkcs7Pad(data): 1 to blockSize bytes are added.
pkcs7Pad(n) == n + (BlockSize - (n % BlockSize))

\* Faulty variants, named for the slip, precede the definition they vary.
CeilingOnly(plaintextSize) == ((plaintextSize + 15) \div 16) * 16
computeCiphertextSize(plaintextSize) == ((plaintextSize + 1) \div 16 + 1) * 16

-----------------------------------------------------------------------------
Init ==
  /\ \E size \in FileSizes : file = [size |-> size, version |-> 0]
  /\ pc = [u \in Uploads |-> "idle"]
  /\ data = [u \in Uploads |-> [size |-> 0, version |-> 0]]
  /\ slots = {} /\ objects = {} /\ messages = {}
  /\ result = [u \in Uploads |-> "none"]

Rewrite(size) ==
  /\ file.version < MaxRewrites
  /\ file' = [size |-> size, version |-> file.version + 1]
  /\ UNCHANGED <<pc, data, slots, objects, messages, result>>

Fail(u) ==
  /\ pc' = [pc EXCEPT ![u] = "done"]
  /\ result' = [result EXCEPT ![u] = "error"]

\* os.Stat and the size limit; from here on the request is accepted.
handleSendMedia(u) ==
  /\ pc[u] = "idle" /\ file.size <= MaxFileSize
  /\ pc' = [pc EXCEPT ![u] = "accepted"]
  /\ UNCHANGED <<file, data, slots, objects, messages, result>>

ReadFile(u) ==
  /\ pc[u] = "accepted"
  /\ \/ /\ data' = [data EXCEPT ![u] = file]
        /\ pc' = [pc EXCEPT ![u] = "read"] /\ UNCHANGED result
     \/ Fail(u) /\ UNCHANGED data
  /\ UNCHANGED <<file, slots, objects, messages>>

\* The answer may be lost after the server has noted the file.
GetUploadURL(u) ==
  /\ pc[u] = "read"
  /\ \/ slots' = slots \cup
          {[of |-> u, rawsize |-> data[u].size,
            filesize |-> computeCiphertextSize(data[u].size)]}
     \/ UNCHANGED slots
  /\ \/ /\ slots' # slots
        /\ pc' = [pc EXCEPT ![u] = "url"] /\ UNCHANGED result
     \/ Fail(u)
  /\ UNCHANGED <<file, data, objects, messages>>

RereadsFile(u) ==
  /\ pc[u] = "url"
  /\ objects' = objects \cup
       {[of |-> u, plain |-> file, bytes |-> pkcs7Pad(file.size), key |-> u]}
  /\ pc' = [pc EXCEPT ![u] = "uploaded"]
  /\ UNCHANGED <<file, data, slots, messages, result>>
IgnoresError(u) ==
  /\ pc[u] = "url"
  /\ pc' = [pc EXCEPT ![u] = "uploaded"]
  /\ UNCHANGED <<file, data, slots, objects, messages, result>>
\* It may be lost after the CDN has stored the object, too.
UploadToCDN(u) ==
  /\ pc[u] = "url"
  /\ \/ objects' = objects \cup
          {[of |-> u, plain |-> data[u],
            bytes |-> pkcs7Pad(data[u].size), key |-> u]}
     \/ UNCHANGED objects
  /\ \/ /\ objects' # objects
        /\ pc' = [pc EXCEPT ![u] = "uploaded"] /\ UNCHANGED result
     \/ Fail(u)
  /\ UNCHANGED <<file, data, slots, messages>>

\* SendImage, SendFile and SendVideo differ in which size the item carries.
\* Here too the message may have gone out although the call fails.
SendItem(u) ==
  /\ pc[u] = "uploaded"
  /\ \/ messages' = messages \cup
          {[of |-> u, key |-> u, len |-> data[u].size,
            video_size |-> computeCiphertextSize(data[u].size)]}
     \/ UNCHANGED messages
  /\ \/ /\ messages' # messages
        /\ pc' = [pc EXCEPT ![u] = "done"]
        /\ result' = [result EXCEPT ![u] = "sent"]
     \/ Fail(u)
  /\ UNCHANGED <<file, data, slots, objects>>

Upload(u) == ReadFile(u) \/ GetUploadURL(u) \/ UploadToCDN(u) \/ SendItem(u)

Next ==
  \/ \E u \in Uploads : handleSendMedia(u) \/ Upload(u)
  \/ \E size \in FileSizes : Rewrite(size)

Spec == Init /\ [][Next]_vars

-----------------------------------------------------------------------------
TypeOK ==
  /\ file \in File /\ data \in [Uploads -> File]
  /\ pc \in [Uploads -> {"idle", "accepted", "read", "url", "uploaded", "done"}]
  /\ slots \subseteq Slot /\ objects \subseteq Object
  /\ messages \subseteq CDNMessage
  /\ result \in [Uploads -> {"none", "sent", "error"}]
  /\ \A u \in Uploads : pc[u] = "done" <=> result[u] # "none"

\* A message about a medium can be resolved by who receives it: the object it
\* names is on the CDN, encrypted with the key the message carries and as
\* long as it says, although the file may have changed at every step.
MessageMatchesObject ==
  \A m \in messages : \E o \in objects :
    o.of = m.of /\ o.key = m.key /\ o.plain.size = m.len

\* What getuploadurl is told of the ciphertext is what is uploaded, except
\* when the file is one byte short of a multiple of the block size.
SizeWrongOnlyAt15 ==
  \A o \in objects : \E s \in slots :
    /\ s.of = o.of
    /\ o.plain.size % BlockSize # BlockSize - 1 => s.filesize = o.bytes

\* What makes both inductive: an upload works on what it read, once.
IInv ==
  /\ TypeOK
  /\ \A o \in objects :
       /\ pc[o.of] \in {"uploaded", "done"}
       /\ o.plain = data[o.of] /\ o.key = o.of
       /\ o.bytes = pkcs7Pad(o.plain.size)
       /\ \E s \in slots : s.of = o.of
  /\ \A s \in slots :
       /\ pc[s.of] \in {"url", "uploaded", "done"}
       /\ s.filesize = computeCiphertextSize(data[s.of].size)
  /\ \A u \in Uploads : pc[u] = "url" => \E s \in slots : s.of = u
  /\ \A u \in Uploads : pc[u] = "uploaded" => \E o \in objects : o.of = u
  /\ \A m \in messages :
       /\ pc[m.of] = "done" /\ m.key = m.of /\ m.len = data[m.of].size
       /\ \E o \in objects : o.of = m.of

-----------------------------------------------------------------------------
(* What the documentation says and the code does not do.                   *)

\* cdn.go: FileSizeCiphertext is the size after AES-128-ECB and PKCS7.
DeclaredSizeIsCiphertextSize ==
  \A o \in objects, s \in slots : s.of = o.of => s.filesize = o.bytes

\* wechat_bot.go: no file above the limit is sent.
UploadWithinLimit == \A o \in objects : o.plain.size <= MaxFileSize
=============================================================================
