---------------------------- MODULE OutboundProofs ---------------------------
(***************************************************************************)
(* Proofs about Outbound, for any configurations, server URLs, bodies and  *)
(* integer width, and about the padding of MediaCodec, for data of any     *)
(* length and any block size up to 255.                                    *)
(***************************************************************************)
EXTENDS Outbound, ConfigProofs, SequenceTheorems

-----------------------------------------------------------------------------
(* The padding.                                                            *)
USE BlockAssumption

(* Padding adds 1 to BlockSize bytes and makes whole blocks.               *)
LEMMA PadLengths ==
    ASSUME NEW n \in Nat
    PROVE  /\ PadLength(n) \in 1..BlockSize
           /\ (n + PadLength(n)) % BlockSize = 0
           /\ AESECBPaddedSize(n) = n + PadLength(n)
<1> DEFINE q == n \div BlockSize
           r == n % BlockSize
<1>1. q \in Int /\ r \in 0..(BlockSize - 1) /\ n = BlockSize * q + r
  BY Division
<1> HIDE DEF q, r
<1>2. PadLength(n) = BlockSize - r /\ AESECBPaddedSize(n) = (q + 1) * BlockSize
  BY DEF PadLength, AESECBPaddedSize, q, r
<1>3. n + PadLength(n) = BlockSize * (q + 1) + 0
  BY <1>1, <1>2
<1>4. (n + PadLength(n)) % BlockSize = 0
  BY <1>1, <1>2, <1>3, Remainder, q + 1 \in Int, 0 \in 0..(BlockSize - 1)
<1> QED
  BY <1>1, <1>2, <1>3, <1>4

(* Taking 1 to BlockSize bytes away from whole blocks leaves data whose    *)
(* padding has that length.                                                *)
LEMMA PadLengthOf ==
    ASSUME NEW n \in Nat, n % BlockSize = 0, NEW k \in 1..BlockSize, k <= n
    PROVE  PadLength(n - k) = k
<1> DEFINE q == n \div BlockSize
<1>1. q \in Int /\ n = BlockSize * q
  BY Division
<1> HIDE DEF q
<1>2. CASE k = BlockSize
  <2>1. n - k = BlockSize * (q - 1) + 0
    BY <1>1, <1>2
  <2>2. (n - k) % BlockSize = 0
    BY <1>1, <2>1, Remainder, q - 1 \in Int, n - k \in Int, 0 \in 0..(BlockSize - 1)
  <2> QED
    BY <1>2, <2>2 DEF PadLength
<1>3. CASE k # BlockSize
  <2>1. n - k = BlockSize * (q - 1) + (BlockSize - k)
    BY <1>1
  <2>2. (n - k) % BlockSize = BlockSize - k
    BY <1>1, <1>3, <2>1, Remainder, q - 1 \in Int, n - k \in Int,
       BlockSize - k \in 0..(BlockSize - 1)
  <2> QED
    BY <2>2 DEF PadLength
<1> QED
  BY <1>2, <1>3
-----------------------------------------------------------------------------
LEMMA PadIsData ==
    ASSUME NEW d \in Data
    PROVE  /\ PKCS7Pad(d) \in Data
           /\ Len(PKCS7Pad(d)) = Len(d) + PadLength(Len(d))
           /\ \A i \in 1..Len(d) : PKCS7Pad(d)[i] = d[i]
           /\ \A i \in (Len(d) + 1)..Len(PKCS7Pad(d)) : PKCS7Pad(d)[i] = PadLength(Len(d))
<1> DEFINE n == Len(d)
           k == PadLength(n)
<1>0. n \in Nat /\ d \in [1..n -> Byte]
  BY LenProperties DEF Data
<1>1. k \in 1..BlockSize
  BY <1>0, PadLengths
<1> HIDE DEF n, k
<1>2. k \in Byte
  BY <1>1, BlockAssumption DEF Byte
<1>3. PKCS7Pad(d) = [i \in 1..(n + k) |-> IF i <= n THEN d[i] ELSE k]
  BY DEF PKCS7Pad, n, k
<1>4. \A i \in 1..(n + k) : (IF i <= n THEN d[i] ELSE k) \in Byte
  BY <1>0, <1>1, <1>2
<1>5. PKCS7Pad(d) \in [1..(n + k) -> Byte] /\ n + k \in Nat
  BY <1>0, <1>1, <1>3, <1>4
<1>6. PKCS7Pad(d) \in Seq(Byte) /\ Len(PKCS7Pad(d)) = n + k
  BY <1>5, SeqDef, LenProperties
<1>7. \A i \in 1..n : PKCS7Pad(d)[i] = d[i]
  BY <1>0, <1>1, <1>3
<1>8. \A i \in (n + 1)..(n + k) : PKCS7Pad(d)[i] = k
  BY <1>0, <1>1, <1>3
<1> QED
  BY <1>6, <1>7, <1>8 DEF Data, n, k

(* The size announced to the server is the size of the ciphertext          *)
(* (src/crypto.go:84-104).                                                 *)
THEOREM AnnouncedSizeIsExact ==
    ASSUME NEW d \in Data
    PROVE  AESECBPaddedSize(Len(d)) = Len(PKCS7Pad(d))
BY PadLengths, PadIsData DEF Data

(* What was padded passes the checks and comes back whole, also when it is *)
(* empty or fills its last block (src/crypto.go:48-82).                    *)
THEOREM UnpadReversesPad ==
    ASSUME NEW d \in Data
    PROVE  /\ WholeBlocks(PKCS7Pad(d)) /\ PaddingIsValid(PKCS7Pad(d))
           /\ PKCS7Unpad(PKCS7Pad(d)) = d
<1> DEFINE n == Len(d)
           k == PadLength(n)
           s == PKCS7Pad(d)
<1>1. n \in Nat /\ k \in 1..BlockSize /\ (n + k) % BlockSize = 0 /\ d \in Seq(Byte)
  BY PadLengths DEF Data
<1>2. /\ s \in Seq(Byte) /\ Len(s) = n + k
      /\ \A i \in 1..n : s[i] = d[i]
      /\ \A i \in (n + 1)..(n + k) : s[i] = k
  BY PadIsData DEF Data
<1> HIDE DEF k, s
<1>3. s[Len(s)] = k
  BY <1>1, <1>2
<1>4. WholeBlocks(s)
  <2>1. s # <<>>
    BY <1>1, <1>2
  <2> QED
    BY <1>1, <1>2, <2>1 DEF WholeBlocks
<1>5. PaddingIsValid(s)
  BY <1>1, <1>2, <1>3 DEF PaddingIsValid
<1>6. PKCS7Unpad(s) = SubSeq(s, 1, n)
  BY <1>1, <1>2, <1>3 DEF PKCS7Unpad
<1>7. SubSeq(s, 1, n) \in Seq(Byte) /\ Len(SubSeq(s, 1, n)) = n
  BY <1>1, <1>2, SubSeqProperties
<1>8. \A i \in 1..n : SubSeq(s, 1, n)[i] = d[i]
  BY <1>1, <1>2, SubSeqProperties
<1>9. SubSeq(s, 1, n) = d
  BY <1>1, <1>7, <1>8, SeqEqual
<1> QED
  BY <1>4, <1>5, <1>6, <1>9 DEF s

(* What the checks let pass has whole padding: it is the padding of what   *)
(* is returned (src/crypto.go:62-82).                                      *)
THEOREM PadReversesUnpad ==
    ASSUME NEW s \in Data, WholeBlocks(s), PaddingIsValid(s)
    PROVE  /\ PKCS7Unpad(s) \in Data
           /\ PKCS7Pad(PKCS7Unpad(s)) = s
<1> DEFINE k == s[Len(s)]
           d == PKCS7Unpad(s)
           n == Len(s) - k
<1>1. /\ s \in Seq(Byte) /\ Len(s) \in Nat /\ Len(s) > 0 /\ Len(s) % BlockSize = 0
      /\ k \in Byte
  BY DEF WholeBlocks, Data
<1>2. k # 0 /\ k <= BlockSize /\ k <= Len(s) /\ \A i \in (n + 1)..Len(s) : s[i] = k
  BY DEF PaddingIsValid
<1>3. d = SubSeq(s, 1, n)
  BY DEF PKCS7Unpad
<1> HIDE DEF k, d
<1>4. k \in 1..BlockSize /\ n \in Nat
  BY <1>1, <1>2 DEF Byte
<1>5. PadLength(n) = k
  BY <1>1, <1>2, <1>4, PadLengthOf
<1>6. n <= Len(s) /\ n + k = Len(s)
  BY <1>1, <1>4 DEF n
<1> HIDE DEF n
<1>7. d \in Seq(Byte) /\ Len(d) = n /\ \A i \in 1..n : d[i] = s[i]
  BY <1>1, <1>4, <1>3, <1>6, SubSeqProperties
<1>8. d \in Data
  BY <1>7 DEF Data
<1>9. /\ PKCS7Pad(d) \in Seq(Byte) /\ Len(PKCS7Pad(d)) = n + k
      /\ \A i \in 1..n : PKCS7Pad(d)[i] = d[i]
      /\ \A i \in (n + 1)..(n + k) : PKCS7Pad(d)[i] = k
  BY <1>5, <1>7, <1>8, PadIsData DEF Data
<1>10. \A i \in 1..(n + k) : PKCS7Pad(d)[i] = s[i]
  <2> SUFFICES ASSUME NEW i \in 1..(n + k) PROVE PKCS7Pad(d)[i] = s[i]
    OBVIOUS
  <2>1. CASE i <= n BY <2>1, <1>4, <1>7, <1>9
  <2>2. CASE i > n BY <2>2, <1>2, <1>4, <1>6, <1>9
  <2> QED
    BY <2>1, <2>2, <1>4
<1>11. PKCS7Pad(d) = s
  BY <1>1, <1>6, <1>9, <1>10, SeqEqual
<1> QED
  BY <1>8, <1>11 DEF d
-----------------------------------------------------------------------------
(* The inductive invariant, in three parts.                                *)

URLs == ServerURLs \cup {CDNBase}
Messages == {"text"} \cup Media

(* Each place belongs to one kind of call; what has been uploaded and      *)
(* accepted where.                                                         *)
CallInv ==
    /\ config \in NewClients /\ kind \in Kinds
    /\ accepted \in {0, 1} /\ uploaded \in BOOLEAN
    /\ pc \in {"geturl", "attempt", "request", "backoff"} => kind \in Media
    /\ pc \in {"submit", "answer"} => kind \in Messages
    /\ pc \in {"getconfig", "sendtyping"} => kind = "typing"
    /\ pc \in {"vet", "fetch"} => kind = "download"
    /\ pc # "returned" => result = "none"
    /\ pc \notin {"answer", "returned"} => accepted = 0
    /\ pc \in {"submit", "answer"} /\ kind \in Media => uploaded
    /\ SuccessIsDelivery

(* A request only goes to a URL that was checked.                          *)
VetInv ==
    /\ config \in NewClients
    /\ cdnURL \in URLs /\ target \in URLs
    /\ pc \in {"attempt", "request", "backoff"} => Check(policy, cdnURL)
    /\ pc \in {"request", "fetch"} => Check(policy, target)

ImageInv ==
    /\ CallInv
    /\ ImageIsWhatWasReceived /\ FittingImageIsReturned

LEMMA StepCall == CallInv /\ [Next]_vars => CallInv'
<1> SUFFICES ASSUME CallInv, [Next]_vars PROVE CallInv'
  OBVIOUS
<1> USE DEF CallInv, SuccessIsDelivery, Goto, Return, inputVars, uploadVars, submitVars,
            Media, Messages
<1>1. CASE Start BY <1>1 DEF Start, Kinds
<1>2. ASSUME NEW r \in {"getuploadurl", "no_url"}, NoUploadURL(r) PROVE CallInv'
  BY <1>2 DEF NoUploadURL
<1>3. ASSUME NEW u, UploadURL(u) PROVE CallInv'
  BY <1>3 DEF UploadURL
<1>4. ASSUME NEW u, Redirected(u) PROVE CallInv'
  BY <1>4 DEF Redirected, AttemptFails
<1>5. CASE Attempt BY <1>5 DEF Attempt
<1>6. ASSUME NEW err, UploadFails(err) PROVE CallInv'
  BY <1>6 DEF UploadFails, AttemptFails
<1>7. CASE UploadSucceeds BY <1>7 DEF UploadSucceeds
<1>8. CASE BackoffEnds BY <1>8 DEF BackoffEnds
<1>9. ASSUME NEW taken \in BOOLEAN, Submit(taken) PROVE CallInv'
  BY <1>9 DEF Submit
<1>10. ASSUME NEW seen \in BOOLEAN, Answer(seen) PROVE CallInv'
  BY <1>10 DEF Answer
<1>11. ASSUME NEW outcome \in {"ticket", "no_ticket", "error"}, GetConfig(outcome) PROVE CallInv'
  BY <1>11 DEF GetConfig
<1>12. ASSUME NEW ok \in BOOLEAN, TypingSent(ok) PROVE CallInv'
  BY <1>12 DEF TypingSent
<1>13. ASSUME NEW u, DownloadURL(u) PROVE CallInv'
  BY <1>13 DEF DownloadURL
<1>14. ASSUME NEW u, DownloadRedirected(u) PROVE CallInv'
  BY <1>14 DEF DownloadRedirected
<1>15. CASE DownloadFails BY <1>15 DEF DownloadFails
<1>16. ASSUME NEW b \in Bodies, Downloaded(b) PROVE CallInv'
  <2>1. pc = "fetch" /\ pc' = "returned" /\ result' \in {"ok", "too_large", "block_size", "padding"}
    BY <1>16 DEF Downloaded, Refusal
  <2> QED
    BY <1>16, <2>1 DEF Downloaded
<1>17. CASE ContextEnds BY <1>17 DEF ContextEnds
<1>18. CASE UNCHANGED vars BY <1>18 DEF vars
<1> QED
  BY <1>1, <1>2, <1>3, <1>4, <1>5, <1>6, <1>7, <1>8, <1>9, <1>10, <1>11, <1>12, <1>13,
     <1>14, <1>15, <1>16, <1>17, <1>18 DEF Next, ClientStep, SendStep, DownloadStep, Returned

LEMMA StepVet == VetInv /\ [Next]_vars => VetInv'
<1> SUFFICES ASSUME VetInv, [Next]_vars PROVE VetInv'
  OBVIOUS
<1>0. config' = config
  BY DEF Next, ClientStep, SendStep, DownloadStep, Returned, vars, inputVars, Start,
         NoUploadURL, UploadURL, Redirected, Attempt, UploadFails, UploadSucceeds,
         BackoffEnds, Submit, Answer, GetConfig, TypingSent, DownloadURL,
         DownloadRedirected, DownloadFails, Downloaded, ContextEnds
<1>p. policy' = policy /\ URLs' = URLs
  BY <1>0 DEF policy, URLs, CDNBase
<1> USE <1>0, <1>p DEF VetInv, Goto, Return, inputVars, uploadVars
<1>1. CASE Start BY <1>1 DEF Start, Kinds
<1>2. ASSUME NEW r, NoUploadURL(r) PROVE VetInv'
  BY <1>2 DEF NoUploadURL
<1>3. ASSUME NEW u \in URLs, UploadURL(u) PROVE VetInv'
  BY <1>3 DEF UploadURL
<1>4. ASSUME NEW u \in URLs, Redirected(u) PROVE VetInv'
  BY <1>4 DEF Redirected, AttemptFails, CheckRedirect
<1>5. CASE Attempt BY <1>5 DEF Attempt
<1>6. ASSUME NEW err, UploadFails(err) PROVE VetInv'
  BY <1>6 DEF UploadFails, AttemptFails
<1>7. CASE UploadSucceeds BY <1>7 DEF UploadSucceeds
<1>8. CASE BackoffEnds BY <1>8 DEF BackoffEnds
<1>9. ASSUME NEW taken, Submit(taken) PROVE VetInv'
  BY <1>9 DEF Submit
<1>10. ASSUME NEW seen, Answer(seen) PROVE VetInv'
  BY <1>10 DEF Answer
<1>11. ASSUME NEW outcome \in {"ticket", "no_ticket", "error"}, GetConfig(outcome) PROVE VetInv'
  BY <1>11 DEF GetConfig
<1>12. ASSUME NEW ok, TypingSent(ok) PROVE VetInv'
  BY <1>12 DEF TypingSent
<1>13. ASSUME NEW u \in URLs, DownloadURL(u) PROVE VetInv'
  BY <1>13 DEF DownloadURL
<1>14. ASSUME NEW u \in URLs, DownloadRedirected(u) PROVE VetInv'
  BY <1>14 DEF DownloadRedirected, CheckRedirect
<1>15. CASE DownloadFails BY <1>15 DEF DownloadFails
<1>16. ASSUME NEW b \in Bodies, Downloaded(b) PROVE VetInv'
  BY <1>16 DEF Downloaded, URLs
<1>17. CASE ContextEnds BY <1>17 DEF ContextEnds
<1>18. CASE UNCHANGED vars BY <1>18 DEF vars
<1> QED
  BY <1>1, <1>2, <1>3, <1>4, <1>5, <1>6, <1>7, <1>8, <1>9, <1>10, <1>11, <1>12, <1>13,
     <1>14, <1>15, <1>16, <1>17, <1>18
  DEF Next, ClientStep, SendStep, DownloadStep, Returned, URLs
-----------------------------------------------------------------------------
(* The download.                                                           *)

(* What a client starts from.                                              *)
LEMMA Clients ==
    ASSUME NEW c \in NewClients
    PROVE  \E raw \in Configs :
              /\ raw.numbers \in [Settings -> Int64] /\ Accepted(raw.numbers)
              /\ c.numbers = SetDefaults(raw.numbers)
              /\ c.CDNBaseURL = raw.CDNBaseURL /\ c.MediaHosts = raw.MediaHosts
              /\ IsURL(c.CDNBaseURL) /\ \A h \in c.MediaHosts : IsHost(h)
<1>1. PICK raw \in Configs : Accepted(raw.numbers)
                             /\ c = [raw EXCEPT !.numbers = SetDefaults(raw.numbers)]
  BY DEF NewClients
<1>2. /\ raw = [CDNBaseURL |-> raw.CDNBaseURL, MediaHosts |-> raw.MediaHosts,
                numbers |-> raw.numbers]
      /\ IsURL(raw.CDNBaseURL) /\ \A h \in raw.MediaHosts : IsHost(h)
      /\ raw.numbers \in [Settings -> Int64]
  BY ConfigAssumption
<1>3. /\ c.numbers = SetDefaults(raw.numbers)
      /\ c.CDNBaseURL = raw.CDNBaseURL /\ c.MediaHosts = raw.MediaHosts
  BY <1>1, <1>2
<1> QED
  BY <1>1, <1>2, <1>3

(* The limits of a download, without overflow.                             *)
LEMMA Limits ==
    ASSUME config \in NewClients
    PROVE  /\ MaxMediaBytes \in Nat /\ BlockSize \in 1..255
           /\ BodyLimit = IF key = "none" THEN MaxMediaBytes ELSE MaxMediaBytes + BlockSize
           /\ BodyLimit \in Nat /\ Wrap(BodyLimit + 1) = BodyLimit + 1
<1>1. PICK raw \in Configs :
              /\ raw.numbers \in [Settings -> Int64] /\ Accepted(raw.numbers)
              /\ config.numbers = SetDefaults(raw.numbers)
  BY Clients
<1> DEFINE m == MaxMediaBytes
<1>2. m \in Int64 /\ m >= 1 /\ m + BlockSize + 1 \in Int64
  <2>1. "MaxMediaBytes" \in Settings
    BY DEF Settings, ZeroIsUnset
  <2>2. /\ SetDefaults(raw.numbers) \in [Settings -> Int64]
        /\ SetDefaults(raw.numbers)["MaxMediaBytes"] >= 1
        /\ SetDefaults(raw.numbers)["MaxMediaBytes"] + MediaMargin \in Int64
    BY <1>1, AcceptedNumbersFit
  <2>3. m \in Int64 /\ m >= 1 /\ m + MediaMargin \in Int64
    BY <1>1, <2>1, <2>2 DEF MaxMediaBytes
  <2>4. MediaMargin = 2 * BlockSize /\ BlockSize \in 1..255 /\ MaxInt \in Nat
    BY MarginAssumption, BlockAssumption, MachineAssumption
  <2> HIDE DEF m
  <2> QED
    BY <2>3, <2>4 DEF Int64
<1>3. BlockSize \in 1..255 /\ MaxInt \in Nat
  BY BlockAssumption, MachineAssumption
<1> HIDE DEF m
<1>4. /\ MaxInt - BlockSize \in Int64 /\ m + BlockSize \in Int64 /\ m + 1 \in Int64
      /\ m <= MaxInt - BlockSize
  BY <1>2, <1>3 DEF Int64
<1>5. Wrap(MaxInt - BlockSize) = MaxInt - BlockSize /\ Wrap(m + BlockSize) = m + BlockSize
  BY <1>4, NoWrap
<1>6. BodyLimit = IF key = "none" THEN m ELSE m + BlockSize
  BY <1>4, <1>5 DEF BodyLimit, m
<1>7. Wrap(m + 1) = m + 1 /\ Wrap((m + BlockSize) + 1) = (m + BlockSize) + 1
  BY <1>2, <1>4, NoWrap
<1>8. m \in Nat
  BY <1>2, <1>3 DEF Int64
<1> QED
  BY <1>3, <1>6, <1>7, <1>8 DEF m

(* What is read of a body is the body if it is within the limit, and too   *)
(* long otherwise.                                                         *)
LEMMA ReadBody ==
    ASSUME NEW b \in Data, NEW limit \in Nat, Wrap(limit + 1) = limit + 1
    PROVE  LET read == ReadLimitedBody(b, limit)
           IN  /\ read \in Data
               /\ Len(read) <= limit <=> Len(b) <= limit
               /\ Len(b) <= limit => read = b
<1> DEFINE n == limit + 1
<1>1. Len(b) \in Nat /\ n \in Nat /\ \A i \in 1..Len(b) : b[i] \in Byte
  BY LenProperties DEF Data
<1>2. ReadLimitedBody(b, limit) = IF Len(b) <= n THEN b ELSE SubSeq(b, 1, n)
  BY DEF ReadLimitedBody
<1>3. CASE Len(b) <= n
  BY <1>2, <1>3
<1>4. CASE ~(Len(b) <= n)
  <2>1. SubSeq(b, 1, n) \in Seq(Byte) /\ Len(SubSeq(b, 1, n)) = n
    BY <1>1, <1>4, SubSeqProperties
  <2> QED
    BY <1>1, <1>2, <1>4, <2>1 DEF Data
<1> QED
  BY <1>3, <1>4

(* The checks of a download, as a whole.                                   *)
LEMMA DownloadChecks ==
    ASSUME config \in NewClients, NEW b \in Data
    PROVE  LET read == ReadLimitedBody(b, BodyLimit)
               data == IF key = "none" THEN read ELSE PKCS7Unpad(read)
               sent(d) == IF key = "none" THEN d ELSE PKCS7Pad(d)
           IN  /\ Refusal(read, data) = "none" =>
                     /\ data \in Data /\ Len(data) <= MaxMediaBytes
                     /\ b = sent(data)
               /\ \A d \in Data :
                     b = sent(d) /\ Len(d) <= MaxMediaBytes =>
                        Refusal(read, data) = "none" /\ data = d
<1> DEFINE read == ReadLimitedBody(b, BodyLimit)
           data == IF key = "none" THEN read ELSE PKCS7Unpad(read)
<1>1. /\ MaxMediaBytes \in Nat /\ BlockSize \in 1..255 /\ BodyLimit \in Nat
      /\ BodyLimit = IF key = "none" THEN MaxMediaBytes ELSE MaxMediaBytes + BlockSize
      /\ Wrap(BodyLimit + 1) = BodyLimit + 1
  BY Limits
<1>2. /\ read \in Data
      /\ Len(read) <= BodyLimit <=> Len(b) <= BodyLimit
      /\ Len(b) <= BodyLimit => read = b
  BY <1>1, ReadBody
<1> HIDE DEF read
<1>3. ASSUME Refusal(read, data) = "none"
      PROVE  /\ data \in Data /\ Len(data) <= MaxMediaBytes
             /\ b = IF key = "none" THEN data ELSE PKCS7Pad(data)
  <2>1. /\ ~(Len(read) > BodyLimit) /\ ~(Len(data) > MaxMediaBytes)
        /\ key # "none" => WholeBlocks(read) /\ PaddingIsValid(read)
    BY <1>3 DEF Refusal
  <2>2. Len(read) \in Nat
    BY <1>2, LenProperties DEF Data
  <2>3. read = b
    BY <1>1, <1>2, <2>1, <2>2
  <2>4. data \in Data /\ b = IF key = "none" THEN data ELSE PKCS7Pad(data)
    BY <1>2, <2>1, <2>3, PadReversesUnpad
  <2>5. Len(data) \in Nat
    BY <2>4, LenProperties DEF Data
  <2> QED
    BY <1>1, <2>1, <2>4, <2>5
<1>4. ASSUME NEW d \in Data, b = IF key = "none" THEN d ELSE PKCS7Pad(d),
             Len(d) <= MaxMediaBytes
      PROVE  Refusal(read, data) = "none" /\ data = d
  <2>1. Len(d) \in Nat
    BY LenProperties DEF Data
  <2>2. Len(b) <= BodyLimit /\ Len(b) \in Nat
    <3>1. CASE key = "none"
      BY <1>1, <1>4, <2>1, <3>1
    <3>2. CASE key # "none"
      <4>1. Len(b) = Len(d) + PadLength(Len(d)) /\ PadLength(Len(d)) \in 1..BlockSize
        BY <1>4, <2>1, <3>2, PadIsData, PadLengths
      <4> QED
        BY <1>1, <1>4, <2>1, <3>2, <4>1
    <3> QED
      BY <3>1, <3>2
  <2>3. read = b
    BY <1>2, <2>2
  <2>4. data = d /\ (key # "none" => WholeBlocks(read) /\ PaddingIsValid(read))
    BY <1>4, <2>3, UnpadReversesPad
  <2>5. ~(Len(read) > BodyLimit) /\ ~(Len(data) > MaxMediaBytes)
    BY <1>1, <1>4, <2>1, <2>2, <2>3, <2>4
  <2> QED
    BY <2>4, <2>5 DEF Refusal
<1> QED
  BY <1>3, <1>4 DEF read

LEMMA StepImage == ImageInv /\ [Next]_vars => ImageInv'
<1> SUFFICES ASSUME ImageInv, [Next]_vars PROVE ImageInv'
  OBVIOUS
<1>1. CallInv /\ CallInv'
  BY StepCall DEF ImageInv
<1>2. CASE \E b \in Bodies : Downloaded(b)
  <2>1. PICK b \in Bodies : Downloaded(b)
    BY <1>2
  <2> DEFINE read == ReadLimitedBody(b, BodyLimit)
             data == IF key = "none" THEN read ELSE PKCS7Unpad(read)
             refusal == Refusal(read, data)
  <2>2. /\ body' = b /\ config' = config /\ key' = key
        /\ refusal = "none" => result' = "ok" /\ image' = data
        /\ refusal # "none" => result' = refusal /\ result' # "ok"
    BY <2>1 DEF Downloaded, Refusal, inputVars, Return
  <2>3. b \in Data /\ config \in NewClients
    BY <1>1, BodyAssumption DEF CallInv
  <2>4. /\ refusal = "none" => /\ data \in Data /\ Len(data) <= MaxMediaBytes
                               /\ b = IF key = "none" THEN data ELSE PKCS7Pad(data)
        /\ \A d \in Data :
              b = (IF key = "none" THEN d ELSE PKCS7Pad(d)) /\ Len(d) <= MaxMediaBytes =>
                 refusal = "none" /\ data = d
    BY <2>3, DownloadChecks
  <2> HIDE DEF refusal, data, read
  <2>5. MaxMediaBytes' = MaxMediaBytes
    BY <2>2 DEF MaxMediaBytes
  <2>6. ImageIsWhatWasReceived'
    BY <2>2, <2>4, <2>5 DEF ImageIsWhatWasReceived
  <2>7. FittingImageIsReturned'
    <3> SUFFICES ASSUME NEW n \in 0..Len(b),
                        b = IF key = "none" THEN SubSeq(b, 1, n) ELSE PKCS7Pad(SubSeq(b, 1, n)),
                        n <= MaxMediaBytes
                 PROVE  result' = "ok" /\ image' = SubSeq(b, 1, n)
      BY <2>2, <2>5 DEF FittingImageIsReturned
    <3>1. Len(b) \in Nat /\ \A i \in 1..Len(b) : b[i] \in Byte
      BY <2>3, LenProperties DEF Data
    <3>2. SubSeq(b, 1, n) \in Data /\ Len(SubSeq(b, 1, n)) = n
      BY <3>1, SubSeqProperties DEF Data
    <3> QED
      BY <2>2, <2>4, <3>2
  <2> QED
    BY <1>1, <2>6, <2>7 DEF ImageInv
<1>3. CASE UNCHANGED <<config, kind, key, body, image, result>>
  <2>1. MaxMediaBytes' = MaxMediaBytes
    BY <1>3 DEF MaxMediaBytes
  <2> QED
    BY <1>1, <1>3, <2>1 DEF ImageInv, ImageIsWhatWasReceived, FittingImageIsReturned
<1>4. CASE kind' # "download" \/ result' \notin {"ok", "too_large", "block_size", "padding"}
  BY <1>1, <1>4 DEF ImageInv, ImageIsWhatWasReceived, FittingImageIsReturned
<1>5. CASE ClientStep /\ ~\E b \in Bodies : Downloaded(b)
  <2>1. UNCHANGED <<config, kind, key, body, image>>
    BY <1>5 DEF ClientStep, SendStep, DownloadStep, downloadVars, inputVars, Start,
       NoUploadURL, UploadURL, Redirected, Attempt, UploadFails, UploadSucceeds,
       BackoffEnds, Submit, Answer, GetConfig, TypingSent, DownloadURL,
       DownloadRedirected, DownloadFails
  <2>2. CASE Start
    BY <1>1, <1>3, <1>4, <2>1, <2>2 DEF Start, Goto, Return, Media
  <2>3. CASE ~Start /\ kind = "download"
    <3>1. DownloadStep
      BY <1>1, <1>5, <2>3
      DEF ClientStep, SendStep, CallInv, Media, Messages,
       NoUploadURL, UploadURL, Redirected, Attempt, UploadFails, UploadSucceeds,
       BackoffEnds, Submit, Answer, GetConfig, TypingSent
    <3>2. result' = result \/ result' \in {"blocked", "bad_key", "download"}
      BY <3>1 DEF DownloadStep, DownloadURL, DownloadRedirected, DownloadFails, Goto, Return
    <3> QED
      BY <1>3, <1>4, <2>1, <3>2
  <2> QED
    BY <1>4, <2>1, <2>2, <2>3
<1> QED
  BY <1>2, <1>3, <1>5 DEF Next, ContextEnds, Returned, vars, inputVars, downloadVars
-----------------------------------------------------------------------------
(* The parts of the inductive invariant hold of every call that sends      *)
(* something or downloads an image (src/notify.go, src/cdn.go).            *)
THEOREM InductiveOutbound == Spec => [](ImageInv /\ VetInv)
<1>1. Init => ImageInv /\ VetInv
  <2>1. ASSUME Init PROVE CallInv
    <3>1. /\ config \in NewClients /\ kind \in Kinds /\ pc = "start"
          /\ accepted = 0 /\ uploaded = FALSE /\ result = "none"
      BY <2>1 DEF Init
    <3>2. accepted \in {0, 1} /\ uploaded \in BOOLEAN
      BY <3>1
    <3>3. SuccessIsDelivery
      BY <3>1 DEF SuccessIsDelivery
    <3> QED
      BY <3>1, <3>2, <3>3 DEF CallInv
  <2>2. Init => VetInv
    BY DEF Init, VetInv, URLs
  <2>3. Init => ImageIsWhatWasReceived /\ FittingImageIsReturned
    BY DEF Init, ImageIsWhatWasReceived, FittingImageIsReturned
  <2> QED
    BY <2>1, <2>2, <2>3 DEF ImageInv
<1>2. ImageInv /\ VetInv /\ [Next]_vars => (ImageInv /\ VetInv)'
  BY StepImage, StepVet
<1> QED
  BY <1>1, <1>2, PTL DEF Spec

(* No call delivers a message twice, for any number of attempts and        *)
(* redirects.                                                              *)
THEOREM DeliveredOnce == Spec => []AtMostOneMessage
<1>1. ImageInv => AtMostOneMessage
  BY DEF ImageInv, CallInv, AtMostOneMessage
<1> QED
  BY InductiveOutbound, <1>1, PTL

(* A nil error is a delivery, and a failure before the submission none.    *)
THEOREM SuccessDelivers == Spec => []SuccessIsDelivery
<1>1. ImageInv => SuccessIsDelivery
  BY DEF ImageInv, CallInv
<1> QED
  BY InductiveOutbound, <1>1, PTL

(* Every hop of every upload and download goes to a trusted host, for any  *)
(* configuration and whatever URLs the servers name.                       *)
THEOREM HopsTrusted == Spec => []HopsStayTrusted
<1>1. VetInv => HopsStayTrusted
  <2> SUFFICES ASSUME VetInv, pc \in {"request", "fetch"} PROVE HopsStayTrusted
    BY DEF HopsStayTrusted
  <2>1. IsURL(CDNBase) /\ \A h \in config.MediaHosts : IsHost(h)
    BY Clients DEF VetInv, CDNBase
  <2>2. IsHost(target.host)
    BY <2>1, URLAssumption DEF VetInv, URLs, IsURL
  <2>3. Check(NewURLPolicy(CDNBase, config.MediaHosts), target)
    BY DEF VetInv, policy
  <2>4. /\ TrustedHost(CDNBase.host, config.MediaHosts, target.host)
        /\ target.scheme = "https" \/ CDNBase.scheme = "http"
    BY <2>1, <2>2, <2>3, CheckedIsTrusted
  <2> QED
    BY <2>4 DEF HopsStayTrusted, TrustedHost
<1> QED
  BY InductiveOutbound, <1>1, PTL

(* A download returns all of what it received, decrypted, or nothing: for  *)
(* every limit NewClient accepts, any integer width and any block size.    *)
THEOREM WholeImages == Spec => []ImageIsWhatWasReceived
<1>1. ImageInv => ImageIsWhatWasReceived
  BY DEF ImageInv
<1> QED
  BY InductiveOutbound, <1>1, PTL

(* An image within the limit is returned, for every limit NewClient        *)
(* accepts, any integer width and any block size.                          *)
THEOREM FittingImages == Spec => []FittingImageIsReturned
<1>1. ImageInv => FittingImageIsReturned
  BY DEF ImageInv
<1> QED
  BY InductiveOutbound, <1>1, PTL
-----------------------------------------------------------------------------
(* How long a call can take.                                               *)

(* Where the retries of an upload and the hops of a request stand.         *)
RetryInv ==
    /\ ctxDone \in BOOLEAN /\ pc \in Places
    /\ attempts \in 0..UploadAttempts /\ via \in 0..MaxServerRedirects
    /\ pc \in {"start", "geturl"} => attempts = 0
    /\ pc \in {"attempt", "backoff"} => attempts < UploadAttempts
    /\ pc = "request" => attempts # 0
    /\ pc \in {"request", "fetch"} => via # 0

(* Every step keeps it.                                                    *)
LEMMA StepRetry == RetryInv /\ [Next]_vars => RetryInv'
<1> SUFFICES ASSUME RetryInv, [Next]_vars PROVE RetryInv'
  OBVIOUS
<1> USE DEF RetryInv, Goto, Return, inputVars, uploadVars, UploadAttempts,
            MaxServerRedirects, Places
<1>1. CASE Start
  <2>1. pc' \in {"returned", "submit", "getconfig", "vet", "geturl"}
    BY <1>1 DEF Start
  <2> QED
    BY <1>1, <2>1 DEF Start
<1>2. ASSUME NEW r, NoUploadURL(r) PROVE RetryInv'
  BY <1>2 DEF NoUploadURL
<1>3. ASSUME NEW u, UploadURL(u) PROVE RetryInv'
  BY <1>3 DEF UploadURL
<1>4. ASSUME NEW u, Redirected(u) PROVE RetryInv'
  BY <1>4 DEF Redirected, AttemptFails, CheckRedirect
<1>5. CASE Attempt BY <1>5 DEF Attempt
<1>6. ASSUME NEW err, UploadFails(err) PROVE RetryInv'
  BY <1>6 DEF UploadFails, AttemptFails
<1>7. CASE UploadSucceeds BY <1>7 DEF UploadSucceeds
<1>8. CASE BackoffEnds BY <1>8 DEF BackoffEnds
<1>9. ASSUME NEW taken, Submit(taken) PROVE RetryInv'
  BY <1>9 DEF Submit
<1>10. ASSUME NEW seen, Answer(seen) PROVE RetryInv'
  BY <1>10 DEF Answer
<1>11. ASSUME NEW outcome \in {"ticket", "no_ticket", "error"}, GetConfig(outcome) PROVE RetryInv'
  BY <1>11 DEF GetConfig
<1>12. ASSUME NEW ok, TypingSent(ok) PROVE RetryInv'
  BY <1>12 DEF TypingSent
<1>13. ASSUME NEW u, DownloadURL(u) PROVE RetryInv'
  BY <1>13 DEF DownloadURL
<1>14. ASSUME NEW u, DownloadRedirected(u) PROVE RetryInv'
  BY <1>14 DEF DownloadRedirected, CheckRedirect
<1>15. CASE DownloadFails BY <1>15 DEF DownloadFails
<1>16. ASSUME NEW b, Downloaded(b) PROVE RetryInv'
  <2>1. pc' = "returned" /\ via' = 0 /\ attempts' = attempts /\ ctxDone' = ctxDone
    BY <1>16 DEF Downloaded
  <2> QED
    BY <2>1
<1>17. CASE ContextEnds BY <1>17 DEF ContextEnds
<1>18. CASE UNCHANGED vars BY <1>18 DEF vars
<1> QED
  BY <1>1, <1>2, <1>3, <1>4, <1>5, <1>6, <1>7, <1>8, <1>9, <1>10, <1>11, <1>12, <1>13,
     <1>14, <1>15, <1>16, <1>17, <1>18 DEF Next, ClientStep, SendStep, DownloadStep, Returned

(* The steps a call can still take, counted from its end: an attempt costs *)
(* its hops, the pause before it and the look at the context.              *)
Hops == MaxServerRedirects - via
Attempts == (UploadAttempts - attempts) * (MaxServerRedirects + 3)

PlaceLeft ==
    CASE pc = "returned" -> 0
      [] pc \in {"answer", "sendtyping"} -> 1
      [] pc \in {"submit", "getconfig"} -> 2
      [] pc = "attempt" -> 3 + Attempts
      [] pc = "backoff" -> 4 + Attempts
      [] pc = "request" -> 5 + Attempts + Hops
      [] pc = "geturl" -> 4 + Attempts
      [] pc = "fetch" -> 1 + Hops
      [] pc = "vet" -> 2 + MaxServerRedirects
      [] pc = "start" -> 5 + Attempts

StepsLeft == PlaceLeft + (IF ctxDone THEN 0 ELSE 1)
MaxSteps == 6 + UploadAttempts * (MaxServerRedirects + 3)

(* No more steps are left than a call begins with.                         *)
LEMMA StepsLeftBounded == RetryInv => PlaceLeft \in Nat /\ StepsLeft \in 0..MaxSteps
<1> SUFFICES ASSUME RetryInv PROVE PlaceLeft \in Nat /\ StepsLeft \in 0..MaxSteps
  OBVIOUS
<1>1. Hops \in 0..5 /\ Attempts \in 0..24
  BY DEF RetryInv, Hops, Attempts, UploadAttempts, MaxServerRedirects
<1>2. pc = "request" => Hops \in 0..4 /\ Attempts \in 0..16
  BY DEF RetryInv, Hops, Attempts, UploadAttempts, MaxServerRedirects
<1>3. PlaceLeft \in 0..29
  BY <1>1, <1>2 DEF PlaceLeft, RetryInv, Places, MaxServerRedirects
<1> QED
  BY <1>3 DEF StepsLeft, MaxSteps, UploadAttempts, MaxServerRedirects, RetryInv

(* The same after a step.                                                  *)
LEMMA PlaceLeftAfter == RetryInv' => PlaceLeft' \in Nat
<1>1. RetryInv => PlaceLeft \in Nat
  BY StepsLeftBounded
<1>2. (RetryInv => PlaceLeft \in Nat)'
  BY <1>1, PTL
<1> QED
  BY <1>2

(* A step of the call, and the end of its context, use up what is left.    *)
LEMMA StepSpends == RetryInv /\ RetryInv' /\ [Next]_vars => vars' = vars \/ StepsLeft' < StepsLeft
<1> SUFFICES ASSUME RetryInv, RetryInv', [Next]_vars, vars' # vars PROVE StepsLeft' < StepsLeft
  OBVIOUS
<1>a. PlaceLeft \in Nat /\ PlaceLeft' \in Nat
  BY StepsLeftBounded, PlaceLeftAfter
<1>b. attempts \in 0..3 /\ via \in 0..5 /\ attempts' \in 0..3 /\ via' \in 0..5
  BY DEF RetryInv, UploadAttempts, MaxServerRedirects
<1>0. /\ PlaceLeft \in Nat /\ PlaceLeft' \in Nat
      /\ attempts \in 0..3 /\ via \in 0..5 /\ attempts' \in 0..3 /\ via' \in 0..5
  BY <1>a, <1>b
<1>1. ASSUME ctxDone' = ctxDone, PlaceLeft' < PlaceLeft PROVE StepsLeft' < StepsLeft
  <2> DEFINE extra == IF ctxDone THEN 0 ELSE 1
  <2>1. extra \in Nat
    OBVIOUS
  <2>2. StepsLeft = PlaceLeft + extra /\ StepsLeft' = PlaceLeft' + extra
    BY <1>1 DEF StepsLeft
  <2> HIDE DEF extra
  <2>3. \A p, q, e \in Nat : q < p => q + e < p + e
    OBVIOUS
  <2>4. PlaceLeft' + extra < PlaceLeft + extra
    BY <1>a, <1>1, <2>1, <2>3
  <2> QED
    BY <2>2, <2>4
<1>2. CASE ContextEnds
  <2>1. PlaceLeft' = PlaceLeft
    BY <1>2 DEF ContextEnds, uploadVars, PlaceLeft, Attempts, Hops
  <2> QED
    BY <1>0, <1>2, <2>1 DEF ContextEnds, StepsLeft
<1> USE DEF RetryInv, Goto, Return, inputVars, uploadVars, UploadAttempts,
            MaxServerRedirects, Places, Hops, Attempts, PlaceLeft
<1>3. CASE Start
  <2>1. pc' \in {"returned", "submit", "getconfig", "vet", "geturl"} /\ pc = "start"
        /\ attempts' = attempts /\ attempts = 0 /\ ctxDone' = ctxDone
    BY <1>3 DEF Start
  <2> QED
    BY <1>1, <2>1
<1>4. ASSUME NEW r, NoUploadURL(r) PROVE StepsLeft' < StepsLeft
  BY <1>0, <1>1, <1>4 DEF NoUploadURL
<1>5. ASSUME NEW u, UploadURL(u) PROVE StepsLeft' < StepsLeft
  BY <1>0, <1>1, <1>5 DEF UploadURL
<1>6. ASSUME NEW u, Redirected(u) PROVE StepsLeft' < StepsLeft
  BY <1>0, <1>1, <1>6 DEF Redirected, AttemptFails, CheckRedirect
<1>7. CASE Attempt BY <1>0, <1>1, <1>7 DEF Attempt
<1>8. ASSUME NEW err, UploadFails(err) PROVE StepsLeft' < StepsLeft
  BY <1>0, <1>1, <1>8 DEF UploadFails, AttemptFails
<1>9. CASE UploadSucceeds BY <1>0, <1>1, <1>9 DEF UploadSucceeds
<1>10. CASE BackoffEnds BY <1>0, <1>1, <1>10 DEF BackoffEnds
<1>11. ASSUME NEW taken, Submit(taken) PROVE StepsLeft' < StepsLeft
  BY <1>0, <1>1, <1>11 DEF Submit
<1>12. ASSUME NEW seen, Answer(seen) PROVE StepsLeft' < StepsLeft
  BY <1>0, <1>1, <1>12 DEF Answer
<1>13. ASSUME NEW outcome \in {"ticket", "no_ticket", "error"}, GetConfig(outcome)
       PROVE  StepsLeft' < StepsLeft
  <2>1. pc = "getconfig" /\ pc' \in {"sendtyping", "returned"}
    BY <1>13 DEF GetConfig
  <2>2. ctxDone' = ctxDone
    BY <1>13 DEF GetConfig
  <2> QED
    BY <1>0, <1>1, <2>1, <2>2
<1>14. ASSUME NEW ok, TypingSent(ok) PROVE StepsLeft' < StepsLeft
  BY <1>0, <1>1, <1>14 DEF TypingSent
<1>15. ASSUME NEW u, DownloadURL(u) PROVE StepsLeft' < StepsLeft
  BY <1>0, <1>1, <1>15 DEF DownloadURL
<1>16. ASSUME NEW u, DownloadRedirected(u) PROVE StepsLeft' < StepsLeft
  BY <1>0, <1>1, <1>16 DEF DownloadRedirected, CheckRedirect
<1>17. CASE DownloadFails BY <1>0, <1>1, <1>17 DEF DownloadFails
<1>18. ASSUME NEW b, Downloaded(b) PROVE StepsLeft' < StepsLeft
  <2>1. pc = "fetch" /\ pc' = "returned" /\ ctxDone' = ctxDone
    BY <1>18 DEF Downloaded
  <2> QED
    BY <1>0, <1>1, <2>1
<1> QED
  BY <1>2, <1>3, <1>4, <1>5, <1>6, <1>7, <1>8, <1>9, <1>10, <1>11, <1>12, <1>13, <1>14,
     <1>15, <1>16, <1>17, <1>18 DEF Next, ClientStep, SendStep, DownloadStep, Returned

(* A call is over after MaxSteps steps at most, whatever the server fails, *)
(* redirects or loses (src/cdn.go:95-121, src/urlpolicy.go:90-105): each   *)
(* step brings it nearer to its end.                                       *)
THEOREM CallsRunOut == Spec => [](StepsLeft \in 0..MaxSteps) /\ [][StepsLeft' < StepsLeft]_vars
<1>1. Init => RetryInv
  <2> SUFFICES ASSUME Init PROVE RetryInv
    OBVIOUS
  <2>1. ctxDone = FALSE /\ pc = "start" /\ attempts = 0 /\ via = 0
    BY DEF Init
  <2>2. ctxDone \in BOOLEAN /\ pc \in Places
    BY <2>1 DEF Places
  <2>3. 0 \in 0..UploadAttempts /\ 0 \in 0..MaxServerRedirects
    BY DEF UploadAttempts, MaxServerRedirects
  <2> QED
    BY <2>1, <2>2, <2>3 DEF RetryInv
<1>2. RetryInv => StepsLeft \in 0..MaxSteps
  BY StepsLeftBounded
<1>3. RetryInv /\ RetryInv' /\ [Next]_vars => [StepsLeft' < StepsLeft]_vars
  BY StepSpends
<1> QED
  BY <1>1, <1>2, <1>3, StepRetry, PTL DEF Spec
=============================================================================
