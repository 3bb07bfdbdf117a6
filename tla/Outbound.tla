------------------------------- MODULE Outbound -------------------------------
(***************************************************************************)
(* One call that moves something between the bot and a user: SendText,     *)
(* SendMarkdown, SendImage, SendFile, SendVideo and SendTyping             *)
(* (src/notify.go:11-167), with the upload they rest on (UploadToCDN,      *)
(* uploadCDNBytes, uploadCDNBytesOnce, src/cdn.go:21-148) and the          *)
(* submission (sendSingleItem, src/notify.go:169-195); and the download of *)
(* an image (downloadAndDecryptImage, src/cdn.go:151-211).                 *)
(*                                                                         *)
(* A request and its answer are separate steps where the answer may be     *)
(* lost: the server may have taken a message although the client sees an   *)
(* error.  HTTP redirects of the media requests follow urlPolicy           *)
(* (UrlPolicy).                                                            *)
(***************************************************************************)
EXTENDS FiniteSets, Config, MediaCodec

CONSTANTS
    Configs,        \* what NewClient may be given (see config)
    ServerURLs,     \* the URLs the server may name, or redirect to
    Bodies          \* what a media server may answer a download with

ASSUME ConfigAssumption ==
    \A raw \in Configs :
        /\ raw = [CDNBaseURL |-> raw.CDNBaseURL, MediaHosts |-> raw.MediaHosts,
                  numbers |-> raw.numbers]
        /\ IsURL(raw.CDNBaseURL) /\ \A h \in raw.MediaHosts : IsHost(h)
        /\ raw.numbers \in [Settings -> Int64]
ASSUME URLAssumption == \A u \in ServerURLs : IsURL(u)
\* The 32 of Config.validate (src/config.go:219).
ASSUME MarginAssumption == MediaMargin = 2 * BlockSize
ASSUME BodyAssumption == Bodies \subseteq Data

Kinds == {"text", "image", "video", "file", "typing", "download"}
Media == {"image", "video", "file"}

\* Three attempts per upload (src/cdn.go:97).
UploadAttempts == 3

VARIABLES
    config,         \* Config: CDNBaseURL, an URL of UrlPolicy, MediaHosts, and
                    \* the numeric settings
    kind,           \* which method was called
    content,        \* its argument: "empty", "fits" or "large" (larger than
                    \* MaxMediaBytes); for SendTyping "empty" is no recipient,
                    \* for a download a message without media information
    key,            \* the key of the image to download, if it has one
    pc,             \* where the call is
    ctxDone,        \* its context has ended: the caller's, or the timeout
    cdnURL,         \* the vetted upload URL
    target,         \* the URL of the upload request in flight
    via,            \* upload requests sent in this redirect chain
    attempts,       \* upload attempts begun
    lastErr,        \* how the last upload attempt failed
    submissions,    \* sendmessage requests sent
    uploaded,       \* server: it stored the bytes and returned a parameter
    accepted,       \* server: messages it took from this call
    body,           \* what the media server answered the download with
    image,          \* what the download returned
    result          \* what the call returned

inputVars == <<config, kind, content, key, ctxDone>>
uploadVars == <<cdnURL, target, via, attempts, lastErr, uploaded>>
submitVars == <<submissions, accepted>>
downloadVars == <<body, image>>
vars == <<inputVars, pc, uploadVars, submitVars, downloadVars, result>>

Places == {"start", "geturl", "attempt", "request", "backoff", "submit",
           "answer", "getconfig", "sendtyping", "vet", "fetch", "returned"}
Keys == {"none", "valid", "malformed"}

\* 4xx, a body above MaxResponseBytes, a context error; and the failures an
\* upload is tried again for: another status, the transport (a hop the policy
\* refuses is one), a missing X-Encrypted-Param, one redirect too many.
Permanent == {"client", "too_large", "context"}
Retryable == {"status", "transport", "no_param", "blocked", "too_many"}

Results == {"none", "ok", "empty", "too_large", "getuploadurl", "no_url",
            "blocked", "upload", "canceled", "sendmessage", "typing",
            "bad_key", "download", "block_size", "padding"}

CDNBase == config.CDNBaseURL
MaxMediaBytes == config.numbers["MaxMediaBytes"]
policy == NewURLPolicy(CDNBase, config.MediaHosts)
-----------------------------------------------------------------------------
(* NewClient applies the defaults and refuses a configuration that is not  *)
(* valid.                                                                  *)
NewClients ==
    {[raw EXCEPT !.numbers = SetDefaults(raw.numbers)] :
        raw \in {r \in Configs : Accepted(r.numbers) /\ ValidBase(r.CDNBaseURL)}}

Init ==
    /\ config \in NewClients
    /\ kind \in Kinds
    /\ content \in {"empty", "fits", "large"}
    /\ key \in IF kind = "download" THEN Keys ELSE {"none"}
    /\ pc = "start"
    /\ ctxDone = FALSE
    /\ cdnURL = CDNBase /\ target = CDNBase
    /\ via = 0 /\ attempts = 0 /\ lastErr = "none"
    /\ submissions = 0
    /\ uploaded = FALSE /\ accepted = 0
    /\ body = <<>> /\ image = <<>>
    /\ result = "none"

Goto(place) == pc' = place /\ UNCHANGED result
Return(r) == pc' = "returned" /\ result' = r

(* The caller cancels, or the timeout of the call fires.                   *)
ContextEnds ==
    /\ pc # "returned"
    /\ ~ctxDone
    /\ ctxDone' = TRUE
    /\ UNCHANGED <<config, kind, content, key, pc, uploadVars, submitVars,
                   downloadVars, result>>

(* The argument checks.  An empty file is a document; an empty text, image *)
(* or video is an error, and so is a download without media information;   *)
(* typing for nobody is nothing to do.                                     *)
Start ==
    /\ pc = "start"
    /\ IF content = "empty" /\ kind \in {"text", "image", "video", "download"}
       THEN Return("empty")
       ELSE IF content = "empty" /\ kind = "typing" THEN Return("ok")
       ELSE IF content = "large" /\ kind \in Media THEN Return("too_large")
       ELSE Goto(CASE kind = "text"   -> "submit"
                   [] kind = "typing" -> "getconfig"
                   [] kind = "download" -> "vet"
                   [] OTHER           -> "geturl")
    /\ UNCHANGED <<inputVars, uploadVars, submitVars>>
-----------------------------------------------------------------------------
(* UploadToCDN.                                                            *)

(* getuploadurl fails or is refused, or names no URL and no parameter.     *)
NoUploadURL(r) ==
    /\ pc = "geturl"
    /\ r \in {"getuploadurl", "no_url"}
    /\ Return(r)
    /\ UNCHANGED <<inputVars, uploadVars, submitVars>>

(* It names a full URL, or a parameter to be appended to the CDN's own;    *)
(* either is vetted before bytes are sent to it.                           *)
UploadURL(u) ==
    /\ pc = "geturl"
    /\ IF Check(policy, u)
       THEN cdnURL' = u /\ Goto("attempt")
       ELSE Return("blocked") /\ UNCHANGED cdnURL
    /\ UNCHANGED <<inputVars, target, via, attempts, lastErr, uploaded, submitVars>>

\* Variant of Attempt: the attempts are not counted.
UncountedAttempt ==
    /\ pc = "attempt"
    /\ IF ctxDone THEN Return("canceled") /\ UNCHANGED <<target, via, attempts>>
       ELSE /\ attempts' = 1
            /\ target' = cdnURL
            /\ via' = 1
            /\ Goto("request")
    /\ UNCHANGED <<inputVars, cdnURL, lastErr, uploaded, submitVars>>

(* The head of the retry loop; an attempt begins with the vetted URL.      *)
Attempt ==
    /\ pc = "attempt"
    /\ IF ctxDone THEN Return("canceled") /\ UNCHANGED <<target, via, attempts>>
       ELSE /\ attempts' = attempts + 1
            /\ target' = cdnURL
            /\ via' = 1
            /\ Goto("request")
    /\ UNCHANGED <<inputVars, cdnURL, lastErr, uploaded, submitVars>>

(* An attempt failed with err: give up, or wait and try again.             *)
AttemptFails(err) ==
    /\ lastErr' = err
    /\ IF err \in Permanent THEN Return("upload")
       ELSE IF attempts < UploadAttempts THEN Goto("backoff")
       ELSE Return("upload")

(* The server redirects the upload: checkRedirect decides.                 *)
Redirected(u) ==
    /\ pc = "request"
    /\ IF CheckRedirect(policy, u, via)
       THEN target' = u /\ via' = via + 1 /\ UNCHANGED <<pc, result, lastErr>>
       ELSE /\ AttemptFails(IF via >= MaxServerRedirects THEN "too_many" ELSE "blocked")
            /\ UNCHANGED <<target, via>>
    /\ UNCHANGED <<inputVars, cdnURL, attempts, uploaded, submitVars>>

(* The attempt fails.  The server may have stored the bytes before the     *)
(* answer was lost; that is why retrying has to be harmless.               *)
UploadFails(err) ==
    /\ pc = "request"
    /\ err \in {"client", "too_large", "context", "status", "transport", "no_param"}
    /\ AttemptFails(err)
    /\ UNCHANGED <<inputVars, cdnURL, target, via, attempts, uploaded, submitVars>>

UploadSucceeds ==
    /\ pc = "request"
    /\ uploaded' = TRUE
    /\ Goto("submit")
    /\ UNCHANGED <<inputVars, cdnURL, target, via, attempts, lastErr, submitVars>>

(* The pause before the next attempt, or the end of the context.           *)
BackoffEnds ==
    /\ pc = "backoff"
    /\ \/ Goto("attempt")
       \/ ctxDone /\ Return("canceled")
    /\ UNCHANGED <<inputVars, uploadVars, submitVars>>
-----------------------------------------------------------------------------
(* sendSingleItem.                                                         *)

(* The message is submitted; the server may take it or not.                *)
Submit(taken) ==
    /\ pc = "submit"
    /\ submissions' = submissions + 1
    /\ accepted' = IF taken THEN accepted + 1 ELSE accepted
    /\ Goto("answer")
    /\ UNCHANGED <<inputVars, uploadVars>>

\* Variant of Answer: the submission is retried.
ResubmitOnFailure(seen) ==
    /\ pc = "answer"
    /\ seen => accepted > 0
    /\ IF seen THEN Return("ok")
       ELSE IF submissions < 2 THEN Goto("submit") ELSE Return("sendmessage")
    /\ UNCHANGED <<inputVars, uploadVars, submitVars>>

\* Variant of Answer: Ret is not looked at.
IgnoreRet(seen) ==
    /\ pc = "answer"
    /\ Return(IF seen THEN "ok" ELSE "sendmessage")
    /\ UNCHANGED <<inputVars, uploadVars, submitVars>>

(* Its answer is Ret = 0, or lost, late, broken or an error code.  There   *)
(* is no second submission: "Message submission is deliberately outside    *)
(* this retry boundary" (src/cdn.go:94).                                   *)
Answer(seen) ==
    /\ pc = "answer"
    /\ seen => accepted > 0
    /\ Return(IF seen THEN "ok" ELSE "sendmessage")
    /\ UNCHANGED <<inputVars, uploadVars, submitVars>>
-----------------------------------------------------------------------------
(* SendTyping: a ticket is fetched; without one there is nothing to send.  *)
GetConfig(outcome) ==
    /\ pc = "getconfig"
    /\ CASE outcome = "ticket"    -> Goto("sendtyping")
         [] outcome = "no_ticket" -> Return("ok")
         [] outcome = "error"     -> Return("typing")
    /\ UNCHANGED <<inputVars, uploadVars, submitVars>>

TypingSent(ok) ==
    /\ pc = "sendtyping"
    /\ Return(IF ok THEN "ok" ELSE "typing")
    /\ UNCHANGED <<inputVars, uploadVars, submitVars>>

-----------------------------------------------------------------------------
(* downloadAndDecryptImage.                                                *)

(* The URL of the message, or its parameter appended to the CDN's own, is  *)
(* vetted, the key decoded, and the request sent.                          *)
DownloadURL(u) ==
    /\ pc = "vet"
    /\ IF ~Check(policy, u) THEN Return("blocked") /\ UNCHANGED <<target, via>>
       ELSE IF key = "malformed" THEN Return("bad_key") /\ UNCHANGED <<target, via>>
       ELSE target' = u /\ via' = 1 /\ Goto("fetch")
    /\ UNCHANGED <<inputVars, cdnURL, attempts, lastErr, uploaded, submitVars>>

(* The server redirects the download.                                      *)
DownloadRedirected(u) ==
    /\ pc = "fetch"
    /\ IF CheckRedirect(policy, u, via)
       THEN target' = u /\ via' = via + 1 /\ UNCHANGED <<pc, result>>
       ELSE Return("download") /\ UNCHANGED <<target, via>>
    /\ UNCHANGED <<inputVars, cdnURL, attempts, lastErr, uploaded, submitVars>>

(* A status that is not 200, or the transport or reading the body fails.   *)
DownloadFails ==
    /\ pc = "fetch"
    /\ Return("download")
    /\ UNCHANGED <<inputVars, uploadVars, submitVars>>

\* Variant of BodyLimit: the padding is not allowed for.
PlaintextLimit == MaxMediaBytes

(* The limit on the body: ciphertext may have one more block than the      *)
(* plaintext, if there is room for the sum.                                *)
BodyLimit ==
    IF key # "none" /\ MaxMediaBytes <= Wrap(MaxInt - BlockSize)
    THEN Wrap(MaxMediaBytes + BlockSize) ELSE MaxMediaBytes

(* readLimitedBody reads one byte more than the limit, and no more.        *)
ReadLimitedBody(b, limit) ==
    LET n == Wrap(limit + 1) IN IF Len(b) <= n THEN b ELSE SubSeq(b, 1, n)

(* Why a body that was read is no image, or "none"; data is what it        *)
(* decrypts to.                                                            *)
Refusal(read, data) ==
    IF Len(read) > BodyLimit THEN "too_large"
    ELSE IF key # "none" /\ ~WholeBlocks(read) THEN "block_size"
    ELSE IF key # "none" /\ ~PaddingIsValid(read) THEN "padding"
    ELSE IF Len(data) > MaxMediaBytes THEN "too_large"
    ELSE "none"

(* The body is read, then decrypted and checked against the plaintext      *)
(* limit.  A Content-Length above the limit is refused before the body is  *)
(* read (cdn.go:191), with the result the body itself would lead to here;  *)
(* a body that ends before its Content-Length is a failure of reading it.  *)
Downloaded(b) ==
    LET read == ReadLimitedBody(b, BodyLimit)
        data == IF key = "none" THEN read ELSE PKCS7Unpad(read)
        refusal == Refusal(read, data)
    IN  /\ pc = "fetch"
        /\ body' = b
        /\ IF refusal = "none" THEN Return("ok") /\ image' = data
           ELSE Return(refusal) /\ image' = <<>>
        /\ target' = CDNBase /\ via' = 0
        /\ UNCHANGED <<inputVars, cdnURL, attempts, lastErr, uploaded, submitVars>>

Returned == pc = "returned" /\ UNCHANGED vars

SendStep ==
    \/ Start
    \/ \E r \in {"getuploadurl", "no_url"} : NoUploadURL(r)
    \/ \E u \in ServerURLs \cup {CDNBase} : UploadURL(u) \/ Redirected(u)
    \/ Attempt
    \/ \E err \in Permanent \cup Retryable : UploadFails(err)
    \/ UploadSucceeds
    \/ BackoffEnds
    \/ \E taken \in BOOLEAN : Submit(taken)
    \/ \E seen \in BOOLEAN : Answer(seen)
    \/ \E outcome \in {"ticket", "no_ticket", "error"} : GetConfig(outcome)
    \/ \E ok \in BOOLEAN : TypingSent(ok)

DownloadStep ==
    \/ \E u \in ServerURLs \cup {CDNBase} : DownloadURL(u) \/ DownloadRedirected(u)
    \/ DownloadFails

ClientStep ==
    \/ SendStep /\ UNCHANGED downloadVars
    \/ DownloadStep /\ UNCHANGED downloadVars
    \/ \E b \in Bodies : Downloaded(b)

Next == ClientStep \/ ContextEnds \/ Returned

Spec == Init /\ [][Next]_vars

(* The goroutine of the call runs on, and requests are answered or fail.   *)
FairSpec == Spec /\ WF_vars(ClientStep)
-----------------------------------------------------------------------------
(* Properties.                                                             *)

(* The variables have their types.                                         *)
TypeOK ==
    /\ config \in NewClients
    /\ kind \in Kinds /\ content \in {"empty", "fits", "large"} /\ key \in Keys
    /\ pc \in Places
    /\ ctxDone \in BOOLEAN /\ uploaded \in BOOLEAN
    /\ cdnURL \in ServerURLs \cup {CDNBase}
    /\ target \in ServerURLs \cup {CDNBase}
    /\ via \in 0..MaxServerRedirects
    /\ attempts \in 0..UploadAttempts
    /\ lastErr \in {"none"} \cup Permanent \cup Retryable
    /\ submissions \in Nat /\ accepted \in Nat
    /\ body \in Data /\ image \in Data
    /\ result \in Results

(* One call never delivers a message twice, whatever is lost, retried or   *)
(* redirected on the way (src/cdn.go:93-94).                               *)
AtMostOneMessage == accepted <= 1

(* A nil error means the server took the message, and no message refers to *)
(* media whose upload did not complete; a call that did not get as far as  *)
(* the submission has delivered nothing.                                   *)
SuccessIsDelivery ==
    /\ result = "ok" /\ kind \in {"text"} \cup Media => accepted = 1
    /\ accepted > 0 /\ kind \in Media => uploaded
    /\ result \notin {"none", "ok", "sendmessage"} => accepted = 0

(* Media is only ever sent to, and fetched from, the operator's CDN host,  *)
(* a pinned host, or, with nothing pinned, a host that is not a private    *)
(* address, as UrlPolicy has it; and over plain HTTP only if the operator's*)
(* own base URL is.  This holds for every hop of every attempt             *)
(* (README.en.md:184-189).                                                 *)
HopsStayTrusted ==
    pc \in {"request", "fetch"} =>
        /\ target.scheme = "https" \/ CDNBase.scheme = "http"
        /\ \/ target.host.name = CDNBase.host.name
           \/ \E h \in config.MediaHosts : target.host.name = h.name
           \/ config.MediaHosts = {} /\ target.host.kind # "private"

(* What a download returns lies within MaxMediaBytes and accounts for the  *)
(* whole body the server sent: padded and encrypted again it is that body, *)
(* so nothing was cut off by the limit on reading, and the padding taken   *)
(* off was padding to its last byte.  Nothing authenticates the body: a    *)
(* wrong key, damage, or an image cut short before it was served whose     *)
(* last block still ends in valid padding is returned as an image.         *)
ImageIsWhatWasReceived ==
    kind = "download" /\ result = "ok" =>
        /\ Len(image) <= MaxMediaBytes
        /\ body = IF key = "none" THEN image ELSE PKCS7Pad(image)

(* "MaxMediaBytes limits plaintext uploads and downloads"                  *)
(* (src/config.go:65): an image within it that arrives whole is returned,  *)
(* also when it fills the limit and its ciphertext is a block larger, and  *)
(* for the largest limit NewClient accepts: nothing overflows.             *)
FittingImageIsReturned ==
    kind = "download" /\ result \in {"ok", "too_large", "block_size", "padding"} =>
        \A n \in 0..Len(body) :
            LET data == SubSeq(body, 1, n)
                sent == IF key = "none" THEN data ELSE PKCS7Pad(data)
            IN  body = sent /\ n <= MaxMediaBytes => result = "ok" /\ image = data

(* Every call returns, even if its context never ends: a server cannot     *)
(* keep an upload going by failing or redirecting it.                      *)
CallReturns == <>(pc = "returned")
=============================================================================
