-------------------------------- MODULE Config --------------------------------
(***************************************************************************)
(* The settings of a client as NewClient leaves them (src/config.go:       *)
(* setDefaults 164-213, validate 215-233).  Pure operators: what a client  *)
(* starts from in ListenerHistory and Outbound.                            *)
(*                                                                         *)
(* Numbers are machine integers from -MaxInt - 1 to MaxInt (MaxInt64 in    *)
(* the code), so that a sum may wrap; a numeric setting is an entry of a   *)
(* function from the names in Settings.  A base URL is a URL of UrlPolicy. *)
(***************************************************************************)
EXTENDS Integers, UrlPolicy

CONSTANTS
    MaxInt,         \* math.MaxInt64
    MediaMargin,    \* 32: what a media limit may be exceeded by
    PollSlack,      \* five seconds: what a long poll may exceed its timeout by
    Defaults        \* the Default... constants (src/types.go:9-31)

Int64 == (-MaxInt - 1)..MaxInt

(* Two's complement.                                                       *)
Wrap(x) == ((x + MaxInt + 1) % (2 * (MaxInt + 1))) - (MaxInt + 1)

\* Left unset by zero, or by anything that is not positive.
ZeroIsUnset ==
    {"HandlerConcurrency", "BackoffInitial", "BackoffMax", "MaxResponseBytes",
     "MaxMediaBytes", "MaxContextTokens"}
NonPositiveIsUnset ==
    {"SendTimeout", "MediaTimeout", "TypingTimeout", "LongPollTimeout",
     "EmptyBufExpiredThreshold"}
Settings == ZeroIsUnset \cup NonPositiveIsUnset

ASSUME MachineAssumption ==
    MaxInt \in Nat /\ MediaMargin \in 0..MaxInt /\ PollSlack \in 0..MaxInt

SetDefaults(raw) ==
    [s \in Settings |->
        IF raw[s] = 0 \/ (raw[s] < 0 /\ s \in NonPositiveIsUnset)
        THEN Defaults[s] ELSE raw[s]]

(* The byte limits leave room for what is added to them: a block of        *)
(* padding, and one byte that tells a body is too large.                   *)
ValidLimits(n) ==
    /\ n["MaxResponseBytes"] >= 1 /\ n["MaxResponseBytes"] # MaxInt
    /\ n["MaxMediaBytes"] >= 1 /\ n["MaxMediaBytes"] <= MaxInt - MediaMargin

ValidNumbers(n) ==
    /\ n["HandlerConcurrency"] >= 1 /\ n["MaxContextTokens"] >= 1
    /\ n["BackoffInitial"] > 0 /\ n["BackoffMax"] >= n["BackoffInitial"]
    /\ ValidLimits(n)
    /\ n["LongPollTimeout"] <= MaxInt - PollSlack

ASSUME DefaultsAssumption ==
    Defaults \in [Settings -> 1..MaxInt] /\ ValidNumbers(Defaults)

(* The numbers of a client built from raw, if there is one.                *)
Accepted(raw) == ValidNumbers(SetDefaults(raw))

(* A base URL: http(s), a host, no credentials.                            *)
ValidBase(u) == u.scheme \in {"https", "http"} /\ u.host # NoHost /\ ~u.creds
=============================================================================
