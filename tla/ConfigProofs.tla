---------------------------- MODULE ConfigProofs ----------------------------
(***************************************************************************)
(* What urlPolicy guarantees of a URL it lets pass, for any base URL, any  *)
(* pinned hosts and any URL; and what NewClient guarantees of the numbers  *)
(* of a Config it accepts, for integers of any width.  Cited by            *)
(* ListenerProofs, LoginProofs and OutboundProofs.                         *)
(***************************************************************************)
EXTENDS Config, TLAPS

-----------------------------------------------------------------------------
(* The URL policy.                                                         *)

(* The host is the operator's own, or pinned, or, with none pinned, no     *)
(* private address, whatever the case it is spelled in.                    *)
TrustedHost(anchor, allowed, host) ==
    \/ host.name = anchor.name
    \/ \E h \in allowed : host.name = h.name
    \/ allowed = {} /\ host.kind # "private"

(* Spelling a host in lower case changes neither its name nor its kind.    *)
LEMMA LowerKeeps ==
    ASSUME NEW h, IsHost(h)
    PROVE  Lower(h).name = h.name /\ Lower(h).kind = h.kind
BY DEF IsHost, Lower

(* A URL that check accepts (src/urlpolicy.go:40-81) has a trusted host,   *)
(* and a plaintext one is accepted only below a plaintext base.            *)
THEOREM CheckedIsTrusted ==
    ASSUME NEW b, IsURL(b), NEW allowed, \A h \in allowed : IsHost(h),
           NEW u, IsHost(u.host), Check(NewURLPolicy(b, allowed), u)
    PROVE  /\ TrustedHost(b.host, allowed, u.host)
           /\ u.scheme = "https" \/ b.scheme = "http"
<1> DEFINE p == NewURLPolicy(b, allowed)
<1>1. p.configured = Lower(b.host) /\ p.allowed = allowed /\ p.requireTLS = (b.scheme # "http")
  BY DEF NewURLPolicy
<1>2. HostAllowed(p, Lower(u.host)) /\ (u.scheme = "https" \/ ~p.requireTLS)
  BY DEF Check
<1>3. /\ Lower(u.host).name = u.host.name /\ Lower(u.host).kind = u.host.kind
      /\ Lower(b.host).name = b.host.name
  BY LowerKeeps DEF IsURL
<1>4. \A h \in allowed : Lower(h).name = h.name
  BY LowerKeeps
<1> HIDE DEF p
<1>5. TrustedHost(b.host, allowed, u.host)
  BY <1>1, <1>2, <1>3, <1>4 DEF HostAllowed, IsIP, IsPublicIP, TrustedHost
<1> QED
  BY <1>1, <1>2, <1>5
-----------------------------------------------------------------------------
(* Division, and machine integers.                                         *)

(* Quotient and remainder are unique.                                      *)
LEMMA Remainder ==
    ASSUME NEW a \in Int, NEW b \in Nat, b > 0, NEW q \in Int, NEW r \in 0..(b - 1),
           a = b * q + r
    PROVE  a % b = r /\ a \div b = q
<1> DEFINE q1 == a \div b
           r1 == a % b
<1>1. q1 \in Int /\ r1 \in 0..(b - 1) /\ a = b * q1 + r1
  BY Z3
<1> HIDE DEF q1, r1
<1>2. b * (q1 - q) = r - r1
  BY <1>1
<1>3. ~(q1 - q >= 1)
  <2> SUFFICES ASSUME q1 - q >= 1 PROVE FALSE
    OBVIOUS
  <2>1. b * (q1 - q) >= b
    BY <1>1
  <2> QED
    BY <1>1, <1>2, <2>1
<1>4. ~(q1 - q <= -1)
  <2> SUFFICES ASSUME q1 - q <= -1 PROVE FALSE
    OBVIOUS
  <2>1. b * (q1 - q) <= -b
    BY <1>1
  <2> QED
    BY <1>1, <1>2, <2>1
<1>5. q1 = q
  BY <1>1, <1>3, <1>4
<1> QED
  BY <1>1, <1>5 DEF q1, r1

LEMMA Division ==
    ASSUME NEW a \in Int, NEW b \in Nat, b > 0
    PROVE  /\ a \div b \in Int /\ a % b \in 0..(b - 1)
           /\ a = b * (a \div b) + (a % b)
BY Z3

(* Within Int64, machine arithmetic is arithmetic.                         *)
LEMMA NoWrap ==
    ASSUME NEW x \in Int64
    PROVE  Wrap(x) = x
<1>1. MaxInt \in Nat
  BY MachineAssumption
<1>2. x + MaxInt + 1 \in 0..(2 * (MaxInt + 1) - 1)
  BY <1>1 DEF Int64
<1>3. (x + MaxInt + 1) % (2 * (MaxInt + 1)) = x + MaxInt + 1
  <2> DEFINE m == 2 * (MaxInt + 1)
             y == x + MaxInt + 1
  <2>1. m \in Nat /\ m > 0 /\ y \in 0..(m - 1) /\ y \in Int
    BY <1>1, <1>2
  <2> HIDE DEF m, y
  <2>2. y = m * 0 + y
    BY <2>1
  <2> QED
    BY <2>1, <2>2, Remainder, 0 \in Int DEF m, y
<1> QED
  BY <1>1, <1>3 DEF Wrap, Int64
-----------------------------------------------------------------------------
(* The numbers of an accepted configuration.                               *)

(* Numbers of an accepted configuration lie in Int64, and the sums the     *)
(* code builds of them do not wrap: the media limit with its margin, the   *)
(* limit of a response with the byte that tells it is too large, and the   *)
(* timeout of a long poll with its slack (src/config.go:215-224).          *)
THEOREM AcceptedNumbersFit ==
    ASSUME NEW raw \in [Settings -> Int64], Accepted(raw)
    PROVE  LET n == SetDefaults(raw)
           IN  /\ n \in [Settings -> Int64]
               /\ n["MaxMediaBytes"] >= 1
               /\ n["MaxMediaBytes"] + MediaMargin \in Int64
               /\ n["MaxResponseBytes"] + 1 \in Int64
               /\ n["LongPollTimeout"] > 0 /\ n["LongPollTimeout"] + PollSlack \in Int64
               /\ n["BackoffInitial"] \in 1..n["BackoffMax"]
<1> DEFINE n == SetDefaults(raw)
<1>0. MaxInt \in Nat /\ MediaMargin \in 0..MaxInt /\ PollSlack \in 0..MaxInt
  BY MachineAssumption
<1>1. \A s \in Settings : Defaults[s] \in Int64 /\ Defaults[s] > 0
  BY <1>0, DefaultsAssumption DEF Int64
<1>2. n \in [Settings -> Int64]
  BY <1>1 DEF SetDefaults
<1>3. \A s \in NonPositiveIsUnset : n[s] > 0
  <2> SUFFICES ASSUME NEW s \in NonPositiveIsUnset PROVE n[s] > 0
    OBVIOUS
  <2>1. s \in Settings /\ raw[s] \in Int
    BY <1>0 DEF Settings, Int64
  <2> QED
    BY <1>1, <2>1 DEF SetDefaults
<1>4. {"MaxMediaBytes", "MaxResponseBytes", "LongPollTimeout", "BackoffInitial", "BackoffMax"}
        \subseteq Settings /\ "LongPollTimeout" \in NonPositiveIsUnset
  BY DEF Settings, ZeroIsUnset, NonPositiveIsUnset
<1>5. ValidNumbers(n)
  BY DEF Accepted
<1> HIDE DEF n
<1> DEFINE media == n["MaxMediaBytes"]
           response == n["MaxResponseBytes"]
           poll == n["LongPollTimeout"]
           low == n["BackoffInitial"]
           high == n["BackoffMax"]
<1>6. media \in Int64 /\ response \in Int64 /\ poll \in Int64 /\ low \in Int64 /\ high \in Int64
  BY <1>2, <1>4
<1>7. /\ response >= 1 /\ response # MaxInt
      /\ media >= 1 /\ media <= MaxInt - MediaMargin
      /\ low > 0 /\ high >= low
      /\ poll <= MaxInt - PollSlack
  BY <1>5 DEF ValidNumbers, ValidLimits
<1>8. poll > 0
  BY <1>3, <1>4
<1> HIDE DEF media, response, poll, low, high
<1>9. /\ media + MediaMargin \in Int64 /\ response + 1 \in Int64
      /\ poll + PollSlack \in Int64 /\ low \in 1..high
  BY <1>0, <1>6, <1>7, <1>8 DEF Int64
<1> QED
  BY <1>2, <1>7, <1>8, <1>9 DEF n, media, response, poll, low, high
=============================================================================
