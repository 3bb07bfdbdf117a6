------------------------------ MODULE MCOutbound ------------------------------
(***************************************************************************)
(* Bounds for Outbound: an https CDN without pinned hosts and a plaintext  *)
(* one with two; media limits at and between block boundaries and at the   *)
(* largest one allowed, with some that are not; every short body of bytes  *)
(* that are zero, a padding length, or too large for one; a public host    *)
(* over https and http, one spelled with capital letters, a private        *)
(* address, a URL with credentials, one with another scheme and one        *)
(* without a host.                                                         *)
(***************************************************************************)
EXTENDS Outbound

Pub == Host("pub", "name")
PubUpper == [Pub EXCEPT !.upper = TRUE]
Private == Host("10.0.0.1", "private")

Cdn == Host("cdn", "name")

MCDefaults == [s \in Settings |-> 2]
Limit(n) == [s \in Settings |-> IF s = "MaxMediaBytes" THEN n ELSE 0]

Plain == [CDNBaseURL |-> Url("https", Cdn), MediaHosts |-> {}, numbers |-> Limit(0)]
Pinned ==
    [CDNBaseURL |-> Url("http", Cdn), MediaHosts |-> {PubUpper, Private},
     numbers |-> Limit(1)]
MCConfigs ==
    {Plain, Pinned}
        \cup {[Plain EXCEPT !.numbers = Limit(n)] : n \in {-1, 11, 12, MaxInt}}
        \cup {[Plain EXCEPT !.CDNBaseURL.creds = TRUE]}

MCURLs ==
    {Url("https", Pub), Url("http", Pub), Url("https", PubUpper),
     Url("https", Private), Url("https", Host("1.1.1.1", "public")),
     [Url("https", Pub) EXCEPT !.creds = TRUE], Url("other", Pub), Url("https", NoHost)}

Zeros(n) == [i \in 1..n |-> 0]
MCBodies ==
    UNION {[1..n -> 0..BlockSize + 1] : n \in 0..4} \cup {<<1, 1, 1, 1, 1>>}
        \cup {Zeros(11) \o <<1>>, Zeros(12) \o <<2, 2>>}
=============================================================================
