------------------------------- MODULE UrlPolicy -------------------------------
(***************************************************************************)
(* urlPolicy (src/urlpolicy.go:31-105): which server-chosen URLs a request *)
(* may be sent to.  Pure operators, used by modules Login (the host a QR   *)
(* login is redirected to) and Outbound (the upload URL and the HTTP       *)
(* redirects of the upload).                                               *)
(*                                                                         *)
(* What the policy looks at of a URL is a record                           *)
(*   scheme  "https", "http" or "other"                                    *)
(*   creds   it has a user-info part                                       *)
(*   host    NoHost, or [name, kind, upper]: kind is "name", "public" or   *)
(*           "private" (an address literal isPublicIP refuses), and upper  *)
(*           tells that it is spelled with capital letters.  A literal     *)
(*           that ParseIP does not take, such as an IPv6 one with a zone,  *)
(*           is a name, wherever it leads: names are not resolved.         *)
(***************************************************************************)
EXTENDS Naturals

MaxServerRedirects == 5

Host(name, kind) == [name |-> name, kind |-> kind, upper |-> FALSE]
NoHost == Host("", "none")
Url(scheme, host) == [scheme |-> scheme, creds |-> FALSE, host |-> host]

IsHost(h) == h = [name |-> h.name, kind |-> h.kind, upper |-> h.upper]
IsURL(u) == u = [scheme |-> u.scheme, creds |-> u.creds, host |-> u.host] /\ IsHost(u.host)

Lower(host) == [host EXCEPT !.upper = FALSE]

(* newURLPolicy: the policy is anchored to the operator's own base URL.    *)
NewURLPolicy(base, allowed) ==
    [requireTLS |-> base.scheme # "http",
     configured |-> Lower(base.host),
     allowed    |-> allowed]

IsPublicIP(host) == host.kind = "public"
IsIP(host) == host.kind \in {"public", "private"}

\* Variant of HostAllowed: pinned hosts are added to the public ones.
HostWithoutPins(p, host) ==
    \/ host = p.configured
    \/ \E candidate \in p.allowed : host = Lower(candidate)
    \/ ~(IsIP(host) /\ ~IsPublicIP(host))

\* Variant of HostAllowed: no look at address literals.
AnyHostUnlessPinned(p, host) ==
    \/ host = p.configured
    \/ p.allowed = {}
    \/ \E candidate \in p.allowed : host = Lower(candidate)

(* The host part of check: the configured host, a pinned one, or, when no  *)
(* host is pinned, anything but an address literal that is not public.     *)
HostAllowed(p, host) ==
    \/ host = p.configured
    \/ \E candidate \in p.allowed : host = Lower(candidate)
    \/ p.allowed = {} /\ ~(IsIP(host) /\ ~IsPublicIP(host))

(* check, true when it returns nil.                                        *)
Check(p, u) ==
    /\ \/ u.scheme = "https"
       \/ u.scheme = "http" /\ ~p.requireTLS
    /\ ~u.creds
    /\ u.host # NoHost
    /\ HostAllowed(p, Lower(u.host))

(* checkRedirect, true when it returns nil; via counts the requests of the *)
(* chain that have been sent already.                                      *)
CheckRedirect(p, u, via) == via < MaxServerRedirects /\ Check(p, u)
=============================================================================
