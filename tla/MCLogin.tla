-------------------------------- MODULE MCLogin --------------------------------
(***************************************************************************)
(* Bounds for Login: a login without pinned hosts and with a code handler, *)
(* and one from a plaintext private host with pinned hosts and without a   *)
(* handler; redirects to the first login host, a public host in two        *)
(* spellings, another one, a private address and a malformed host.         *)
(***************************************************************************)
EXTENDS Login

Pub == Host("pub", "name")
PubUpper == [Pub EXCEPT !.upper = TRUE]
Other == Host("other", "name")
Private == Host("10.0.0.1", "private")

Home1 == Url("https", Host("home", "name"))
MCOptions ==
    {[baseURL |-> Home1, loginHosts |-> {}, maxVerifyAttempts |-> 2,
      codeHandler |-> TRUE],
     [baseURL |-> Url("http", Private), loginHosts |-> {PubUpper, Private},
      maxVerifyAttempts |-> 1, codeHandler |-> FALSE]}
MCMalformed == Host("a/b", "malformed")
MCHosts == {Home1.host, Pub, PubUpper, Other, Private, MCMalformed}
=============================================================================
