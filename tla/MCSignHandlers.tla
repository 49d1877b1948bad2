--------------------------- MODULE MCSignHandlers ---------------------------
(***************************************************************************)
(* An instance of SignHandlers for TLC: two callers, their tokens, two     *)
(* keys, a proxy and two client addresses, and three versions of auth.toml *)
(* that take from each caller, and give back, every kind of permission.    *)
(***************************************************************************)
EXTENDS SignHandlers, TLC

CONSTANTS A, B, TokenA, TokenB, K1, K2, Proxy, Ip1, Ip2

MCRules ==
    \* A may use K1 from Ip1 only; B is not restricted.
    (0 :> [allow_all |-> FALSE, tokens |-> (TokenA :> A @@ TokenB :> B),
           allowed_keys |-> (A :> {K1}), allowed_ips |-> (A :> {Ip1}),
           trusted_proxies |-> {Proxy}]) @@
    \* A lost its token and is moved to K2; B may use K1 from Ip2 only; no proxy.
    (1 :> [allow_all |-> FALSE, tokens |-> (TokenB :> B),
           allowed_keys |-> (A :> {K2} @@ B :> {K1}), allowed_ips |-> (B :> {Ip2}),
           trusted_proxies |-> {}]) @@
    \* Everybody is let in.
    (2 :> [allow_all |-> TRUE, tokens |-> (TokenB :> A),
           allowed_keys |-> (A :> {}), allowed_ips |-> (A :> {}),
           trusted_proxies |-> {}]) @@
    (Default :> [allow_all |-> TRUE, tokens |-> <<>>, allowed_keys |-> <<>>,
                 allowed_ips |-> <<>>, trusted_proxies |-> {}])

MCRegistry ==
    (0 :> (K1 :> "ES256" @@ K2 :> "RS256")) @@
    \* K1 changed its algorithm; K2 is disabled.
    (1 :> (K1 :> "RS256")) @@
    (2 :> <<>>) @@
    (Default :> (K1 :> "ES256"))

MCRequests ==
    {r \in [via : {"http", "grpc"}, caller : {A, B}, token : {TokenA, TokenB, None},
            peer : {Proxy, Ip2, None}, xff : {Ip1, None}, key : {K1, K2, None},
            alg : {"ES256", "none", None}, decodes : BOOLEAN] :
        /\ r.peer = None => r.via = "grpc" /\ r.xff = None
        /\ r.token = None => r.caller = A
        /\ ~r.decodes => r.via = "http" /\ r.alg = None /\ r.key # K2
        /\ r.alg = "none" => r.key = None \/ (r.key = K1 /\ r.via = "grpc")}

\* Those of them that name no algorithm, for the run about the key lists.
MCPlainRequests == {r \in MCRequests : r.alg = None}

=============================================================================
