---------------------------- MODULE SignHandlers ----------------------------
(***************************************************************************)
(* The sign endpoints: handle_sign (http/handlers.rs) and                  *)
(* SigningGatewayService::sign (grpc/service.rs), while auth.toml is       *)
(* reloaded.                                                               *)
(*                                                                         *)
(* Both handlers take the lock of the auth rules anew for every check, and *)
(* that of the key registry twice, so each check may see another version.  *)
(* What the two cells do is LiveConfig: this module adds the handlers, one *)
(* step per look at a cell.  Handlers write neither cell nor anything else *)
(* another request reads, so one request at a time shows every outcome.    *)
(***************************************************************************)
EXTENDS LiveConfig

CONSTANTS
    MaxVersion,  \* bound: the newest version of auth.toml
    Rules,       \* version |-> its [auth] section
    Registry,    \* version |-> its enabled keys, as key id |-> algorithm
    Requests,    \* the requests that may arrive
    None         \* no token, no address, no key id, no algorithm

VARIABLES
    at,        \* the next look of the handler at a cell, or "idle", "done"
    req,       \* the request
    who,       \* the caller the checks are made for
    clientIp,  \* the resolved address
    chosen,    \* key id and algorithm, once they are decided
    reply,     \* the answer
    used,      \* what the backend signed with: key id, algorithm, the key's algorithm
    seenAuth,  \* ghost: the versions the rules had since the request arrived
    seenKeys   \* ghost: the same for the registry

reqVars == <<at, req, who, clientIp, chosen, reply, used>>
ghostVars == <<seenAuth, seenKeys>>
vars == <<liveVars, reqVars, ghostVars>>

-----------------------------------------------------------------------------

Versions == 0..MaxVersion \cup {Default}
Rule == Rules[auth]
Keys == Registry[keys]

Algorithms == {"RS256", "ES256", "HS256"}

\* The auth rules name no empty caller, and a request comes with one: tokens,
\* key lists and caller_id are mandatory texts.  A gRPC payload needs no
\* decoding.  Keys are of a known algorithm.
ASSUME HandlersAssumption ==
    /\ MaxVersion \in Nat
    /\ Default # Down /\ Down \notin Nat
    /\ None \notin Algorithms
    /\ \A r \in Requests :
         /\ r.via \in {"http", "grpc"} /\ r.caller # None
         /\ r.decodes \in BOOLEAN /\ (r.via = "grpc" => r.decodes)
    /\ \A v \in Versions :
         /\ \A t \in DOMAIN Rules[v].tokens : Rules[v].tokens[t] # None
         /\ \A k \in DOMAIN Registry[v] : Registry[v][k] \in Algorithms

Refusals == {"Unauthorized", "IpNotAllowed", "KeyNotAllowed", "InvalidPayload",
             "InvalidAlgorithm", "KeyNotFound", "SigningFailed"}
Steps == {"idle", "caller", "token", "resolve", "ip", "key", "payload", "registry",
          "sign", "done"}

Nothing == [key |-> None, alg |-> None, of |-> None]

\* Type invariant.
TypeOK ==
    /\ keys \in Versions /\ auth \in Versions /\ lagging \in {"yes", "no"}
    /\ at \in Steps
    /\ req \in Requests \cup {None}
    /\ reply \in Refusals \cup {"none", "Signed"}
    /\ chosen.alg \in Algorithms \cup {None}
    /\ used.alg \in Algorithms \cup {None}
    /\ used.of \in Algorithms \cup {None}
    /\ seenAuth \subseteq Versions /\ seenKeys \subseteq Versions
    /\ at # "idle" => auth \in seenAuth /\ keys \in seenKeys

Init ==
    /\ written = MaxVersion
    /\ \E v \in {0, Default} : keys = v /\ auth = v
    /\ lagging = "no"
    /\ at = "idle"
    /\ req = None
    /\ who = None /\ clientIp = None
    /\ chosen = [key |-> None, alg |-> None]
    /\ reply = "none"
    /\ used = Nothing
    /\ seenAuth = {} /\ seenKeys = {}

-----------------------------------------------------------------------------
(* Steps that both handlers share.                                         *)

Goto(step) ==
    /\ at' = step
    /\ UNCHANGED reply

Refuse(code) ==
    /\ at' = "done"
    /\ reply' = code

\* A check passes on to the next step, or ends the request with code.
Check(ok, step, code) ==
    /\ IF ok THEN Goto(step) ELSE Refuse(code)
    /\ UNCHANGED <<liveVars, ghostVars, req, clientIp, chosen, used>>

\* A request arrives and its handler is spawned.
Arrive(r) ==
    /\ at = "idle"
    /\ req' = r
    /\ at' = "caller"
    /\ seenAuth' = {auth} /\ seenKeys' = {keys}
    /\ UNCHANGED <<liveVars, who, clientIp, chosen, reply, used>>

\* AppState::resolve_client_ip: the leftmost address of X-Forwarded-For when
\* the peer is a trusted proxy and the header parses, the peer otherwise.
ResolveClientIp ==
    /\ at = "resolve"
    /\ clientIp' = IF req.peer \in Rule.trusted_proxies /\ req.xff # None
                     THEN req.xff ELSE req.peer
    /\ Goto("ip")
    /\ UNCHANGED <<liveVars, ghostVars, req, who, chosen, used>>

Restricts(list) == who \in DOMAIN list

\* HsmBackend::sign looks the key up anew; the algorithm is not compared with
\* the key's.  Signing with a mechanism that does not fit it, or a backend
\* error, ends in SigningFailed.
Sign ==
    /\ at = "sign"
    /\ at' = "done"
    /\ IF chosen.key \notin DOMAIN Keys
         THEN reply' = "KeyNotFound" /\ UNCHANGED used
         ELSE \/ reply' = "SigningFailed" /\ UNCHANGED used
              \/ /\ reply' = "Signed"
                 /\ used' = [key |-> chosen.key, alg |-> chosen.alg, of |-> Keys[chosen.key]]
    /\ UNCHANGED <<liveVars, ghostVars, req, who, clientIp, chosen>>

\* The answer is sent.
Respond ==
    /\ at = "done"
    /\ at' = "idle"
    /\ req' = None /\ who' = None /\ clientIp' = None
    /\ chosen' = [key |-> None, alg |-> None]
    /\ reply' = "none"
    /\ used' = Nothing
    /\ seenAuth' = {} /\ seenKeys' = {}
    /\ UNCHANGED liveVars

-----------------------------------------------------------------------------
(* POST /v1/sign.                                                          *)

\* check_caller: the token must be that of the caller the request names.
CheckCaller ==
    /\ at = "caller" /\ req.via = "http"
    /\ who' = req.caller
    /\ Check(Rule.allow_all \/ (req.token \in DOMAIN Rule.tokens
                                  /\ Rule.tokens[req.token] = req.caller),
             "resolve", "Unauthorized")

\* Mutation of CheckIp: a caller without an entry is refused too.
CheckIpListed ==
    /\ at = "ip" /\ req.via = "http"
    /\ Check(Rule.allow_all \/ (Restricts(Rule.allowed_ips)
                                  /\ clientIp \in Rule.allowed_ips[who]),
             "key", "IpNotAllowed")
    /\ UNCHANGED who

\* check_ip_allowed.
CheckIp ==
    /\ at = "ip" /\ req.via = "http"
    /\ Check(Rule.allow_all \/ (Restricts(Rule.allowed_ips)
                                  => clientIp \in Rule.allowed_ips[who]),
             "key", "IpNotAllowed")
    /\ UNCHANGED who

\* check_key_allowed, for a request that names a key.
CheckKey ==
    /\ at = "key" /\ req.via = "http"
    /\ Check(\/ req.key = None
             \/ Rule.allow_all
             \/ Restricts(Rule.allowed_keys) => req.key \in Rule.allowed_keys[who],
             "payload", "KeyNotAllowed")
    /\ UNCHANGED who

DecodePayload ==
    /\ at = "payload"
    /\ Check(req.decodes, "registry", "InvalidPayload")
    /\ UNCHANGED who

Choose(key, alg) ==
    /\ Goto("sign")
    /\ chosen' = [key |-> key, alg |-> alg]

\* Mutation of ResolveKey: the default algorithm is that of the first key.
ResolveKeyAlgorithmOfFirst ==
    /\ at = "registry" /\ req.via = "http"
    /\ \/ req.alg = None /\ DOMAIN Keys = {} /\ Refuse("KeyNotFound") /\ UNCHANGED chosen
       \/ \E first \in DOMAIN Keys, key \in IF req.key = None THEN DOMAIN Keys ELSE {req.key} :
            \/ /\ req.alg \in Algorithms \cup {None}
               /\ Choose(key, IF req.alg = None THEN Keys[first] ELSE req.alg)
            \/ /\ req.alg \notin Algorithms \cup {None}
               /\ Refuse("InvalidAlgorithm") /\ UNCHANGED chosen
    /\ UNCHANGED <<liveVars, ghostVars, req, who, clientIp, used>>

\* list_keys, and from it the key, when the request names none (the first of a
\* hash map, that is any), and the algorithm, when the request names none.
ResolveKey ==
    /\ at = "registry" /\ req.via = "http"
    /\ \/ req.key = None /\ DOMAIN Keys = {} /\ Refuse("KeyNotFound") /\ UNCHANGED chosen
       \/ \E key \in IF req.key = None THEN DOMAIN Keys ELSE {req.key} :
            \/ req.alg \in Algorithms /\ Choose(key, req.alg)
            \/ /\ req.alg \notin Algorithms \cup {None}
               /\ Refuse("InvalidAlgorithm") /\ UNCHANGED chosen
            \/ req.alg = None /\ key \in DOMAIN Keys /\ Choose(key, Keys[key])
            \/ /\ req.alg = None /\ key \notin DOMAIN Keys
               /\ Refuse("KeyNotFound") /\ UNCHANGED chosen
    /\ UNCHANGED <<liveVars, ghostVars, req, who, clientIp, used>>

-----------------------------------------------------------------------------
(* SigningService/Sign.                                                    *)

\* allow_all is read once; when it is set nothing else is checked.
ReadAllowAll ==
    /\ at = "caller" /\ req.via = "grpc"
    /\ Goto(IF Rule.allow_all THEN "registry" ELSE "token")
    /\ UNCHANGED <<liveVars, ghostVars, req, who, clientIp, chosen, used>>

\* The caller is the one the token stands for, whatever caller_id says.  A
\* connection without a peer address skips the address check.
LookUpToken ==
    /\ at = "token"
    /\ LET known == req.token \in DOMAIN Rule.tokens IN
        /\ Check(known, IF req.peer = None THEN "key" ELSE "resolve", "Unauthorized")
        /\ who' = IF known THEN Rule.tokens[req.token] ELSE None

CheckIpGrpc ==
    /\ at = "ip" /\ req.via = "grpc"
    /\ Check(Restricts(Rule.allowed_ips) => clientIp \in Rule.allowed_ips[who],
             "key", "IpNotAllowed")
    /\ UNCHANGED who

\* Mutation of CheckKeyGrpc: the list of the caller_id in the request is used.
CheckKeyOfCallerId ==
    /\ at = "key" /\ req.via = "grpc"
    /\ Check(\/ req.key = None
             \/ req.caller \in DOMAIN Rule.allowed_keys
                  => req.key \in Rule.allowed_keys[req.caller],
             "registry", "KeyNotAllowed")
    /\ UNCHANGED who

CheckKeyGrpc ==
    /\ at = "key" /\ req.via = "grpc"
    /\ Check(\/ req.key = None
             \/ Restricts(Rule.allowed_keys) => req.key \in Rule.allowed_keys[who],
             "registry", "KeyNotAllowed")
    /\ UNCHANGED who

\* Mutation of ResolveAlgorithm: an unknown algorithm is passed on.
ResolveAlgorithmUnchecked ==
    /\ at = "registry" /\ req.via = "grpc"
    /\ \/ req.alg # None /\ Choose(req.key, req.alg)
       \/ req.alg = None /\ req.key \in DOMAIN Keys /\ Choose(req.key, Keys[req.key])
       \/ /\ req.alg = None /\ req.key \notin DOMAIN Keys
          /\ Refuse("KeyNotFound") /\ UNCHANGED chosen
    /\ UNCHANGED <<liveVars, ghostVars, req, who, clientIp, used>>

\* An unspecified algorithm is looked up in the registry.
ResolveAlgorithm ==
    /\ at = "registry" /\ req.via = "grpc"
    /\ \/ req.alg \in Algorithms /\ Choose(req.key, req.alg)
       \/ /\ req.alg \notin Algorithms \cup {None}
          /\ Refuse("InvalidAlgorithm") /\ UNCHANGED chosen
       \/ req.alg = None /\ req.key \in DOMAIN Keys /\ Choose(req.key, Keys[req.key])
       \/ /\ req.alg = None /\ req.key \notin DOMAIN Keys
          /\ Refuse("KeyNotFound") /\ UNCHANGED chosen
    /\ UNCHANGED <<liveVars, ghostVars, req, who, clientIp, used>>

-----------------------------------------------------------------------------

HttpStep == CheckCaller \/ CheckIp \/ CheckKey \/ DecodePayload \/ ResolveKey

GrpcStep == ReadAllowAll \/ LookUpToken \/ CheckIpGrpc \/ CheckKeyGrpc \/ ResolveAlgorithm

HandlerStep == HttpStep \/ GrpcStep \/ ResolveClientIp \/ Sign

\* A reload replaces one of the cells, or cannot replace the registry.
Reload ==
    /\ KeepKeys \/ \E v \in Published : ReplaceKeys(v) \/ ReplaceAuth(v)
    /\ UNCHANGED reqVars
    /\ seenAuth' = IF at = "idle" THEN {} ELSE seenAuth \cup {auth'}
    /\ seenKeys' = IF at = "idle" THEN {} ELSE seenKeys \cup {keys'}

Next ==
    \/ \E r \in Requests : Arrive(r)
    \/ HandlerStep
    \/ Respond
    \/ Reload

Spec == Init /\ [][Next]_vars

-----------------------------------------------------------------------------
(* What the endpoints promise.  The reference below is the README's account*)
(* of the rules as a whole: for both endpoints alike, without steps, and   *)
(* without the way around the key list that handle_sign has.               *)

\* Who a request speaks for under a set of rules, None when for nobody.
Speaker(r, rule) ==
    IF r.via = "http"
      THEN IF \/ rule.allow_all
              \/ \E t \in DOMAIN rule.tokens : t = r.token /\ rule.tokens[t] = r.caller
             THEN r.caller ELSE None
      ELSE IF r.token \in DOMAIN rule.tokens THEN rule.tokens[r.token] ELSE None

Authentic(r, rule) == rule.allow_all \/ Speaker(r, rule) # None

Address(r, rule) ==
    IF r.xff # None /\ r.peer \in rule.trusted_proxies THEN r.xff ELSE r.peer

Listed(list, caller, entry) == caller \in DOMAIN list => entry \in list[caller]

FromAllowedIp(r, rule) ==
    \/ rule.allow_all
    \/ r.via = "grpc" /\ r.peer = None
    \/ Listed(rule.allowed_ips, Speaker(r, rule), Address(r, rule))

KeyAllowed(r, rule, key) ==
    rule.allow_all \/ Listed(rule.allowed_keys, Speaker(r, rule), key)

\* The keys a request may be signed with: the one it names; when it names none,
\* any key of the registry over HTTP, and over gRPC one without a name if there
\* is such a key.
Candidates(r, registry) ==
    IF r.key # None THEN {r.key}
    ELSE IF r.via = "http" THEN DOMAIN registry ELSE {None} \cap DOMAIN registry

\* Whatever key is taken, it is outside the caller's list.
KeyRefused(r, rule, registry) ==
    LET candidates == Candidates(r, registry) IN
    candidates # {} /\ \A key \in candidates : ~KeyAllowed(r, rule, key)

\* What a request is answered under one version of rules and one of keys.
Answers(r, rule, registry) ==
    IF ~Authentic(r, rule) THEN {"Unauthorized"}
    ELSE IF ~FromAllowedIp(r, rule) THEN {"IpNotAllowed"}
    ELSE IF KeyRefused(r, rule, registry) THEN {"KeyNotAllowed"}
    ELSE IF ~r.decodes THEN {"InvalidPayload"}
    ELSE IF r.via = "http" /\ Candidates(r, registry) = {} THEN {"KeyNotFound"}
    ELSE IF r.alg \notin Algorithms \cup {None} THEN {"InvalidAlgorithm"}
    ELSE IF Candidates(r, registry) \cap DOMAIN registry = {} THEN {"KeyNotFound"}
    ELSE {"Signed", "SigningFailed"}

\* A caller with a key list names no key and may get one all the same: the
\* handlers do not look at the list then.
PastTheKeyList(r, rule, registry) ==
    /\ r.key = None /\ Candidates(r, registry) # {}
    /\ ~rule.allow_all /\ Speaker(r, rule) \in DOMAIN rule.allowed_keys

\* A request during which nothing was reloaded is answered by the reference,
\* on both endpoints: no check is skipped, none is made twice, and they come in
\* that order.  Exempt are requests past the key list, about which code and
\* README disagree (AllowlistsBind).  (README 216-261)
QuietRequestsFollowRules ==
    at = "done" =>
        \A a \in seenAuth, k \in seenKeys :
            seenAuth = {a} /\ seenKeys = {k} /\ ~PastTheKeyList(req, Rules[a], Registry[k])
              => reply \in Answers(req, Rules[a], Registry[k])

\* Across reloads, a signature on behalf of a caller was, check by check,
\* allowed by rules that were in force while the request was served: a token or
\* address that every version since its arrival rejects gets none, and no more
\* does a key that the request names.  (A key it does not name is not checked:
\* see AllowlistsBind.)
SignaturesWereAllowed ==
    reply = "Signed" =>
        /\ \E a \in seenAuth : Authentic(req, Rules[a])
        /\ \E a \in seenAuth : Rules[a].allow_all \/ clientIp = None
               \/ \E b \in seenAuth : clientIp = Address(req, Rules[b])
                    /\ Listed(Rules[a].allowed_ips, who, clientIp)
        /\ req.key # None =>
               \E a \in seenAuth : Rules[a].allow_all \/ Listed(Rules[a].allowed_keys, who, req.key)
        /\ \E k \in seenKeys : used.key \in DOMAIN Registry[k] /\ used.of = Registry[k][used.key]

\* However reloads fall between the checks, the look-up and the signature: the
\* key that signs is the one the request names, so the one the checks were made
\* for, and the algorithm is the one it names; the default is what that key had
\* in a registry that was in force meanwhile.  (key_id and algorithm in
\* handle_sign and SigningGatewayService::sign)
SignedAsAsked ==
    reply = "Signed" =>
        /\ req.key # None => used.key = req.key
        /\ IF req.alg # None
             THEN used.alg = req.alg
             ELSE \E k \in seenKeys : /\ used.key \in DOMAIN Registry[k]
                                     /\ used.alg = Registry[k][used.key]

-----------------------------------------------------------------------------
(* What the README says of the endpoints, and the code does not do.        *)

\* README 216-226, handlers.rs:126-127: a caller with a key list gets signatures
\* with the keys of its list only, by some rules in force since its request
\* arrived.
AllowlistsBind ==
    reply = "Signed" =>
        \E a \in seenAuth : Rules[a].allow_all \/ Listed(Rules[a].allowed_keys, who, used.key)

=============================================================================
