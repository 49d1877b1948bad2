------------------------- MODULE SignHandlersProofs -------------------------
(***************************************************************************)
(* Proofs about SignHandlers, for any rules, registries, requests and      *)
(* number of versions.                                                     *)
(*                                                                         *)
(* A signature was allowed check by check because each step of a handler   *)
(* leaves behind what its check saw: Passed says it at every step, in      *)
(* terms of the versions seen since the request arrived.  It survives a    *)
(* reload because those sets only grow while a request is served.          *)
(***************************************************************************)
EXTENDS SignHandlers, TLAPS

\* What each check has established, by the versions it may have looked at.
CallerChecked(seen) == \E a \in seen : Authentic(req, Rules[a])

AddressResolved(seen) == \E b \in seen : clientIp = Address(req, Rules[b])

IpChecked(seen) ==
    \E a \in seen : Rules[a].allow_all \/ clientIp = None
        \/ \E b \in seen : clientIp = Address(req, Rules[b])
             /\ Listed(Rules[a].allowed_ips, who, clientIp)

KeyChecked(seen) ==
    req.key # None =>
        \E a \in seen : Rules[a].allow_all \/ Listed(Rules[a].allowed_keys, who, req.key)

KeyOfRegistry(seen) ==
    \E k \in seen : used.key \in DOMAIN Registry[k] /\ used.of = Registry[k][used.key]

\* What holds before each step, and of a signature.
Passed ==
    /\ at = "token" => req.via = "grpc"
    /\ at \in {"resolve", "ip", "key", "payload", "registry", "sign"} \/ reply = "Signed"
         => CallerChecked(seenAuth)
    /\ at \in {"caller", "token", "resolve"} => clientIp = None
    /\ at = "ip" => AddressResolved(seenAuth)
    /\ at \in {"key", "payload", "registry", "sign"} \/ reply = "Signed" => IpChecked(seenAuth)
    /\ at \in {"payload", "registry", "sign"} \/ reply = "Signed" => KeyChecked(seenAuth)
    /\ reply = "Signed" => at = "done" /\ KeyOfRegistry(seenKeys)

\* Types, and what an idle handler holds.
Types ==
    /\ TypeOK
    /\ written = MaxVersion
    /\ at # "idle" => req \in Requests
    /\ at = "idle" => clientIp = None

-----------------------------------------------------------------------------

\* Nothing was seen and nothing signed at the start.
LEMMA InitTypes == Init => Types /\ Passed
BY HandlersAssumption DEF Init, Types, TypeOK, Versions, Steps, Refusals, Nothing, Passed

\* A reload leaves both cells with versions.
LEMMA ReloadCells ==
  ASSUME Types, Reload
  PROVE  /\ keys' \in Versions /\ auth' \in Versions
         /\ written' = written /\ lagging' \in {"yes", "no"}
BY HandlersAssumption DEF Types, TypeOK, Reload, KeepKeys, ReplaceKeys, ReplaceAuth, Published,
   Versions

\* Every step keeps the types.
LEMMA TypesStep == Types /\ [Next]_vars => Types'
<1> SUFFICES ASSUME Types, [Next]_vars PROVE Types'
  OBVIOUS
<1> USE HandlersAssumption DEF Types, TypeOK, Steps, Refusals, Nothing, liveVars, ghostVars,
        reqVars
<1>1. ASSUME NEW r \in Requests, Arrive(r) PROVE Types'
  BY <1>1 DEF Arrive
<1>2. CASE CheckCaller \/ CheckIp \/ CheckKey \/ DecodePayload
  BY <1>2 DEF CheckCaller, CheckIp, CheckKey, DecodePayload, Check, Goto, Refuse
<1>3. CASE ResolveKey
  BY <1>3 DEF ResolveKey, Choose, Goto, Refuse, Keys
<1>4. CASE ReadAllowAll
  BY <1>4 DEF ReadAllowAll, Goto
<1>5. CASE LookUpToken \/ CheckIpGrpc \/ CheckKeyGrpc
  BY <1>5 DEF LookUpToken, CheckIpGrpc, CheckKeyGrpc, Check, Goto, Refuse
<1>6. CASE ResolveAlgorithm
  BY <1>6 DEF ResolveAlgorithm, Choose, Goto, Refuse, Keys
<1>7. CASE ResolveClientIp
  BY <1>7 DEF ResolveClientIp, Goto
<1>8. CASE Sign
  BY <1>8 DEF Sign, Keys
<1>9. CASE Respond
  BY <1>9 DEF Respond
<1>10. CASE Reload
  BY <1>10, ReloadCells DEF Reload
<1>11. CASE UNCHANGED vars
  BY <1>11 DEF vars
<1> QED
  BY <1>1, <1>2, <1>3, <1>4, <1>5, <1>6, <1>7, <1>8, <1>9, <1>10, <1>11
     DEF Next, HandlerStep, HttpStep, GrpcStep

-----------------------------------------------------------------------------

\* A reload only adds to what a request may have seen.
LEMMA PassedReload == Types /\ Passed /\ Reload => Passed'
<1> SUFFICES ASSUME Types, Passed, Reload PROVE Passed'
  OBVIOUS
<1>1. UNCHANGED <<at, req, who, clientIp, chosen, reply, used>>
  BY DEF Reload, reqVars
<1>2. CASE at = "idle"
  BY <1>1, <1>2 DEF Types, Passed
<1>3. CASE at # "idle"
  <2>1. seenAuth \subseteq seenAuth' /\ seenKeys \subseteq seenKeys'
    BY <1>3 DEF Reload
  <2>2. CallerChecked(seenAuth) => CallerChecked(seenAuth)'
    BY <1>1, <2>1 DEF CallerChecked
  <2>3. AddressResolved(seenAuth) => AddressResolved(seenAuth)'
    BY <1>1, <2>1 DEF AddressResolved
  <2>4. IpChecked(seenAuth) => IpChecked(seenAuth)'
    BY <1>1, <2>1 DEF IpChecked
  <2>5. KeyChecked(seenAuth) => KeyChecked(seenAuth)'
    BY <1>1, <2>1 DEF KeyChecked
  <2>6. KeyOfRegistry(seenKeys) => KeyOfRegistry(seenKeys)'
    BY <1>1, <2>1 DEF KeyOfRegistry
  <2> QED
    BY <1>1, <2>2, <2>3, <2>4, <2>5, <2>6 DEF Passed
<1> QED
  BY <1>2, <1>3

\* A check that passes leaves behind what it saw, and every other step keeps
\* what the checks before it left.
LEMMA PassedStep == Types /\ Passed /\ [Next]_vars => Passed'
<1> SUFFICES ASSUME Types, Passed, [Next]_vars PROVE Passed'
  OBVIOUS
<1>0. at # "idle" => auth \in seenAuth /\ keys \in seenKeys /\ auth \in Versions
        /\ req \in Requests
  BY DEF Types, TypeOK
<1> USE DEF Passed, ghostVars, liveVars
<1>1. ASSUME NEW r \in Requests, Arrive(r) PROVE Passed'
  BY <1>1 DEF Arrive, Types
<1>2. CASE CheckCaller
  <2>1. Rule.allow_all \/ (req.token \in DOMAIN Rule.tokens /\ Rule.tokens[req.token] = req.caller)
          => Authentic(req, Rule)
    BY <1>0, <1>2, HandlersAssumption DEF CheckCaller, Authentic, Speaker
  <2>2. CASE at' = "resolve"
    <3>1. CallerChecked(seenAuth)'
      BY <1>0, <1>2, <2>1, <2>2 DEF CheckCaller, Check, Goto, Refuse, CallerChecked, Rule
    <3> QED
      BY <1>2, <2>2, <3>1 DEF CheckCaller, Check, Goto, Refuse
  <2> QED
    BY <1>2, <2>2 DEF CheckCaller, Check, Goto, Refuse
<1>3. CASE CheckIp \/ CheckIpGrpc
  <2>1. CASE at' = "key"
    <3>1. UNCHANGED <<req, who, clientIp, seenAuth, seenKeys, reply>> /\ reply # "Signed"
      BY <1>3, <2>1 DEF CheckIp, CheckIpGrpc, Check, Goto, Refuse
    <3>2. Rule.allow_all \/ Listed(Rule.allowed_ips, who, clientIp)
      BY <1>3, <2>1 DEF CheckIp, CheckIpGrpc, Check, Goto, Refuse, Restricts, Listed
    <3>3. IpChecked(seenAuth)
      BY <1>0, <1>3, <3>2 DEF IpChecked, AddressResolved, Rule, CheckIp, CheckIpGrpc
    <3>4. CallerChecked(seenAuth)
      BY <1>3 DEF CheckIp, CheckIpGrpc
    <3>5. IpChecked(seenAuth)' /\ CallerChecked(seenAuth)'
      BY <3>1, <3>3, <3>4 DEF IpChecked, CallerChecked
    <3> QED
      BY <2>1, <3>1, <3>5
  <2> QED
    BY <1>3, <2>1 DEF CheckIp, CheckIpGrpc, Check, Goto, Refuse
<1>4. CASE CheckKey \/ CheckKeyGrpc
  <2>1. CASE at' \in {"payload", "registry"}
    <3>1. UNCHANGED <<req, who, clientIp, seenAuth, seenKeys, reply>> /\ reply # "Signed"
      BY <1>4, <2>1 DEF CheckKey, CheckKeyGrpc, Check, Goto, Refuse
    <3>2. req.key = None \/ Rule.allow_all \/ Listed(Rule.allowed_keys, who, req.key)
      BY <1>4, <2>1 DEF CheckKey, CheckKeyGrpc, Check, Goto, Refuse, Restricts, Listed
    <3>3. KeyChecked(seenAuth)
      BY <1>0, <1>4, <3>2 DEF KeyChecked, Rule, CheckKey, CheckKeyGrpc
    <3>4. CallerChecked(seenAuth) /\ IpChecked(seenAuth)
      BY <1>4 DEF CheckKey, CheckKeyGrpc
    <3>5. KeyChecked(seenAuth)' /\ IpChecked(seenAuth)' /\ CallerChecked(seenAuth)'
      BY <3>1, <3>3, <3>4 DEF KeyChecked, IpChecked, CallerChecked
    <3> QED
      BY <2>1, <3>1, <3>5
  <2> QED
    BY <1>4, <2>1 DEF CheckKey, CheckKeyGrpc, Check, Goto, Refuse
<1>5. CASE DecodePayload
  BY <1>5 DEF DecodePayload, Check, Goto, Refuse, CallerChecked, IpChecked, KeyChecked
<1>6. CASE ResolveKey \/ ResolveAlgorithm
  BY <1>6 DEF ResolveKey, ResolveAlgorithm, Choose, Goto, Refuse, CallerChecked, IpChecked,
     KeyChecked
<1>7. CASE ReadAllowAll
  <2>1. CASE at' = "registry"
    <3>1. Rule.allow_all /\ auth \in seenAuth
      BY <1>0, <1>7, <2>1 DEF ReadAllowAll, Goto
    <3>2. CallerChecked(seenAuth)' /\ IpChecked(seenAuth)' /\ KeyChecked(seenAuth)'
      BY <1>7, <3>1 DEF ReadAllowAll, CallerChecked, IpChecked, KeyChecked, Authentic, Rule
    <3> QED
      BY <1>7, <2>1, <3>2 DEF ReadAllowAll, Goto
  <2> QED
    BY <1>7, <2>1 DEF ReadAllowAll, Goto
<1>8. CASE LookUpToken
  <2>1. CASE at' \in {"key", "resolve"}
    <3>1. req.token \in DOMAIN Rule.tokens
      BY <1>8, <2>1 DEF LookUpToken, Check, Goto, Refuse
    <3>2. Authentic(req, Rule)
      BY <1>0, <1>8, <3>1, HandlersAssumption DEF LookUpToken, Authentic, Speaker, Rule
    <3>3. CallerChecked(seenAuth)'
      BY <1>0, <1>8, <3>2 DEF LookUpToken, Check, CallerChecked, Rule
    <3>4. IpChecked(seenAuth)'
      BY <1>0, <1>8 DEF LookUpToken, Check, IpChecked
    <3> QED
      BY <1>8, <2>1, <3>3, <3>4 DEF LookUpToken, Check, Goto, Refuse
  <2> QED
    BY <1>8, <2>1 DEF LookUpToken, Check, Goto, Refuse
<1>9. CASE ResolveClientIp
  <2>1. AddressResolved(seenAuth)'
    BY <1>0, <1>9 DEF ResolveClientIp, AddressResolved, Address, Rule
  <2> QED
    BY <1>9, <2>1 DEF ResolveClientIp, Goto, CallerChecked
<1>10. CASE Sign
  <2>1. CASE reply' = "Signed"
    <3>1. KeyOfRegistry(seenKeys)'
      BY <1>0, <1>10, <2>1 DEF Sign, KeyOfRegistry, Keys
    <3> QED
      BY <1>10, <2>1, <3>1 DEF Sign, CallerChecked, IpChecked, KeyChecked
  <2> QED
    BY <1>10, <2>1 DEF Sign
<1>11. CASE Respond
  BY <1>11 DEF Respond
<1>12. CASE Reload
  BY <1>12, PassedReload
<1>13. CASE UNCHANGED vars
  BY <1>13 DEF vars, reqVars, CallerChecked, AddressResolved, IpChecked, KeyChecked,
     KeyOfRegistry
<1> QED
  BY <1>1, <1>2, <1>3, <1>4, <1>5, <1>6, <1>7, <1>8, <1>9, <1>10, <1>11, <1>12, <1>13
     DEF Next, HandlerStep, HttpStep, GrpcStep

-----------------------------------------------------------------------------

\* Types and checks, in every reachable state.
LEMMA PassedInvariant == Spec => [](Types /\ Passed)
BY InitTypes, TypesStep, PassedStep, PTL DEF Spec

\* Type correctness: neither handler chooses or signs with anything but one of
\* the three algorithms.
THEOREM TypeCorrect == Spec => []TypeOK
<1>1. Types => TypeOK
  BY DEF Types
<1> QED
  BY <1>1, PassedInvariant, PTL

\* However reloads fall between the checks, a signature was allowed check by
\* check by rules that were in force while its request was served, with a key
\* of a registry that was.
THEOREM SignedAsAllowed == Spec => []SignaturesWereAllowed
<1>1. Passed => SignaturesWereAllowed
  BY DEF Passed, SignaturesWereAllowed, CallerChecked, IpChecked, KeyChecked, KeyOfRegistry
<1> QED
  BY <1>1, PassedInvariant, PTL

-----------------------------------------------------------------------------
(* What is signed is what was asked for.                                   *)

\* A choice of key and algorithm that answers the request, by the registries
\* that the handler may have looked at.
Answering(choice, seen) ==
    /\ req.key # None => choice.key = req.key
    /\ IF req.alg # None
         THEN choice.alg = req.alg
         ELSE \E k \in seen : /\ choice.key \in DOMAIN Registry[k]
                              /\ choice.alg = Registry[k][choice.key]

Asked ==
    /\ at = "sign" => Answering(chosen, seenKeys)
    /\ reply = "Signed" => Answering(used, seenKeys)

\* The look-up chooses what answers the request; the signature and a reload
\* leave that as it is.
LEMMA AskedStep == Types /\ Passed /\ Asked /\ [Next]_vars => Asked'
<1> SUFFICES ASSUME Types, Passed, Asked, [Next]_vars PROVE Asked'
  OBVIOUS
<1>0. at # "idle" => keys \in seenKeys
  BY DEF Types, TypeOK
<1>1. ASSUME NEW r \in Requests, Arrive(r) PROVE Asked'
  BY <1>1 DEF Arrive, Asked, Passed
<1>2. CASE CheckCaller \/ CheckIp \/ CheckKey \/ DecodePayload \/ ReadAllowAll
             \/ LookUpToken \/ CheckIpGrpc \/ CheckKeyGrpc \/ ResolveClientIp
  <2>1. at' # "sign" /\ reply' # "Signed"
    BY <1>2 DEF CheckCaller, CheckIp, CheckKey, DecodePayload, ReadAllowAll, LookUpToken,
       CheckIpGrpc, CheckKeyGrpc, ResolveClientIp, Check, Goto, Refuse, Passed
  <2> QED
    BY <2>1 DEF Asked
<1>3. CASE ResolveKey \/ ResolveAlgorithm
  <2>1. UNCHANGED <<req, seenKeys>> /\ reply' # "Signed"
    BY <1>3 DEF ResolveKey, ResolveAlgorithm, Choose, Goto, Refuse, ghostVars, Passed
  <2>2. CASE at' = "sign"
    <3>1. Answering(chosen, seenKeys)'
      BY <1>0, <1>3, <2>1, <2>2, HandlersAssumption
         DEF ResolveKey, ResolveAlgorithm, Choose, Goto, Refuse, Keys, Answering
    <3> QED
      BY <2>1, <3>1 DEF Asked
  <2> QED
    BY <2>1, <2>2 DEF Asked
<1>4. CASE Sign
  <2>1. at' = "done" /\ UNCHANGED <<req, seenKeys>>
    BY <1>4 DEF Sign, ghostVars
  <2>2. CASE reply' = "Signed"
    <3>1. used'.key = chosen.key /\ used'.alg = chosen.alg
      BY <1>4, <2>2 DEF Sign
    <3> QED
      BY <1>4, <2>1, <3>1 DEF Sign, Asked, Answering
  <2> QED
    BY <2>1, <2>2 DEF Asked
<1>5. CASE Respond
  BY <1>5 DEF Respond, Asked
<1>6. CASE Reload
  <2>1. UNCHANGED <<at, req, chosen, reply, used>>
    BY <1>6 DEF Reload, reqVars
  <2>2. at # "idle" => seenKeys \subseteq seenKeys'
    BY <1>6 DEF Reload
  <2> QED
    BY <2>1, <2>2 DEF Asked, Answering, Passed
<1>7. CASE UNCHANGED vars
  BY <1>7 DEF vars, reqVars, ghostVars, Asked, Answering
<1> QED
  BY <1>1, <1>2, <1>3, <1>4, <1>5, <1>6, <1>7 DEF Next, HandlerStep, HttpStep, GrpcStep

\* For any registries, and whatever is reloaded between look-up and signature:
\* the key that signs is the one that was asked for and checked, in the
\* algorithm that was asked for or that the key had meanwhile.
THEOREM SignsWhatWasAsked == Spec => []SignedAsAsked
<1>1. Init => Asked
  BY DEF Init, Asked
<1>2. Asked => SignedAsAsked
  BY DEF Asked, Answering, SignedAsAsked
<1> QED
  BY <1>1, <1>2, InitTypes, TypesStep, PassedStep, AskedStep, PTL DEF Spec

-----------------------------------------------------------------------------
(* A request during which nothing is reloaded.                             *)

\* What the checks made so far have in common with the reference, under the
\* one set of rules R and the one registry G that they saw.
Follows(R, G) ==
    /\ at = "token" \/ (req.via = "grpc" /\ at \in {"resolve", "ip", "key"}) => ~R.allow_all
    /\ at \in {"resolve", "ip", "key", "payload", "registry", "sign"} => Authentic(req, R)
    /\ at \in {"resolve", "ip", "key"} => R.allow_all \/ who = Speaker(req, R)
    /\ at \in {"resolve", "ip"} /\ req.via = "grpc" => req.peer # None
    /\ at = "ip" => clientIp = Address(req, R)
    /\ at \in {"key", "payload", "registry", "sign"} => FromAllowedIp(req, R)
    /\ at \in {"payload", "registry", "sign"} => req.key = None \/ KeyAllowed(req, R, req.key)
    /\ at \in {"registry", "sign"} => req.decodes
    /\ at = "sign" =>
         /\ req.alg \in Algorithms \cup {None}
         /\ IF req.via = "http" /\ req.key = None THEN chosen.key \in DOMAIN G
                                                 ELSE chosen.key = req.key
         /\ req.alg = None => chosen.key \in DOMAIN G
    /\ at = "done" /\ ~PastTheKeyList(req, R, G) => reply \in Answers(req, R, G)

Quiet ==
    at # "idle" =>
        \A a \in seenAuth, k \in seenKeys :
            seenAuth = {a} /\ seenKeys = {k} => Follows(Rules[a], Registry[k])

\* A handler step under the rules and the registry of the moment keeps what
\* was seen so far in line with the reference.
LEMMA FollowsStep ==
  ASSUME Types, Passed, HandlerStep, at # "idle", UNCHANGED <<auth, keys>>,
         Follows(Rule, Keys)
  PROVE  Follows(Rule, Keys)' /\ at' # "idle"
<1>0. req \in Requests
  BY DEF Types
<1>a. /\ ~PastTheKeyList(req, Rule, Keys) /\ (req.key = None \/ KeyAllowed(req, Rule, req.key))
        => ~KeyRefused(req, Rule, Keys)
  BY <1>0, HandlersAssumption DEF PastTheKeyList, KeyRefused, Candidates, KeyAllowed, Listed
<1>b. req.key # None /\ ~KeyAllowed(req, Rule, req.key) => KeyRefused(req, Rule, Keys)
  BY DEF KeyRefused, Candidates
<1>c. /\ req.key # None => Candidates(req, Keys) = {req.key}
      /\ req.key = None /\ req.via = "http" => Candidates(req, Keys) = DOMAIN Keys
      /\ req.key = None /\ req.via = "grpc" => Candidates(req, Keys) = {None} \cap DOMAIN Keys
  BY DEF Candidates
<1> USE <1>0, HandlersAssumption DEF Follows, Check, Goto, Refuse
<1>1. CASE CheckCaller
  <2>1. Rule.allow_all \/ (req.token \in DOMAIN Rule.tokens /\ Rule.tokens[req.token] = req.caller)
          <=> Authentic(req, Rule)
    BY <1>1 DEF CheckCaller, Authentic, Speaker
  <2>2. Authentic(req, Rule) => Rule.allow_all \/ req.caller = Speaker(req, Rule)
    BY <1>1 DEF CheckCaller, Authentic, Speaker
  <2> QED
    BY <1>1, <2>1, <2>2 DEF CheckCaller, Answers, Rule
<1>2. CASE CheckIp \/ CheckIpGrpc
  <2>1. CASE at' = "key"
    BY <1>2, <2>1 DEF CheckIp, CheckIpGrpc, FromAllowedIp, Listed, Restricts, Rule
  <2>2. CASE at' = "done"
    BY <1>2, <2>2 DEF CheckIp, CheckIpGrpc, FromAllowedIp, Listed, Restricts, Rule, Answers
  <2> QED
    BY <1>2, <2>1, <2>2 DEF CheckIp, CheckIpGrpc
<1>3. CASE CheckKey \/ CheckKeyGrpc
  <2>1. CASE at' \in {"payload", "registry"}
    BY <1>3, <2>1 DEF CheckKey, CheckKeyGrpc, KeyAllowed, Listed, Restricts, Rule
  <2>2. CASE at' = "done"
    <3>1. req.key # None /\ ~KeyAllowed(req, Rule, req.key) /\ reply' = "KeyNotAllowed"
      BY <1>3, <2>2 DEF CheckKey, CheckKeyGrpc, KeyAllowed, Listed, Restricts, Rule
    <3> QED
      BY <1>3, <2>2, <3>1, <1>b DEF CheckKey, CheckKeyGrpc, Answers, Rule, Keys
  <2> QED
    BY <1>3, <2>1, <2>2 DEF CheckKey, CheckKeyGrpc
<1>4. CASE DecodePayload
  <2>1. CASE at' = "registry"
    BY <1>4, <2>1 DEF DecodePayload, Rule
  <2>2. CASE at' = "done"
    BY <1>4, <2>2, <1>a DEF DecodePayload, Answers, Rule, Keys
  <2> QED
    BY <1>4, <2>1, <2>2 DEF DecodePayload
<1>5. CASE ResolveKey
  <2>1. CASE at' = "sign"
    BY <1>5, <2>1 DEF ResolveKey, Choose, Rule, Keys
  <2>2. CASE at' = "done"
    BY <1>5, <2>2, <1>a, <1>c DEF ResolveKey, Choose, Rule, Keys, Answers
  <2> QED
    BY <1>5, <2>1, <2>2 DEF ResolveKey, Choose
<1>6. CASE ResolveAlgorithm
  <2>1. CASE at' = "sign"
    BY <1>6, <2>1 DEF ResolveAlgorithm, Choose, Rule, Keys
  <2>2. CASE at' = "done"
    BY <1>6, <2>2, <1>a, <1>c DEF ResolveAlgorithm, Choose, Rule, Keys, Answers
  <2> QED
    BY <1>6, <2>1, <2>2 DEF ResolveAlgorithm, Choose
<1>7. CASE ReadAllowAll
  BY <1>7 DEF ReadAllowAll, Rule, Authentic, FromAllowedIp, KeyAllowed
<1>8. CASE LookUpToken
  <2>1. Authentic(req, Rule) <=> req.token \in DOMAIN Rule.tokens
    BY <1>8 DEF LookUpToken, Authentic, Speaker, Rule, Types, TypeOK, Passed
  <2>2. CASE at' \in {"key", "resolve"}
    BY <1>8, <2>1, <2>2 DEF LookUpToken, Rule, Passed, Speaker, FromAllowedIp
  <2>3. CASE at' = "done"
    BY <1>8, <2>1, <2>3 DEF LookUpToken, Rule, Answers
  <2> QED
    BY <1>8, <2>2, <2>3 DEF LookUpToken
<1>9. CASE ResolveClientIp
  BY <1>9 DEF ResolveClientIp, Rule, Address
<1>10. CASE Sign
  <2>1. at' = "done" /\ UNCHANGED req
    BY <1>10 DEF Sign
  <2>2. reply' \in IF chosen.key \in DOMAIN Keys THEN {"Signed", "SigningFailed"} ELSE {"KeyNotFound"}
    BY <1>10 DEF Sign
  <2>3. req.via \in {"http", "grpc"}
    OBVIOUS
  <2>4. chosen.key \in DOMAIN Keys <=> Candidates(req, Keys) \cap DOMAIN Keys # {}
    BY <1>10, <1>c, <2>3 DEF Sign, Keys
  <2>5. req.via = "http" /\ Candidates(req, Keys) = {} => FALSE
    BY <1>10, <1>c DEF Sign, Keys
  <2>6. ~PastTheKeyList(req, Rule, Keys) => reply' \in Answers(req, Rule, Keys)
    BY <1>10, <1>a, <2>2, <2>4, <2>5 DEF Sign, Answers, Rule, Keys
  <2> QED
    BY <2>1, <2>6 DEF Rule, Keys
<1> QED
  BY <1>1, <1>2, <1>3, <1>4, <1>5, <1>6, <1>7, <1>8, <1>9, <1>10
     DEF HandlerStep, HttpStep, GrpcStep

\* Every step keeps an undisturbed request in line with the reference; one
\* that a reload disturbs is not looked at any more.
LEMMA QuietStep == Types /\ Passed /\ Quiet /\ [Next]_vars => Quiet'
<1> SUFFICES ASSUME Types, Passed, Quiet, [Next]_vars PROVE Quiet'
  OBVIOUS
<1>0. at # "idle" => auth \in seenAuth /\ keys \in seenKeys
  BY DEF Types, TypeOK
<1>1. ASSUME NEW r \in Requests, Arrive(r) PROVE Quiet'
  BY <1>1 DEF Arrive, Quiet, Follows
<1>2. CASE HandlerStep
  <2>1. at # "idle" /\ UNCHANGED <<auth, keys, seenAuth, seenKeys>>
    BY <1>2 DEF HandlerStep, HttpStep, GrpcStep, CheckCaller, CheckIp, CheckKey, DecodePayload,
       ResolveKey, ReadAllowAll, LookUpToken, CheckIpGrpc, CheckKeyGrpc, ResolveAlgorithm,
       ResolveClientIp, Sign, Check, ghostVars, liveVars
  <2> SUFFICES ASSUME seenAuth = {auth}, seenKeys = {keys}
               PROVE  Follows(Rule, Keys)'
    BY <1>0, <2>1 DEF Quiet, Rule, Keys
  <2> QED
    BY <1>0, <1>2, <2>1, FollowsStep DEF Quiet, Rule, Keys
<1>3. CASE Respond
  BY <1>3 DEF Respond, Quiet
<1>4. CASE Reload
  <2>1. UNCHANGED <<at, req, who, clientIp, chosen, reply>>
    BY <1>4 DEF Reload, reqVars
  <2>2. CASE at # "idle"
    <3> SUFFICES ASSUME NEW a \in seenAuth', NEW k \in seenKeys',
                        seenAuth' = {a}, seenKeys' = {k}
                 PROVE  Follows(Rules[a], Registry[k])'
      BY DEF Quiet
    <3>1. seenAuth = {a} /\ seenKeys = {k}
      BY <1>0, <1>4, <2>2 DEF Reload
    <3>2. Follows(Rules[a], Registry[k])
      BY <2>2, <3>1 DEF Quiet
    <3> QED
      BY <2>1, <3>2 DEF Follows
  <2> QED
    BY <2>1, <2>2 DEF Quiet
<1>5. CASE UNCHANGED vars
  BY <1>5 DEF vars, reqVars, ghostVars, Quiet, Follows
<1> QED
  BY <1>1, <1>2, <1>3, <1>4, <1>5 DEF Next

\* A request during which nothing is reloaded is answered as the reference
\* says, for any rules and registry, unless it goes past the key list.
THEOREM AnsweredByTheRules == Spec => []QuietRequestsFollowRules
<1>1. Init => Quiet
  BY DEF Init, Quiet
<1>2. Quiet => QuietRequestsFollowRules
  BY DEF Quiet, QuietRequestsFollowRules, Follows
<1> QED
  BY <1>1, <1>2, InitTypes, TypesStep, PassedStep, QuietStep, PTL DEF Spec

=============================================================================
