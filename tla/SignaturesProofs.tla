-------------------------- MODULE SignaturesProofs --------------------------
(***************************************************************************)
(* Proofs about Signatures, for any messages, kinds of keys and            *)
(* algorithms out of the table.                                            *)
(*                                                                         *)
(* Made says that both answers are what the backend computes for the       *)
(* request; the properties follow from what the backends compute.          *)
(***************************************************************************)
EXTENDS Signatures, TLAPS

\* The answers are those of the backend, to requests for known algorithms.
Made ==
    /\ backend \in {"software", "cluster"} /\ kind \in KeyKinds
    /\ signAlg \in AlgNames \cup {"none"} /\ flag \in BOOLEAN
    /\ signAlg = "none" => ~sign.ok
    /\ signAlg # "none" => sign = SignAnswer(backend, kind, signAlg, payload, flag)
    /\ verify # NoVerify =>
         /\ signAlg \in AlgNames /\ sign.ok
         /\ verify.alg \in AlgNames /\ verify.flag \in BOOLEAN
         /\ verify.answer = VerifyAnswer(backend, kind, verify.alg, payload, sign, verify.flag)

-----------------------------------------------------------------------------

\* An algorithm has one of four schemes, and none is called "none".
LEMMA Schemes ==
  ASSUME NEW alg \in AlgNames
  PROVE  Scheme(alg) \in {"pkcs1", "pss", "ecdsa", "hmac"} /\ alg # "none"
BY SignaturesAssumption DEF Scheme, Algorithm

\* An answer is kept until the next request of its kind.
LEMMA MadeStep == Made /\ [Next]_vars => Made'
<1> SUFFICES ASSUME Made, [Next]_vars PROVE Made'
  OBVIOUS
<1>1. ASSUME NEW alg \in AlgNames, NEW prehashed \in BOOLEAN, SignRequest(alg, prehashed)
      PROVE  Made'
  <2>1. alg # "none"
    BY Schemes
  <2>2. verify' = NoVerify
    BY <1>1, <2>1 DEF SignRequest, Made
  <2> QED
    BY <1>1, <2>1, <2>2 DEF SignRequest, Made, SignAnswer
<1>2. ASSUME NEW alg \in AlgNames, NEW prehashed \in BOOLEAN, VerifyRequest(alg, prehashed)
      PROVE  Made'
  BY <1>2 DEF VerifyRequest, Made, VerifyAnswer
<1>3. CASE UNCHANGED vars
  BY <1>3 DEF vars, Made
<1> QED
  BY <1>1, <1>2, <1>3 DEF Next

\* The answers are the backend's, in every reachable state.
LEMMA MadeInvariant == Spec => []Made
<1>1. Init => Made
  <2>1. ~Failed("none").ok
    BY DEF Failed
  <2> QED
    BY <2>1 DEF Init, Made
<1> QED
  BY <1>1, MadeStep, PTL DEF Spec

-----------------------------------------------------------------------------

\* What a sign answer holds when it is a signature.
LEMMA SignedShape ==
  ASSUME Made, sign.ok
  PROVE  /\ signAlg \in AlgNames
         /\ sign.scheme = Scheme(signAlg)
         /\ backend = "software" =>
              /\ kind \in Meant(signAlg) \/ Scheme(signAlg) = "hmac"
              /\ sign.over = ComputeDigest(signAlg, payload)
         /\ backend = "cluster" =>
              /\ HasKeyPair(kind) /\ MechanismFits(kind, signAlg)
              /\ sign.over = Mechanism(signAlg, TokenData(signAlg, payload, flag))
<1>1. signAlg \in AlgNames
  BY DEF Made
<1>2. sign = SignAnswer(backend, kind, signAlg, payload, flag)
  BY <1>1, Schemes DEF Made
<1> QED
  BY <1>1, <1>2 DEF Made, SignAnswer, SoftwareSign, ClusterSign, Signature, Failed

\* No key with a key pair is meant for HMAC, and the mechanisms of HMAC find
\* none.
LEMMA HmacKeys ==
  ASSUME NEW k, NEW alg \in AlgNames, Scheme(alg) = "hmac"
  PROVE  Meant(alg) = {"secret", "passphrase"} /\ ~(HasKeyPair(k) /\ MechanismFits(k, alg))
BY DEF Meant, HasKeyPair, MechanismFits

\* A signature is accepted again for the same request exactly when the token or
\* ECDSA made it; it is accepted for no request that would not be given it, and
\* HMACs are not verified at all.
THEOREM AcceptsWhatItSigned == Spec => []RoundTrip
<1>1. ASSUME Made PROVE RoundTrip
  <2> SUFFICES ASSUME verify # NoVerify
               PROVE  /\ SameRequest => (Accepted <=> backend = "cluster" \/ Scheme(signAlg) = "ecdsa")
                      /\ Accepted => SignAnswer(backend, kind, verify.alg, payload, verify.flag) = sign
                      /\ Scheme(verify.alg) = "hmac" => ~verify.answer.ok
    BY DEF RoundTrip, Answered
  <2>1. /\ signAlg \in AlgNames /\ sign.ok /\ verify.alg \in AlgNames
        /\ sign = SignAnswer(backend, kind, signAlg, payload, flag)
        /\ verify.answer = VerifyAnswer(backend, kind, verify.alg, payload, sign, verify.flag)
    BY <1>1, Schemes DEF Made
  <2>2. CASE backend = "software"
    <3>1. /\ sign = Signature(signAlg, ComputeDigest(signAlg, payload))
          /\ kind \in Meant(signAlg) \/ Scheme(signAlg) = "hmac"
      BY <2>1, <2>2 DEF SignAnswer, SoftwareSign, Failed
    <3>2. verify.answer = SoftwareVerify(kind, verify.alg, payload, sign, verify.flag)
      BY <2>1, <2>2 DEF VerifyAnswer
    <3>3. Scheme(verify.alg) = "hmac" => ~verify.answer.ok
      BY <3>2 DEF SoftwareVerify, Failed
    <3>4. SameRequest /\ Scheme(signAlg) = "ecdsa" => Accepted
      <4> SUFFICES ASSUME SameRequest, Scheme(signAlg) = "ecdsa" PROVE Accepted
        OBVIOUS
      <4>1. kind \in Meant(signAlg) /\ kind # "secret"
        BY <3>1 DEF Meant, Curve
      <4>2. /\ sign.scheme = "ecdsa" /\ sign.over = ComputeDigest(signAlg, payload)
            /\ Size(sign) = Algorithm[signAlg].hash \div 4
        BY <3>1 DEF Signature, Size, ComputeDigest
      <4>3. verify.answer = [ok |-> TRUE, valid |-> TRUE]
        BY <3>2, <4>1, <4>2 DEF SoftwareVerify, DerivesPublicKey, SameRequest
      <4> QED
        BY <4>3 DEF Accepted
    <3>5. Accepted => /\ Scheme(verify.alg) = "ecdsa"
                      /\ SignAnswer(backend, kind, verify.alg, payload, verify.flag) = sign
      <4> SUFFICES ASSUME Accepted
                   PROVE  /\ Scheme(verify.alg) = "ecdsa"
                          /\ SoftwareSign(kind, verify.alg, payload, verify.flag) = sign
        BY <2>2 DEF SignAnswer
      <4> DEFINE matches == sign.scheme = "ecdsa" /\ sign.over = ComputeDigest(verify.alg, payload)
      <4>1. /\ kind \in Meant(verify.alg) /\ Scheme(verify.alg) = "ecdsa"
            /\ verify.answer = [ok |-> TRUE, valid |-> matches]
        <5>1. verify.answer.ok /\ verify.answer.valid
          BY DEF Accepted
        <5>2. DerivesPublicKey(kind, verify.alg) /\ Scheme(verify.alg) = "ecdsa"
          BY <2>1, <3>2, <5>1, Schemes DEF SoftwareVerify, Failed
        <5> QED
          BY <3>2, <5>1, <5>2 DEF SoftwareVerify, Failed, DerivesPublicKey
      <4>2. matches
        <5> HIDE DEF matches
        <5>1. verify.answer.valid = matches
          BY <4>1
        <5> QED
          BY <5>1, Zenon DEF Accepted
      <4> QED
        BY <3>1, <4>1, <4>2 DEF SoftwareSign, Signature
    <3>6. SameRequest => (Accepted <=> backend = "cluster" \/ Scheme(signAlg) = "ecdsa")
      BY <2>2, <3>4, <3>5 DEF SameRequest
    <3> QED
      BY <3>3, <3>5, <3>6
  <2>3. CASE backend = "cluster"
    <3>1. /\ sign = Signature(signAlg, Mechanism(signAlg, TokenData(signAlg, payload, flag)))
          /\ HasKeyPair(kind) /\ MechanismFits(kind, signAlg)
      BY <2>1, <2>3 DEF SignAnswer, ClusterSign, Failed
    <3>2. verify.answer = ClusterVerify(kind, verify.alg, payload, sign, verify.flag)
      BY <2>1, <2>3 DEF VerifyAnswer
    <3>3. Scheme(verify.alg) = "hmac" => ~verify.answer.ok
      BY <2>1, <3>2, HmacKeys DEF ClusterVerify, Failed
    <3>4. SameRequest => Accepted
      BY <3>1, <3>2 DEF SameRequest, Accepted, ClusterVerify, Signature
    <3>5. Accepted => SignAnswer(backend, kind, verify.alg, payload, verify.flag) = sign
      <4> SUFFICES ASSUME Accepted
                   PROVE  ClusterSign(kind, verify.alg, payload, verify.flag) = sign
        BY <2>3 DEF SignAnswer
      <4> DEFINE matches == /\ sign.scheme = Scheme(verify.alg)
                            /\ sign.over = Mechanism(verify.alg, TokenData(verify.alg, payload, verify.flag))
      <4>1. MechanismFits(kind, verify.alg) /\ verify.answer = [ok |-> TRUE, valid |-> matches]
        BY <3>1, <3>2 DEF ClusterVerify, Failed, Accepted
      <4>2. matches
        <5> HIDE DEF matches
        <5>1. verify.answer.valid = matches
          BY <4>1
        <5> QED
          BY <5>1, Zenon DEF Accepted
      <4> QED
        BY <3>1, <4>1, <4>2 DEF ClusterSign, Signature
    <3> QED
      BY <2>3, <3>3, <3>4, <3>5
  <2> QED
    BY <1>1, <2>2, <2>3 DEF Made
<1> QED
  BY <1>1, MadeInvariant, PTL

\* A signature over a message that was sent as it is, by a key of the kind the
\* algorithm is meant for, is the one the standard describes, on both backends.
THEOREM SignsByTheStandard == Spec => []SignaturesVerifyLocally
<1>1. ASSUME Made PROVE SignaturesVerifyLocally
  <2> SUFFICES ASSUME NEW m \in Messages,
                      payload = Plain(m), sign.ok, ~flag, kind \in Meant(signAlg)
               PROVE  StandardAccepts(signAlg, kind, m, sign)
    BY DEF SignaturesVerifyLocally
  <2>1. backend = "cluster" => sign.over = ComputeDigest(signAlg, payload)
    BY <1>1, SignedShape DEF Mechanism, TokenData
  <2> QED
    BY <1>1, <2>1, SignedShape DEF StandardAccepts, Made
<1> QED
  BY <1>1, MadeInvariant, PTL

\* A digest is never a message, so the digest of a digest is not that of the
\* message it was made of.
LEMMA HashedTwice ==
  ASSUME NEW alg \in AlgNames, NEW m
  PROVE  ComputeDigest(alg, Digest(Algorithm[alg].hash, m)) # ComputeDigest(alg, Plain(m))
<1>1. Algorithm[alg].hash # 0
  BY SignaturesAssumption DEF Algorithm
<1>2. Digest(Algorithm[alg].hash, m).hash # Plain(m).hash
  BY <1>1 DEF Digest, Plain
<1>3. /\ ComputeDigest(alg, Digest(Algorithm[alg].hash, m)).of = Digest(Algorithm[alg].hash, m)
      /\ ComputeDigest(alg, Plain(m)).of = Plain(m)
  BY DEF ComputeDigest
<1> QED
  BY <1>2, <1>3

\* A digest that is announced as one gets the signature of the standard from
\* the token with ECDSA, and from nothing else.
THEOREM DigestsByTheStandard == Spec => []DigestsSignedByTokenEcdsa
<1>1. ASSUME Made PROVE DigestsSignedByTokenEcdsa
  <2> SUFFICES ASSUME NEW m \in Messages, sign.ok, flag, kind \in Meant(signAlg),
                      payload = Digest(Algorithm[signAlg].hash, m)
               PROVE  StandardAccepts(signAlg, kind, m, sign)
                        <=> backend = "cluster" /\ Scheme(signAlg) = "ecdsa"
    BY DEF DigestsSignedByTokenEcdsa
  <2>1. signAlg \in AlgNames /\ sign.scheme = Scheme(signAlg)
    BY <1>1, SignedShape
  <2>2. StandardAccepts(signAlg, kind, m, sign) <=> sign.over = ComputeDigest(signAlg, Plain(m))
    BY <2>1 DEF StandardAccepts
  <2>3. CASE backend = "cluster" /\ Scheme(signAlg) = "ecdsa"
    <3>1. sign.over = payload
      BY <1>1, <2>3, SignedShape DEF Mechanism, TokenData
    <3>2. payload = ComputeDigest(signAlg, Plain(m))
      BY DEF Digest, ComputeDigest
    <3> QED
      BY <2>2, <2>3, <3>1, <3>2
  <2>4. CASE ~(backend = "cluster" /\ Scheme(signAlg) = "ecdsa")
    <3>1. sign.over = ComputeDigest(signAlg, payload)
      BY <1>1, <2>4, SignedShape DEF Mechanism, TokenData, Made
    <3> QED
      BY <2>1, <2>2, <2>4, <3>1, HashedTwice
  <2> QED
    BY <2>3, <2>4
<1> QED
  BY <1>1, MadeInvariant, PTL

=============================================================================
