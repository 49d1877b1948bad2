----------------------------- MODULE Signatures -----------------------------
(***************************************************************************)
(* What the two backends sign and what they accept (hsm/software.rs,       *)
(* hsm/cluster.rs), as terms: a payload is a message or the digest of one, *)
(* a digest is the pair of a hash and what was hashed, and a signature     *)
(* names its scheme, its key and the digest it was made over.  The crypto  *)
(* libraries and the token are external: what they do with a digest is     *)
(* what the schemes say.                                                   *)
(*                                                                         *)
(* A client has a payload signed and then has that signature verified, by  *)
(* the gateway, with an algorithm and a prehashed flag of its choice.      *)
(***************************************************************************)
EXTENDS Naturals

CONSTANTS
    Messages,   \* what clients want signed
    KeyKinds,   \* the kinds of keys behind the key id
    AlgNames    \* the algorithms clients ask for

\* Algorithm: scheme and hash.
Algorithm ==
    [RS256 |-> [scheme |-> "pkcs1", hash |-> 256], RS384 |-> [scheme |-> "pkcs1", hash |-> 384],
     RS512 |-> [scheme |-> "pkcs1", hash |-> 512], PS256 |-> [scheme |-> "pss", hash |-> 256],
     PS384 |-> [scheme |-> "pss", hash |-> 384],   PS512 |-> [scheme |-> "pss", hash |-> 512],
     ES256 |-> [scheme |-> "ecdsa", hash |-> 256], ES384 |-> [scheme |-> "ecdsa", hash |-> 384],
     HS256 |-> [scheme |-> "hmac", hash |-> 256],  HS384 |-> [scheme |-> "hmac", hash |-> 384],
     HS512 |-> [scheme |-> "hmac", hash |-> 512]]

\* "secret" is the random secret generate_key writes for HS*, "passphrase" one
\* that is text.
ASSUME SignaturesAssumption ==
    /\ KeyKinds \subseteq {"RSA", "P256", "P384", "secret", "passphrase"}
    /\ AlgNames \subseteq DOMAIN Algorithm

VARIABLES
    backend,  \* "software" or "cluster"
    kind,     \* the kind of the key
    payload,  \* what was sent to be signed
    signAlg,  \* the algorithm asked for
    flag,     \* the prehashed flag of the sign request
    sign,     \* what the backend answered: a signature or an error
    verify    \* the same for the verify request: algorithm, flag, answer

vars == <<backend, kind, payload, signAlg, flag, sign, verify>>

-----------------------------------------------------------------------------

Scheme(alg) == Algorithm[alg].scheme

\* compute_digest.
ComputeDigest(alg, data) == [hash |-> Algorithm[alg].hash, of |-> data]

Plain(m) == [hash |-> 0, of |-> m]
Digest(h, m) == [hash |-> h, of |-> Plain(m)]
Payloads == {Plain(m) : m \in Messages} \cup {Digest(h, m) : h \in {256, 384}, m \in Messages}

Signature(alg, over) == [ok |-> TRUE, scheme |-> Scheme(alg), over |-> over]
Failed(error) == [ok |-> FALSE, error |-> error]

Curve(alg) == IF alg = "ES256" THEN "P256" ELSE "P384"

\* The kinds of keys an algorithm is meant for.
Meant(alg) ==
    CASE Scheme(alg) \in {"pkcs1", "pss"} -> {"RSA"}
      [] Scheme(alg) = "ecdsa" -> {Curve(alg)}
      [] Scheme(alg) = "hmac" -> {"secret", "passphrase"}

-----------------------------------------------------------------------------
(* The software backend.                                                   *)

\* Mutation of SoftwareSign: the digest is signed with another hash.
SoftwareSignWith256(k, alg, data, prehashed) ==
    IF k \in Meant(alg) \/ Scheme(alg) = "hmac"
      THEN Signature(alg, ComputeDigest("RS256", data))
      ELSE Failed("SigningFailed")

\* sign_rsa, sign_ecdsa and sign_hmac hash the payload themselves; none uses
\* the digest that sign computed, or the flag.  Any file serves as HMAC secret.
SoftwareSign(k, alg, data, prehashed) ==
    IF k \in Meant(alg) \/ Scheme(alg) = "hmac"
      THEN Signature(alg, ComputeDigest(alg, data))
      ELSE Failed("SigningFailed")

\* derive_public_key_pem: the file must be text, and for RSA and EC hold a key
\* of the algorithm's kind.  The PEM of an HMAC key wraps the secret.
DerivesPublicKey(k, alg) ==
    /\ k # "secret"
    /\ Scheme(alg) = "hmac" \/ k \in Meant(alg)

\* The length of a signature in bytes: r and s, a tag, or the RSA modulus of
\* generate_key.
Size(sig) ==
    CASE sig.scheme = "ecdsa" -> sig.over.hash \div 4
      [] sig.scheme = "hmac"  -> sig.over.hash \div 8
      [] OTHER -> 256

\* verify: derive_public_key_pem, then verify_with_public_key, which refuses
\* HMAC, and ECDSA signatures that are not of the curve's length.  For RSA it
\* hands ring the DER of a SubjectPublicKeyInfo; ring reads an RSAPublicKey of
\* PKCS #1 there and takes no signature to be valid.
SoftwareVerify(k, alg, data, sig, prehashed) ==
    IF ~DerivesPublicKey(k, alg) THEN Failed("BackendError")
    ELSE IF Scheme(alg) = "hmac" THEN Failed("VerificationFailed")
    ELSE IF Scheme(alg) \in {"pkcs1", "pss"} THEN [ok |-> TRUE, valid |-> FALSE]
    ELSE IF Size(sig) # Algorithm[alg].hash \div 4 THEN Failed("VerificationFailed")
    ELSE [ok |-> TRUE, valid |-> sig.scheme = "ecdsa" /\ sig.over = ComputeDigest(alg, data)]

-----------------------------------------------------------------------------
(* The cluster backend.                                                    *)

\* Mutation of TokenData: the flag is forgotten.
TokenDataAlwaysHashed(alg, data, prehashed) ==
    IF Scheme(alg) = "ecdsa" THEN ComputeDigest(alg, data) ELSE data

\* The data handed to the token: CKM_ECDSA takes a digest, every other
\* mechanism hashes on its own, and the flag only counts for ECDSA.
TokenData(alg, data, prehashed) ==
    IF Scheme(alg) = "ecdsa" /\ ~prehashed THEN ComputeDigest(alg, data) ELSE data

\* What the mechanism signs of that data.
Mechanism(alg, data) == IF Scheme(alg) = "ecdsa" THEN data ELSE ComputeDigest(alg, data)

\* The kinds of keys a mechanism works with.  CKM_ECDSA takes any curve.
MechanismFits(k, alg) ==
    IF Scheme(alg) = "ecdsa" THEN k \in {"P256", "P384"} ELSE k \in Meant(alg)

\* find_private_key and find_public_key look for private and public keys: a
\* secret key of that label is not found.
HasKeyPair(k) == k \in {"RSA", "P256", "P384"}

ClusterSign(k, alg, data, prehashed) ==
    IF ~HasKeyPair(k) THEN Failed("KeyNotFound")
    ELSE IF ~MechanismFits(k, alg) THEN Failed("SigningFailed")
    ELSE Signature(alg, Mechanism(alg, TokenData(alg, data, prehashed)))

\* Mutation of ClusterVerify: the digest is always computed.
ClusterVerifyHashes(k, alg, data, sig, prehashed) ==
    IF ~HasKeyPair(k) THEN Failed("KeyNotFound")
    ELSE IF ~MechanismFits(k, alg) THEN Failed("VerificationFailed")
    ELSE [ok |-> TRUE, valid |-> /\ sig.scheme = Scheme(alg)
                                 /\ sig.over = Mechanism(alg, TokenData(alg, data, FALSE))]

\* A signature that does not match is an answer, any other error an error.
ClusterVerify(k, alg, data, sig, prehashed) ==
    IF ~HasKeyPair(k) THEN Failed("KeyNotFound")
    ELSE IF ~MechanismFits(k, alg) THEN Failed("VerificationFailed")
    ELSE [ok |-> TRUE, valid |-> /\ sig.scheme = Scheme(alg)
                                 /\ sig.over = Mechanism(alg, TokenData(alg, data, prehashed))]

-----------------------------------------------------------------------------
(* A signature and its verification.                                       *)

\* HsmBackend::sign and HsmBackend::verify.
SignAnswer(b, k, alg, data, prehashed) ==
    IF b = "software" THEN SoftwareSign(k, alg, data, prehashed)
                      ELSE ClusterSign(k, alg, data, prehashed)

VerifyAnswer(b, k, alg, data, sig, prehashed) ==
    IF b = "software" THEN SoftwareVerify(k, alg, data, sig, prehashed)
                      ELSE ClusterVerify(k, alg, data, sig, prehashed)

NoVerify == [alg |-> "none", flag |-> FALSE, answer |-> Failed("none")]

Init ==
    /\ backend \in {"software", "cluster"}
    /\ kind \in KeyKinds
    /\ payload \in Payloads
    /\ signAlg = "none"
    /\ flag = FALSE
    /\ sign = Failed("none")
    /\ verify = NoVerify

\* A sign request reaches the backend.
SignRequest(alg, prehashed) ==
    /\ signAlg = "none"
    /\ signAlg' = alg
    /\ flag' = prehashed
    /\ sign' = SignAnswer(backend, kind, alg, payload, prehashed)
    /\ UNCHANGED <<backend, kind, payload, verify>>

\* handle_verify and SigningService/Verify, with the signature just made.
VerifyRequest(alg, prehashed) ==
    /\ sign.ok
    /\ verify = NoVerify
    /\ verify' = [alg |-> alg, flag |-> prehashed,
                  answer |-> VerifyAnswer(backend, kind, alg, payload, sign, prehashed)]
    /\ UNCHANGED <<backend, kind, payload, signAlg, flag, sign>>

Next ==
    \E alg \in AlgNames, prehashed \in BOOLEAN :
        SignRequest(alg, prehashed) \/ VerifyRequest(alg, prehashed)

Spec == Init /\ [][Next]_vars

-----------------------------------------------------------------------------
(* What signing promises.                                                  *)

\* The standards: what a verifier that has the public key and the message
\* accepts as an alg signature of it.
StandardAccepts(alg, k, m, sig) ==
    /\ k \in Meant(alg)
    /\ sig.scheme = Scheme(alg)
    /\ sig.over = ComputeDigest(alg, Plain(m))

Answered == verify # NoVerify

SameRequest == verify.alg = signAlg /\ verify.flag = flag
Accepted == verify.answer.ok /\ verify.answer.valid

\* The same request is accepted again by the token, and by the software backend
\* for ECDSA, for every payload and flag; never by the software backend for RSA,
\* though signing.proto:13 offers to verify with the public key.  A signature is
\* accepted only for a request that would be given that very signature, so for
\* no other scheme.  An HMAC, which verify_with_public_key refuses
\* (software.rs:329), is answered with an error and never called invalid.
RoundTrip ==
    Answered =>
        /\ SameRequest => (Accepted <=> backend = "cluster" \/ Scheme(signAlg) = "ecdsa")
        /\ Accepted => SignAnswer(backend, kind, verify.alg, payload, verify.flag) = sign
        /\ Scheme(verify.alg) = "hmac" => ~verify.answer.ok

\* A message that is sent as it is, to a key of the algorithm's kind, gets the
\* signature of the standard: services can verify with the public key alone.
\* (README 17 and 132)
SignaturesVerifyLocally ==
    \A m \in Messages :
        payload = Plain(m) /\ sign.ok /\ ~flag /\ kind \in Meant(signAlg)
          => StandardAccepts(signAlg, kind, m, sign)

\* A digest that is announced as one (prehashed) gets the signature of the
\* standard from the token with ECDSA and from nothing else: the software
\* backend and RSA hash it again, although handlers.rs:42 and README 85 take it
\* for the digest everywhere.
DigestsSignedByTokenEcdsa ==
    \A m \in Messages :
        /\ sign.ok /\ flag /\ kind \in Meant(signAlg)
        /\ payload = Digest(Algorithm[signAlg].hash, m)
        => (StandardAccepts(signAlg, kind, m, sign)
              <=> backend = "cluster" /\ Scheme(signAlg) = "ecdsa")

=============================================================================
