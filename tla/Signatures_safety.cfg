SPECIFICATION Spec
CONSTANTS
    Messages = {m1, m2}
    KeyKinds = {"RSA", "P256", "P384", "secret", "passphrase"}
    AlgNames = {"RS256", "RS384", "RS512", "PS256", "PS384", "PS512", "ES256", "ES384", "HS256", "HS384", "HS512"}
INVARIANTS
    RoundTrip
    SignaturesVerifyLocally
    DigestsSignedByTokenEcdsa
CHECK_DEADLOCK FALSE
