----------------------------- MODULE MCKeyStore -----------------------------
(***************************************************************************)
(* An instance of KeyStore for TLC: versions of auth.toml that share a key *)
(* file, disable a key, change its algorithm, and list an id twice.        *)
(***************************************************************************)
EXTENDS KeyStore

CONSTANTS F1, F2

Key(id, ref, alg, enabled) == [id |-> id, ref |-> ref, alg |-> alg, enabled |-> enabled]

MCConfigs ==
    << \* Two keys.
       << Key("k1", F1, "ES256", "yes"), Key("k2", F2, "RS256", "yes") >>,
       \* The first is disabled, the second has another algorithm, and a new
       \* key uses the file of the first.
       << Key("k1", F1, "ES256", "no"), Key("k2", F2, "PS256", "yes"),
          Key("k3", F1, "ES256", "yes") >>,
       \* An id that is listed twice, and the second file for a secret.
       << Key("k1", F2, "RS256", "yes"), Key("k1", F1, "ES256", "yes"),
          Key("k2", F2, "HS256", "yes") >> >>

=============================================================================
