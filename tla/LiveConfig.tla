----------------------------- MODULE LiveConfig -----------------------------
(***************************************************************************)
(* What the handlers may rely on about the configuration they run under,   *)
(* without watcher, channel or file events.  The key registry and the auth *)
(* rules are two separate cells, each of which always holds one version:   *)
(* all that auth.toml held at some time, be it whole or half written (or   *)
(* the built-in defaults), never parts of two.  A reload comes to the      *)
(* registry first and gives the rules the version it gave the registry;    *)
(* only a registry that it could not replace is left behind by the rules,  *)
(* and it is lagging from then on until a reload replaces it.  A cell      *)
(* never goes back to a version older than the one it holds.               *)
(***************************************************************************)
EXTENDS Naturals

CONSTANTS
    Default,    \* the built-in development defaults
    Down        \* no process

VARIABLES
    written,    \* the newest version of auth.toml
    keys,       \* the version the key registry holds
    auth,       \* the version the auth rules hold
    lagging     \* "yes" when the last reload could not replace the registry

liveVars == <<written, keys, auth, lagging>>

Published == 0..written

\* Versions are ordered by when they were written; the defaults come first.
NotOlder(v, w) == w = Default \/ (w \in Nat /\ v \in Nat /\ v >= w)

LiveInit ==
    /\ written = 0
    /\ keys = Down
    /\ auth = Down
    /\ lagging = "no"

Write ==
    /\ written' = written + 1
    /\ UNCHANGED <<keys, auth, lagging>>

\* A process starts with both cells of one version, or ends.
StartWith(v) ==
    /\ keys = Down /\ auth = Down
    /\ keys' = v /\ auth' = v /\ lagging' = "no"
    /\ UNCHANGED written

Stop ==
    /\ keys' = Down /\ auth' = Down /\ lagging' = "no"
    /\ UNCHANGED written

ReplaceKeys(v) ==
    /\ keys # Down
    /\ NotOlder(v, keys)
    /\ keys' = v
    /\ lagging' = "no"
    /\ UNCHANGED <<written, auth>>

\* A reload that cannot replace the registry leaves it as it is.
KeepKeys ==
    /\ keys # Down
    /\ lagging' = "yes"
    /\ UNCHANGED <<written, keys, auth>>

\* The rules follow the registry, or leave a lagging one behind.
ReplaceAuth(v) ==
    /\ auth # Down
    /\ NotOlder(v, auth)
    /\ NotOlder(v, keys)
    /\ lagging = "no" => v = keys
    /\ auth' = v
    /\ UNCHANGED <<written, keys, lagging>>

LiveNext ==
    \/ Write
    \/ \E v \in Published \cup {Default} : StartWith(v)
    \/ Stop
    \/ \E v \in Published : ReplaceKeys(v) \/ ReplaceAuth(v)
    \/ KeepKeys

LiveSpec == LiveInit /\ [][LiveNext]_liveVars

=============================================================================
