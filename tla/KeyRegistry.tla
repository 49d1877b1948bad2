---------------------------- MODULE KeyRegistry ----------------------------
(***************************************************************************)
(* What callers of the software backend may rely on, without the entries   *)
(* of a load, key files that are generated or torn, and crashes in the     *)
(* middle of that.  The registry is always that of one version of the      *)
(* [[keys]] section, whole, each id with the key of the file it names.  A  *)
(* file keeps the key that it first gave to the registry, over reloads and *)
(* restarts; only a file that was there and could not be read is lost, and *)
(* nothing is promised of its keys from then on.                           *)
(***************************************************************************)
EXTENDS Naturals

CONSTANTS
    Files,    \* the key files
    Configs   \* version |-> its [[keys]] section, a sequence of entries

VARIABLES
    up,        \* whether the backend serves requests
    registry,  \* the keys it serves
    pinned,    \* for each file, the set of the key it has, empty before its first
    lost       \* the files of which a read failed

registryVars == <<up, registry, pinned, lost>>

\* The id, algorithm and file of the enabled entries of a version, by the last
\* one of each id.
Registers(v) ==
    {<<Configs[v][i].id, Configs[v][i].alg, Configs[v][i].ref>> :
        i \in {j \in DOMAIN Configs[v] :
                 /\ Configs[v][j].enabled = "yes"
                 /\ \A l \in DOMAIN Configs[v] :
                      l > j /\ Configs[v][l].enabled = "yes"
                        => Configs[v][l].id # Configs[v][j].id}}

\* A set of keys that is the registry of this version.
IsRegistryOf(map, v) ==
    /\ {<<k.id, k.alg, k.ref>> : k \in map} = Registers(v)
    /\ \A k, l \in map : k.id = l.id => k = l

RegistryInit ==
    /\ up = FALSE
    /\ registry = {}
    /\ pinned = [f \in Files |-> {}]
    /\ lost = {}

\* A load is complete.  A file that was used before gives the key it gave then.
Install(v) ==
    /\ up' = TRUE
    /\ IsRegistryOf(registry', v)
    /\ pinned' = [f \in Files |-> IF f \in lost THEN {}
                                  ELSE pinned[f] \cup {k.pem : k \in {l \in registry' : l.ref = f}}]
    /\ \A f \in Files : \A p, q \in pinned'[f] : p = q
    /\ UNCHANGED lost

\* A file that is there cannot be read.
Lose(f) ==
    /\ lost' = lost \cup {f}
    /\ pinned' = [pinned EXCEPT ![f] = {}]
    /\ UNCHANGED <<up, registry>>

Stop ==
    /\ up' = FALSE
    /\ registry' = {}
    /\ UNCHANGED <<pinned, lost>>

RegistryNext ==
    \/ \E v \in DOMAIN Configs : Install(v)
    \/ \E f \in Files : Lose(f)
    \/ Stop

RegistrySpec == RegistryInit /\ [][RegistryNext]_registryVars

=============================================================================
