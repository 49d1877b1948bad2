------------------------------ MODULE KeyStore ------------------------------
(***************************************************************************)
(* The key registry of the software backend and its directory of key files *)
(* (hsm/software.rs): load_keys at start-up and in reload_keys, with the   *)
(* keys it generates, failures of the file system, and crashes.            *)
(*                                                                         *)
(* load_keys works through the entries of one version of the [[keys]]      *)
(* section in order and builds a map of its own; the registry is replaced  *)
(* when it is complete.  A key file that cannot be read is generated and   *)
(* written in place, which first truncates it.  What a file holds is not   *)
(* looked at: a truncated file is loaded like any other.                   *)
(***************************************************************************)
EXTENDS Naturals, Sequences, FiniteSets

CONSTANTS
    Files,       \* the paths key_dir/backend_ref.pem
    Configs,     \* version |-> its [[keys]] section, a sequence of entries
    MaxLoads,    \* bound: starts and reloads
    ReadErrors,  \* reading a file that is there may fail
    WriteErrors, \* generating a key, making key_dir or writing the file may fail
    GivenKinds,  \* the kinds of keys the operator may have put into a file
    Absent,      \* no file
    Torn         \* a file that was truncated and not written

Kind ==
    [RS256 |-> "RSA", RS384 |-> "RSA", RS512 |-> "RSA",
     PS256 |-> "RSA", PS384 |-> "RSA", PS512 |-> "RSA",
     ES256 |-> "P256", ES384 |-> "P384",
     HS256 |-> "secret", HS384 |-> "secret", HS512 |-> "secret"]
Kinds == {"RSA", "P256", "P384", "secret"}
Algorithms == DOMAIN Kind

Entries == [id : STRING, ref : Files, alg : Algorithms, enabled : {"yes", "no"}]

\* A key is told from every other by its number; 0 is one that was given.
Keys == [kind : Kinds, number : Nat]

ASSUME StoreAssumption ==
    /\ \A v \in DOMAIN Configs : Configs[v] \in Seq(Entries)
    /\ MaxLoads \in Nat
    /\ ReadErrors \in BOOLEAN
    /\ WriteErrors \in BOOLEAN
    /\ GivenKinds \subseteq Kinds
    /\ Absent \notin Keys /\ Torn \notin Keys /\ Absent # Torn

VARIABLES
    disk,     \* what each file holds: a key, Torn or Absent
    made,     \* how many keys were generated so far
    proc,     \* "down", "starting", "running"
    loads,    \* how many loads were begun
    step,     \* of the load: "none", "entry", "generated", "truncated"
    version,  \* the version being loaded
    next,     \* the entry it is at
    built,    \* the map it has built, as a set of records
    keys,     \* the registry, the same
    served,   \* ghost: the keys each file ever had in the registry
    unread,   \* ghost: the files that were there and could not be read once
    cached    \* the public key a service fetched, at most one, and its file (ghost)

loadVars == <<loads, version>>
ghosts == <<served, unread>>
vars == <<disk, made, proc, loadVars, step, next, built, keys, ghosts, cached>>

-----------------------------------------------------------------------------

Section == Configs[version]
Entry == Section[next]

\* One key of the map: its id, algorithm, file and PEM.
StoredKey(e, pem) == [id |-> e.id, alg |-> e.alg, ref |-> e.ref, pem |-> pem]

\* HashMap::insert: an entry with the same id is replaced.
Insert(map, key) == {k \in map : k.id # key.id} \cup {key}

Pems == Keys \cup {Torn}

\* Type invariant.
TypeOK ==
    /\ disk \in [Files -> Pems \cup {Absent}]
    /\ made \in Nat
    /\ proc \in {"down", "starting", "running"}
    /\ loads \in 0..MaxLoads
    /\ step \in {"none", "entry", "generated", "truncated"}
    /\ version \in DOMAIN Configs
    /\ next \in Nat \ {0}
    /\ step \in {"generated", "truncated"} => next \in DOMAIN Section
    /\ \A k \in built \cup keys : k.ref \in Files /\ k.pem \in Pems
    /\ \A k \in built \cup keys : k.alg \in Algorithms
    /\ served \in [Files -> SUBSET Pems]
    /\ unread \subseteq Files
    /\ \A c \in cached : c.ref \in Files /\ c.alg \in Algorithms /\ c.public.of \in Pems

\* Any of the files may have been provided by the operator.
Init ==
    /\ disk \in [Files -> {[kind |-> kind, number |-> 0] : kind \in GivenKinds} \cup {Absent}]
    /\ made = 0
    /\ proc = "down"
    /\ loads = 0
    /\ step = "none" /\ version \in DOMAIN Configs /\ next = 1
    /\ built = {} /\ keys = {}
    /\ served = [f \in Files |-> {}]
    /\ unread = {}
    /\ cached = {}

-----------------------------------------------------------------------------
(* The process.                                                            *)

BeginLoad(v) ==
    /\ loads < MaxLoads
    /\ loads' = loads + 1
    /\ version' = v
    /\ next' = 1
    /\ built' = {}
    /\ step' = "entry"
    /\ UNCHANGED <<disk, made, keys, ghosts, cached>>

\* SoftwareHsm::new.
Start(v) ==
    /\ proc = "down"
    /\ proc' = "starting"
    /\ BeginLoad(v)

\* reload_keys.  Only the reload task calls it, so there is one load at a time.
ReloadKeys(v) ==
    /\ proc = "running"
    /\ step = "none"
    /\ BeginLoad(v)
    /\ UNCHANGED proc

\* The process ends, whatever it was doing; a write it was in the middle of
\* stays undone.
Crash ==
    /\ proc # "down"
    /\ proc' = "down"
    /\ step' = "none" /\ next' = 1
    /\ built' = {} /\ keys' = {}
    /\ UNCHANGED <<disk, made, loadVars, ghosts, cached>>

-----------------------------------------------------------------------------
(* load_keys.                                                              *)

AtEntry == step = "entry" /\ next <= Len(Section)

Advance ==
    /\ step' = "entry"
    /\ next' = next + 1
    /\ UNCHANGED <<proc, loadVars, keys, ghosts, cached>>

\* A disabled key is not loaded.
SkipKey ==
    /\ AtEntry
    /\ Entry.enabled = "no"
    /\ Advance
    /\ UNCHANGED <<disk, made, built>>

\* Mutations of ReadKey: a missing file is taken for an empty one; the key goes
\* into the registry at once.
ReadKeyUnchecked ==
    /\ AtEntry
    /\ Entry.enabled = "yes"
    /\ built' = Insert(built, StoredKey(Entry, disk[Entry.ref]))
    /\ Advance
    /\ UNCHANGED <<disk, made>>

ReadKeyInPlace ==
    /\ AtEntry
    /\ Entry.enabled = "yes"
    /\ disk[Entry.ref] # Absent
    /\ built' = Insert(built, StoredKey(Entry, disk[Entry.ref]))
    /\ keys' = Insert(keys, StoredKey(Entry, disk[Entry.ref]))
    /\ step' = "entry"
    /\ next' = next + 1
    /\ UNCHANGED <<disk, made, proc, loadVars, ghosts, cached>>

\* The file is there and its bytes are taken, whatever they are.
ReadKey ==
    /\ AtEntry
    /\ Entry.enabled = "yes"
    /\ disk[Entry.ref] # Absent
    /\ built' = Insert(built, StoredKey(Entry, disk[Entry.ref]))
    /\ Advance
    /\ UNCHANGED <<disk, made>>

\* Any error of the read counts as a missing file: a key is generated.
GenerateKey ==
    /\ AtEntry
    /\ Entry.enabled = "yes"
    /\ disk[Entry.ref] = Absent \/ ReadErrors
    /\ made' = made + 1
    /\ step' = "generated"
    /\ unread' = IF disk[Entry.ref] = Absent THEN unread ELSE unread \cup {Entry.ref}
    /\ UNCHANGED <<disk, proc, loadVars, next, built, keys, served, cached>>

\* fs::write opens the file, which creates or truncates it ...
Truncate ==
    /\ step = "generated"
    /\ disk' = [disk EXCEPT ![Entry.ref] = Torn]
    /\ step' = "truncated"
    /\ UNCHANGED <<made, proc, loadVars, next, built, keys, ghosts, cached>>

\* generate_key: the key is of the kind the entry's algorithm needs.
Generated == [kind |-> Kind[Entry.alg], number |-> made]

\* Mutation of WriteKey: RSA is the default kind.
WriteRsaKey ==
    /\ step = "truncated"
    /\ disk' = [disk EXCEPT ![Entry.ref] = [kind |-> "RSA", number |-> made]]
    /\ built' = Insert(built, StoredKey(Entry, disk'[Entry.ref]))
    /\ Advance
    /\ UNCHANGED made

\* ... and writes the key.
WriteKey ==
    /\ step = "truncated"
    /\ disk' = [disk EXCEPT ![Entry.ref] = Generated]
    /\ built' = Insert(built, StoredKey(Entry, Generated))
    /\ Advance
    /\ UNCHANGED made

\* Mutation of LoadFails: the error of the write is ignored.
LoadGoesOn ==
    /\ WriteErrors
    /\ step \in {"generated", "truncated"}
    /\ built' = Insert(built, StoredKey(Entry, [kind |-> Kind[Entry.alg], number |-> made]))
    /\ Advance
    /\ UNCHANGED <<disk, made>>

\* generate_key, create_dir_all or write fails, the last perhaps with the file
\* truncated: load_keys returns the error.  main ends on it; a reload keeps the
\* registry.
LoadFails ==
    /\ WriteErrors
    /\ step \in {"generated", "truncated"}
    /\ step' = "none" /\ next' = 1
    /\ built' = {}
    /\ proc' = IF proc = "starting" THEN "down" ELSE proc
    /\ UNCHANGED <<disk, made, loadVars, keys, ghosts, cached>>

\* Mutation of FinishLoad: the map is added to the registry.
FinishLoadMerges ==
    /\ step = "entry"
    /\ next > Len(Section)
    /\ step' = "none" /\ next' = 1
    /\ built' = {}
    /\ keys' = built \cup {k \in keys : \A b \in built : b.id # k.id}
    /\ proc' = "running"
    /\ served' = [f \in Files |-> served[f] \cup {k.pem : k \in {b \in built : b.ref = f}}]
    /\ UNCHANGED <<disk, made, loadVars, unread, cached>>

\* Every entry is loaded: the map becomes the registry.
FinishLoad ==
    /\ step = "entry"
    /\ next > Len(Section)
    /\ step' = "none" /\ next' = 1
    /\ built' = {}
    /\ keys' = built
    /\ proc' = "running"
    /\ served' = [f \in Files |-> served[f] \cup {k.pem : k \in {b \in built : b.ref = f}}]
    /\ UNCHANGED <<disk, made, loadVars, unread, cached>>

-----------------------------------------------------------------------------

\* derive_public_key_pem: a key of the algorithm's kind; for HMAC any text, an
\* empty file and a PEM included, but not a secret, whose bytes are random.
DerivesPublicKey(k) ==
    IF k.pem = Torn THEN Kind[k.alg] = "secret"
    ELSE IF Kind[k.alg] = "secret" THEN k.pem.kind # "secret"
    ELSE k.pem.kind = Kind[k.alg]

\* What it makes of the file: the public half of an RSA or EC key, or for HMAC
\* the bytes of the file themselves.
PublicKey(k) == [kind |-> Kind[k.alg], of |-> k.pem]

\* public_key, from the registry and at any time.
GetPublicKey ==
    /\ proc = "running"
    /\ cached = {}
    /\ \E k \in keys :
        /\ DerivesPublicKey(k)
        /\ cached' = {[id |-> k.id, alg |-> k.alg, ref |-> k.ref, public |-> PublicKey(k)]}
    /\ UNCHANGED <<disk, made, proc, loadVars, step, next, built, keys, ghosts>>

Load == SkipKey \/ ReadKey \/ GenerateKey \/ Truncate \/ WriteKey \/ LoadFails \/ FinishLoad

Next ==
    \/ \E v \in DOMAIN Configs : Start(v) \/ ReloadKeys(v)
    \/ Load
    \/ GetPublicKey
    \/ Crash

Spec == Init /\ [][Next]_vars

-----------------------------------------------------------------------------
(* What the registry promises.                                             *)

\* What a caller may rely on: a file that could not be read has no pinned key.
Registry == INSTANCE KeyRegistry WITH
    up <- proc = "running",
    registry <- keys,
    pinned <- [f \in Files |-> IF f \in unread THEN {} ELSE served[f]],
    lost <- unread

\* Requests see the keys of one version, all of them and no other, each from the
\* file its entry names, also while a reload works through its entries and after
\* one that failed midway.  (load_keys builds its own map; software.rs 159-165)
RegistryOfOneVersion ==
    proc = "running" =>
        \E v \in DOMAIN Configs : Registry!IsRegistryOf(keys, v)

\* A file has one key for ever in the registry, across reloads, failed reloads,
\* crashes in the middle of a write and restarts, unless a read of it failed
\* while it was there: then, and only then, it is overwritten with a new key.
\* (generate, write, insert; software.rs 45-59)
ServedKeysSurvive ==
    \A f \in Files \ unread : Cardinality(served[f]) <= 1

\* The versions of auth.toml name one file for this id.
OneFile(id) ==
    \A v, w \in DOMAIN Configs : \A i \in DOMAIN Configs[v], j \in DOMAIN Configs[w] :
        Configs[v][i].id = id /\ Configs[w][j].id = id => Configs[v][i].ref = Configs[w][j].ref

\* The entry a public key was fetched for is still that key's: auth.toml has
\* one file for its id in all versions, and k needs the same kind of key.
SameEntry(c, k) == c.id = k.id /\ OneFile(c.id) /\ Kind[c.alg] = Kind[k.alg]

\* The gateway has a key of the right kind, and the public key is that key's.
Verifies(c, k) == DerivesPublicKey(k) /\ PublicKey(k) = c.public

\* A service that cached the public key of an id verifies with it what the
\* gateway signs for that id later, reloads, crashes and restarts included, as
\* long as the entry keeps its file and its kind of algorithm and no read of
\* the file failed while it was there. (README 17 and 132; public_key)
CachedKeysStayGood ==
    \A c \in cached, k \in keys :
        SameEntry(c, k) /\ k.ref \notin unread => Verifies(c, k)

\* A generated key in the registry that does not fit the algorithm it is
\* registered with was made for another entry that names the same file and
\* needs a key of that kind. (generate_key; software.rs 74)
RegisteredKeysFit ==
    \A k \in keys :
        k.pem # Torn /\ k.pem.number > 0 /\ k.pem.kind # Kind[k.alg] =>
            \E v \in DOMAIN Configs : \E i \in DOMAIN Configs[v] :
                Configs[v][i].ref = k.ref /\ Kind[Configs[v][i].alg] = k.pem.kind

\* However loads, failures, crashes and restarts fall, the registry goes from
\* one whole version to another in one step, and from file to key stays one
\* mapping for good.  (SoftwareHsm::new, reload_keys)
ImplementsKeyRegistry == Registry!RegistrySpec

=============================================================================
