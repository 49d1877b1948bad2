--------------------------- MODULE KeyStoreProofs ---------------------------
(***************************************************************************)
(* Proofs about KeyStore, for every set of files and versions and any      *)
(* number of loads, crashes, failed reads and failed writes.               *)
(*                                                                         *)
(* Survival is the argument of ServedKeysSurvive: unless a read of a file  *)
(* that is there failed, a load only writes to a file that was absent, and *)
(* a file whose key was ever served is there and holds that key.  Origin   *)
(* says where the keys of the map and the registry come from, and Progress *)
(* what the map holds after each entry.  Survival and Progress give the    *)
(* refinement of KeyRegistry.                                              *)
(***************************************************************************)
EXTENDS KeyStore, FiniteSetTheorems, TLAPS

\* A file that a load is writing was absent before, or a read of it failed: no
\* key of it was ever served, and none is in the map the load has built so far.
Survival ==
    /\ \A f \in Files \ unread : served[f] \subseteq {disk[f]} /\ Absent \notin served[f]
    /\ \A k \in built : k.ref \notin unread => k.pem = disk[k.ref]
    /\ step = "generated" /\ Entry.ref \notin unread => disk[Entry.ref] = Absent
    /\ step = "truncated" /\ Entry.ref \notin unread =>
          /\ disk[Entry.ref] = Torn
          /\ served[Entry.ref] = {}
          /\ \A k \in built : k.ref # Entry.ref

\* Some version has an entry that satisfies P for this id and file.
Names(id, ref) ==
    \E v \in DOMAIN Configs : \E i \in DOMAIN Configs[v] :
        Configs[v][i].id = id /\ Configs[v][i].ref = ref

\* A generated key was made for an entry that names its file.
MadeFor(ref, pem) ==
    pem \in Keys /\ pem.number > 0 =>
        \E v \in DOMAIN Configs : \E i \in DOMAIN Configs[v] :
            Configs[v][i].ref = ref /\ Kind[Configs[v][i].alg] = pem.kind

\* The key that a service was given the public key of.
CachedFrom(c) == StoredKey(c, c.public.of)

\* Every key has an entry behind it, and what was served or cached is known.
Origin ==
    /\ \A f \in Files : MadeFor(f, disk[f])
    /\ \A k \in built \cup keys : Names(k.id, k.ref) /\ MadeFor(k.ref, k.pem)
    /\ \A k \in keys : k.pem \in served[k.ref]
    /\ \A c \in cached :
          /\ Names(c.id, c.ref)
          /\ c.public.of \in served[c.ref]
          /\ DerivesPublicKey(CachedFrom(c)) /\ PublicKey(CachedFrom(c)) = c.public

\* What the first n entries of a version register.
UpTo(v, n) ==
    {<<Configs[v][i].id, Configs[v][i].alg, Configs[v][i].ref>> :
        i \in {j \in DOMAIN Configs[v] :
                 /\ j <= n
                 /\ Configs[v][j].enabled = "yes"
                 /\ \A l \in DOMAIN Configs[v] :
                      l > j /\ l <= n /\ Configs[v][l].enabled = "yes"
                        => Configs[v][l].id # Configs[v][j].id}}

Rows(map) == {<<k.id, k.alg, k.ref>> : k \in map}

OneKeyPerId(map) == \A k, l \in map : k.id = l.id => k = l

\* The map a load builds is that of the entries it has passed.
Progress ==
    /\ step # "none" => next <= Len(Section) + 1 /\ Rows(built) = UpTo(version, next - 1)
    /\ OneKeyPerId(built)
    /\ step \in {"generated", "truncated"} => Entry.enabled = "yes"
    /\ RegistryOfOneVersion

-----------------------------------------------------------------------------

\* A version is a sequence of entries.
LEMMA SectionTypes ==
    ASSUME NEW v \in DOMAIN Configs
    PROVE  /\ Len(Configs[v]) \in Nat
           /\ DOMAIN Configs[v] = 1 .. Len(Configs[v])
           /\ \A i \in DOMAIN Configs[v] :
                 /\ Configs[v][i] \in Entries
                 /\ Configs[v][i].ref \in Files
                 /\ Configs[v][i].alg \in Algorithms
                 /\ Configs[v][i].enabled \in {"yes", "no"}
  <1>1. Configs[v] \in Seq(Entries)
    BY StoreAssumption
  <1>2. \A e \in Entries : e.ref \in Files /\ e.alg \in Algorithms /\ e.enabled \in {"yes", "no"}
    BY DEF Entries
  <1>3. \A i \in DOMAIN Configs[v] : Configs[v][i] \in Entries
    BY <1>1
  <1>4. QED
    BY <1>1, <1>2, <1>3

\* The entry a load works on is an entry of some version.
LEMMA EntryTypes ==
    ASSUME version \in DOMAIN Configs, next \in DOMAIN Section
    PROVE  /\ Entry.ref \in Files /\ Entry.alg \in Algorithms
           /\ Names(Entry.id, Entry.ref)
           /\ \E v \in DOMAIN Configs : \E i \in DOMAIN Configs[v] : Configs[v][i] = Entry
  BY SectionTypes DEF Section, Entry, Names

\* What Insert and StoredKey make of a map.
LEMMA InsertedKeys ==
    ASSUME NEW map, NEW e, NEW pem, NEW k \in Insert(map, StoredKey(e, pem))
    PROVE  k \in map \/ (k.id = e.id /\ k.ref = e.ref /\ k.alg = e.alg /\ k.pem = pem)
  BY DEF Insert, StoredKey

\* The kind of an algorithm is a kind of key.
LEMMA KindTypes == \A alg \in Algorithms : Kind[alg] \in Kinds
  BY DEF Algorithms, Kind, Kinds

\* What generate_key makes is a key, made for the entry the load is at.
LEMMA GeneratedTypes ==
    ASSUME TypeOK, next \in DOMAIN Section
    PROVE  Generated \in Keys /\ MadeFor(Entry.ref, Generated)
  <1>1. Entry.alg \in Algorithms
    BY EntryTypes DEF TypeOK
  <1>2. Generated \in Keys /\ Generated.kind = Kind[Entry.alg]
    BY <1>1, KindTypes DEF Generated, Keys, TypeOK
  <1>3. PICK v \in DOMAIN Configs : \E i \in DOMAIN Configs[v] : Configs[v][i] = Entry
    BY EntryTypes DEF TypeOK
  <1>4. QED
    BY <1>2, <1>3 DEF MadeFor

\* A load that is at an entry is at one of the section.
LEMMA AtEntryInside == TypeOK /\ AtEntry => next \in DOMAIN Section
  BY SectionTypes DEF TypeOK, AtEntry, Section

\* The type invariant holds at the start ...
LEMMA InitTypes == Init => TypeOK
  <1> SUFFICES ASSUME Init PROVE TypeOK
    OBVIOUS
  <1>1. disk \in [Files -> Pems \cup {Absent}]
    BY StoreAssumption DEF Init, Pems, Keys
  <1>2. QED
    BY <1>1, StoreAssumption DEF Init, TypeOK, Section

\* ... and every step of the gateway preserves it.
LEMMA TypesStep == TypeOK /\ [Next]_vars => TypeOK'
  <1> SUFFICES ASSUME TypeOK, [Next]_vars PROVE TypeOK'
    OBVIOUS
  <1> USE StoreAssumption DEF TypeOK
  <1>1. ASSUME NEW v \in DOMAIN Configs, Start(v) \/ ReloadKeys(v) PROVE TypeOK'
    BY <1>1 DEF Start, ReloadKeys, BeginLoad, ghosts, Section
  <1>2. CASE Crash
    BY <1>2 DEF Crash, loadVars, ghosts, Section
  <1>3. CASE SkipKey
    BY <1>3 DEF SkipKey, AtEntry, Advance, loadVars, ghosts, Section
  <1>4. CASE ReadKey
    <2>1. next \in DOMAIN Section
      BY <1>4, AtEntryInside DEF ReadKey
    <2>2. Entry.ref \in Files /\ Entry.alg \in Algorithms /\ disk[Entry.ref] \in Pems
      BY <1>4, <2>1, EntryTypes DEF ReadKey
    <2>3. \A k \in built' : k.ref \in Files /\ k.pem \in Pems /\ k.alg \in Algorithms
      BY <1>4, <2>2, InsertedKeys DEF ReadKey
    <2>4. QED
      BY <1>4, <2>3 DEF ReadKey, Advance, loadVars, ghosts, Section
  <1>5. CASE GenerateKey
    <2>1. next \in DOMAIN Section
      BY <1>5, AtEntryInside DEF GenerateKey
    <2>2. unread' \subseteq Files
      BY <1>5, <2>1, EntryTypes DEF GenerateKey
    <2>3. QED
      BY <1>5, <2>1, <2>2 DEF GenerateKey, loadVars, Section
  <1>6. CASE Truncate
    BY <1>6 DEF Truncate, loadVars, ghosts, Section, Pems
  <1>7. CASE WriteKey
    <2>1. Entry.ref \in Files /\ Entry.alg \in Algorithms /\ Generated \in Pems
      BY <1>7, EntryTypes, GeneratedTypes DEF WriteKey, Pems
    <2>2. \A k \in built' : k.ref \in Files /\ k.pem \in Pems /\ k.alg \in Algorithms
      BY <1>7, <2>1, InsertedKeys DEF WriteKey
    <2>3. disk' \in [Files -> Pems \cup {Absent}]
      BY <1>7, <2>1 DEF WriteKey
    <2>4. QED
      BY <1>7, <2>2, <2>3 DEF WriteKey, Advance, loadVars, ghosts, Section
  <1>8. CASE LoadFails
    BY <1>8 DEF LoadFails, loadVars, ghosts, Section
  <1>9. CASE FinishLoad
    <2>1. \A f \in Files : served'[f] \subseteq Pems
      BY <1>9 DEF FinishLoad
    <2>2. QED
      BY <1>9, <2>1 DEF FinishLoad, loadVars, Section
  <1>10. CASE GetPublicKey
    <2>1. \A c \in cached' : c.ref \in Files /\ c.alg \in Algorithms /\ c.public.of \in Pems
      BY <1>10 DEF GetPublicKey, PublicKey
    <2>2. QED
      BY <1>10, <2>1 DEF GetPublicKey, loadVars, ghosts, Section
  <1>11. CASE UNCHANGED vars
    BY <1>11 DEF vars, loadVars, ghosts, Section
  <1>12. QED
    BY <1>1, <1>2, <1>3, <1>4, <1>5, <1>6, <1>7, <1>8, <1>9, <1>10, <1>11 DEF Next, Load

\* Every variable of the key store keeps its type, whatever the file system
\* and the process do.
THEOREM TypeCorrect == Spec => []TypeOK
  BY InitTypes, TypesStep, PTL DEF Spec

-----------------------------------------------------------------------------
(* Keys survive.                                                           *)

\* No key was served when the process is first started.
LEMMA InitSurvival == Init => Survival
  BY DEF Init, Survival

\* Every step keeps the served keys of readable files in place.
LEMMA SurvivalStep ==
    ASSUME TypeOK, Survival, [Next]_vars
    PROVE  Survival'
  <1> USE StoreAssumption DEF TypeOK, Pems
  <1>1. ASSUME NEW v \in DOMAIN Configs, Start(v) \/ ReloadKeys(v) PROVE Survival'
    BY <1>1 DEF Start, ReloadKeys, BeginLoad, ghosts, Survival
  <1>2. CASE Crash
    BY <1>2 DEF Crash, ghosts, Survival
  <1>3. CASE SkipKey
    BY <1>3 DEF SkipKey, Advance, ghosts, Survival
  <1>4. CASE ReadKey
    <2>1. \A k \in built' : k.ref \notin unread => k.pem = disk[k.ref]
      BY <1>4, InsertedKeys DEF ReadKey, Survival
    <2>2. QED
      BY <1>4, <2>1 DEF ReadKey, Advance, ghosts, Survival
  <1>5. CASE GenerateKey
    <2>1. unread \subseteq unread'
      BY <1>5 DEF GenerateKey
    <2>2. Entry' = Entry /\ step' = "generated"
      BY <1>5 DEF GenerateKey, loadVars, Entry, Section
    <2>3. Entry.ref \notin unread' => disk[Entry.ref] = Absent
      BY <1>5 DEF GenerateKey
    <2>4. QED
      BY <1>5, <2>1, <2>2, <2>3 DEF GenerateKey, Survival
  <1>6. CASE Truncate
    <2>1. Entry.ref \in Files /\ Entry' = Entry
      BY <1>6, EntryTypes DEF Truncate, loadVars, Entry, Section
    <2>2. Entry.ref \notin unread => disk[Entry.ref] = Absent /\ served[Entry.ref] = {}
      BY <1>6, <2>1 DEF Truncate, Survival
    <2>3. Entry.ref \notin unread => \A k \in built : k.ref # Entry.ref
      BY <2>2 DEF Survival
    <2>4. QED
      BY <1>6, <2>1, <2>2, <2>3 DEF Truncate, ghosts, Survival
  <1>7. CASE WriteKey
    <2>1. Entry.ref \in Files
      BY <1>7, EntryTypes DEF WriteKey
    <2>2. Entry.ref \notin unread =>
             served[Entry.ref] = {} /\ \A k \in built : k.ref # Entry.ref
      BY <1>7 DEF WriteKey, Survival
    <2>3. \A k \in built' : k.ref \notin unread => k.pem = disk'[k.ref]
      BY <1>7, <2>1, <2>2, InsertedKeys DEF WriteKey, Survival
    <2>4. QED
      BY <1>7, <2>1, <2>2, <2>3 DEF WriteKey, Advance, ghosts, Survival
  <1>8. CASE LoadFails
    BY <1>8 DEF LoadFails, ghosts, Survival
  <1>9. CASE FinishLoad
    <2>1. ASSUME NEW f \in Files \ unread
          PROVE  served'[f] \subseteq {disk[f]} /\ Absent \notin served'[f]
      BY <1>9 DEF FinishLoad, Survival
    <2>2. QED
      BY <1>9, <2>1 DEF FinishLoad, Survival
  <1>10. CASE GetPublicKey
    BY <1>10 DEF GetPublicKey, loadVars, ghosts, Entry, Section, Survival
  <1>11. CASE UNCHANGED vars
    BY <1>11 DEF vars, loadVars, ghosts, Entry, Section, Survival
  <1>12. QED
    BY <1>1, <1>2, <1>3, <1>4, <1>5, <1>6, <1>7, <1>8, <1>9, <1>10, <1>11 DEF Next, Load

\* A set of keys that are all the key of one file has one key at most.
LEMMA SurvivalBound == Survival => ServedKeysSurvive
  <1> SUFFICES ASSUME Survival, NEW f \in Files \ unread PROVE Cardinality(served[f]) <= 1
    BY DEF ServedKeysSurvive
  <1>1. served[f] = {} \/ served[f] = {disk[f]}
    BY DEF Survival
  <1>2. Cardinality({}) = 0 /\ Cardinality({disk[f]}) = 1
    BY FS_EmptySet, FS_Singleton
  <1>3. Cardinality(served[f]) \in {0, 1}
    BY <1>1, <1>2
  <1>4. QED
    BY <1>3

\* A file never has a second key in the registry unless a read of it failed
\* while it was there: reloads, failed writes, crashes and restarts included.
THEOREM KeysSurvive == Spec => []ServedKeysSurvive
  <1>1. TypeOK /\ Survival /\ [Next]_vars => Survival'
    BY SurvivalStep
  <1>2. QED
    BY <1>1, InitSurvival, TypeCorrect, SurvivalBound, PTL DEF Spec

-----------------------------------------------------------------------------
(* Where keys come from.                                                   *)

\* Only keys that were given are there when the process is first started.
LEMMA InitOrigin == Init => Origin
  BY StoreAssumption DEF Init, Origin, MadeFor, Keys

\* Every step keeps an entry behind every key.
LEMMA OriginStep ==
    ASSUME TypeOK, Origin, [Next]_vars
    PROVE  Origin'
  <1> USE DEF TypeOK
  <1>1. ASSUME NEW v \in DOMAIN Configs, Start(v) \/ ReloadKeys(v) PROVE Origin'
    BY <1>1 DEF Start, ReloadKeys, BeginLoad, ghosts, Origin
  <1>2. CASE Crash
    BY <1>2 DEF Crash, ghosts, Origin
  <1>3. CASE SkipKey
    BY <1>3 DEF SkipKey, Advance, ghosts, Origin
  <1>4. CASE ReadKey
    <2>1. Entry.ref \in Files /\ Names(Entry.id, Entry.ref)
      BY <1>4, AtEntryInside, EntryTypes DEF ReadKey
    <2>2. \A k \in built' : Names(k.id, k.ref) /\ MadeFor(k.ref, k.pem)
      BY <1>4, <2>1, InsertedKeys DEF ReadKey, Origin
    <2>3. QED
      BY <1>4, <2>2 DEF ReadKey, Advance, ghosts, Origin
  <1>5. CASE GenerateKey
    BY <1>5 DEF GenerateKey, Origin
  <1>6. CASE Truncate
    <2>1. MadeFor(Entry.ref, Torn)
      BY StoreAssumption DEF MadeFor
    <2>2. \A f \in Files : MadeFor(f, disk'[f])
      BY <1>6, <2>1 DEF Truncate, Origin
    <2>3. QED
      BY <1>6, <2>2 DEF Truncate, ghosts, Origin
  <1>7. CASE WriteKey
    <2>1. Entry.ref \in Files /\ Names(Entry.id, Entry.ref) /\ MadeFor(Entry.ref, Generated)
      BY <1>7, EntryTypes, GeneratedTypes DEF WriteKey
    <2>2. \A k \in built' : Names(k.id, k.ref) /\ MadeFor(k.ref, k.pem)
      BY <1>7, <2>1, InsertedKeys DEF WriteKey, Origin
    <2>3. \A f \in Files : MadeFor(f, disk'[f])
      BY <1>7, <2>1 DEF WriteKey, Origin
    <2>4. QED
      BY <1>7, <2>2, <2>3 DEF WriteKey, Advance, ghosts, Origin
  <1>8. CASE LoadFails
    BY <1>8 DEF LoadFails, ghosts, Origin
  <1>9. CASE FinishLoad
    <2>1. \A f \in Files : served[f] \subseteq served'[f]
      BY <1>9 DEF FinishLoad
    <2>2. \A k \in keys' : k \in built /\ k.pem \in served'[k.ref]
      BY <1>9 DEF FinishLoad
    <2>3. \A c \in cached' : Names(c.id, c.ref) /\ c.public.of \in served'[c.ref]
      BY <1>9, <2>1 DEF FinishLoad, Origin
    <2>4. QED
      BY <1>9, <2>2, <2>3 DEF FinishLoad, Origin
  <1>10. CASE GetPublicKey
    <2>1. PICK k \in keys :
             /\ DerivesPublicKey(k)
             /\ cached' = {[id |-> k.id, alg |-> k.alg, ref |-> k.ref, public |-> PublicKey(k)]}
      BY <1>10 DEF GetPublicKey
    <2>2. Names(k.id, k.ref) /\ k.pem \in served[k.ref]
      BY <2>1 DEF Origin
    <2>3. ASSUME NEW c \in cached'
          PROVE  /\ Names(c.id, c.ref) /\ c.public.of \in served[c.ref]
                 /\ DerivesPublicKey(CachedFrom(c)) /\ PublicKey(CachedFrom(c)) = c.public
      <3>1. c.id = k.id /\ c.alg = k.alg /\ c.ref = k.ref /\ c.public = PublicKey(k)
        BY <2>1
      <3>2. c.public.of = k.pem
        BY <3>1 DEF PublicKey
      <3>3. CachedFrom(c).alg = k.alg /\ CachedFrom(c).pem = k.pem
        BY <3>1, <3>2 DEF CachedFrom, StoredKey
      <3>4. QED
        BY <2>1, <2>2, <3>1, <3>2, <3>3 DEF DerivesPublicKey, PublicKey
    <2>4. QED
      BY <1>10, <2>3 DEF GetPublicKey, loadVars, ghosts, Origin
  <1>11. CASE UNCHANGED vars
    BY <1>11 DEF vars, loadVars, ghosts, Origin
  <1>12. QED
    BY <1>1, <1>2, <1>3, <1>4, <1>5, <1>6, <1>7, <1>8, <1>9, <1>10, <1>11 DEF Next, Load

\* An entry behind every key, in every reachable state.
LEMMA OriginAlways == Spec => []Origin
  <1>1. TypeOK /\ Origin /\ [Next]_vars => Origin'
    BY OriginStep
  <1>2. QED
    BY <1>1, InitOrigin, TypeCorrect, PTL DEF Spec

\* A generated key fits its algorithm, or another entry names its file.
THEOREM KeysFit == Spec => []RegisteredKeysFit
  <1>1. TypeOK /\ Origin => RegisteredKeysFit
    BY DEF TypeOK, Origin, MadeFor, RegisteredKeysFit, Pems
  <1>2. QED
    BY <1>1, OriginAlways, TypeCorrect, PTL

\* A cached public key verifies what the key of its id signs, for any number of
\* reloads, crashes and restarts, as long as the id keeps one file that can be
\* read and an algorithm that needs that kind of key.
THEOREM CachesStayGood == Spec => []CachedKeysStayGood
  <1>1. TypeOK /\ Survival /\ Origin => CachedKeysStayGood
    <2> SUFFICES ASSUME TypeOK, Survival, Origin, NEW c \in cached, NEW k \in keys,
                        SameEntry(c, k), k.ref \notin unread
                 PROVE  Verifies(c, k)
      BY DEF CachedKeysStayGood
    <2>1. c.ref = k.ref
      BY DEF Origin, Names, SameEntry, OneFile
    <2>2. k.ref \in Files /\ k.pem \in served[k.ref] /\ c.public.of \in served[k.ref]
      BY <2>1 DEF TypeOK, Origin
    <2>3. k.pem = c.public.of
      BY <2>2 DEF Survival
    <2>4. CachedFrom(c).pem = k.pem /\ Kind[CachedFrom(c).alg] = Kind[k.alg]
      BY <2>3 DEF CachedFrom, StoredKey, SameEntry
    <2>5. QED
      BY <2>4 DEF Origin, Verifies, DerivesPublicKey, PublicKey
  <1>2. TypeOK /\ Survival /\ [Next]_vars => Survival'
    BY SurvivalStep
  <1>3. QED
    BY <1>1, <1>2, InitSurvival, OriginAlways, TypeCorrect, PTL DEF Spec

-----------------------------------------------------------------------------
(* The registry is that of one version.                                    *)

\* The rows of a map after an insertion.
LEMMA InsertedRows ==
    ASSUME NEW map, NEW e, NEW pem
    PROVE  Rows(Insert(map, StoredKey(e, pem))) =
             {p \in Rows(map) : p[1] # e.id} \cup {<<e.id, e.alg, e.ref>>}
  <1> DEFINE new == StoredKey(e, pem)
             kept == {k \in map : k.id # e.id}
  <1>1. new.id = e.id /\ new.alg = e.alg /\ new.ref = e.ref
    BY DEF StoredKey
  <1>2. Insert(map, new) = kept \cup {new}
    BY <1>1 DEF Insert
  <1>3. Rows(kept \cup {new}) = Rows(kept) \cup {<<new.id, new.alg, new.ref>>}
    BY DEF Rows
  <1>4. Rows(kept) = {p \in Rows(map) : p[1] # e.id}
    BY DEF Rows
  <1>5. QED
    BY <1>1, <1>2, <1>3, <1>4

\* An enabled entry replaces the row of its id, a disabled one does nothing.
LEMMA UpToNext ==
    ASSUME NEW v \in DOMAIN Configs, NEW n \in DOMAIN Configs[v]
    PROVE  UpTo(v, n) =
             IF Configs[v][n].enabled = "yes"
               THEN {p \in UpTo(v, n - 1) : p[1] # Configs[v][n].id}
                      \cup {<<Configs[v][n].id, Configs[v][n].alg, Configs[v][n].ref>>}
               ELSE UpTo(v, n - 1)
  <1>1. n \in Nat /\ n \in 1 .. Len(Configs[v]) /\ Len(Configs[v]) \in Nat
        /\ DOMAIN Configs[v] = 1 .. Len(Configs[v])
    BY SectionTypes
  <1>2. \A j \in DOMAIN Configs[v] : j <= n <=> j <= n - 1 \/ j = n
    BY <1>1
  <1>3. CASE Configs[v][n].enabled = "yes"
    BY <1>1, <1>2, <1>3 DEF UpTo
  <1>4. CASE Configs[v][n].enabled # "yes"
    BY <1>1, <1>2, <1>4 DEF UpTo
  <1>5. QED
    BY <1>3, <1>4

\* No entry, no row; all entries, all that the version registers.
LEMMA UpToEnds ==
    ASSUME NEW v \in DOMAIN Configs
    PROVE  UpTo(v, 0) = {} /\ UpTo(v, Len(Configs[v])) = Registry!Registers(v)
  BY SectionTypes DEF UpTo, Registry!Registers

\* Every step keeps the map of a load in step with the entries it has passed.
LEMMA ProgressStep ==
    ASSUME TypeOK, Progress, [Next]_vars
    PROVE  Progress'
  <1> USE DEF TypeOK
  <1>0. Len(Section) \in Nat /\ DOMAIN Section = 1 .. Len(Section)
    BY SectionTypes DEF Section
  <1>1. ASSUME NEW v \in DOMAIN Configs, Start(v) \/ ReloadKeys(v) PROVE Progress'
    <2>1. UpTo(v, 0) = {} /\ Len(Configs[v]) \in Nat
      BY UpToEnds, SectionTypes
    <2>2. version' = v /\ next' = 1 /\ built' = {} /\ keys' = keys
      BY <1>1 DEF Start, ReloadKeys, BeginLoad
    <2>3. proc' = "running" => proc = "running"
      BY <1>1 DEF Start, ReloadKeys
    <2>4. Rows(built') = UpTo(version', next' - 1) /\ next' <= Len(Section') + 1
      BY <2>1, <2>2 DEF Rows, Section
    <2>5. step' = "entry" /\ OneKeyPerId(built')
      BY <1>1, <2>2 DEF OneKeyPerId, Start, ReloadKeys, BeginLoad
    <2>6. RegistryOfOneVersion'
      BY <2>2, <2>3 DEF Progress, RegistryOfOneVersion
    <2>7. QED
      BY <2>4, <2>5, <2>6 DEF Progress
  <1>2. CASE Crash
    BY <1>2 DEF Crash, Progress, OneKeyPerId, RegistryOfOneVersion
  <1>3. ASSUME step \in {"entry", "truncated"}, next \in DOMAIN Section, Advance,
               Rows(built') = UpTo(version, next), OneKeyPerId(built')
        PROVE  Progress'
    BY <1>0, <1>3 DEF Advance, loadVars, Progress, Section, RegistryOfOneVersion
  <1>4. CASE SkipKey
    <2>1. next \in DOMAIN Section
      BY <1>4, AtEntryInside DEF SkipKey
    <2>2. UpTo(version, next) = UpTo(version, next - 1)
      BY <1>4, <2>1, UpToNext DEF SkipKey, Entry, Section
    <2>3. QED
      BY <1>3, <1>4, <2>1, <2>2 DEF SkipKey, AtEntry, Progress
  <1>5. ASSUME step \in {"entry", "truncated"}, next \in DOMAIN Section, Advance,
               Entry.enabled = "yes", NEW pem, built' = Insert(built, StoredKey(Entry, pem))
        PROVE  Progress'
    <2>1. Rows(built) = UpTo(version, next - 1)
      BY <1>5 DEF Progress
    <2>2. Rows(built') = {p \in Rows(built) : p[1] # Entry.id} \cup {<<Entry.id, Entry.alg, Entry.ref>>}
      BY <1>5, InsertedRows
    <2>3. UpTo(version, next) =
             {p \in UpTo(version, next - 1) : p[1] # Entry.id} \cup {<<Entry.id, Entry.alg, Entry.ref>>}
      BY <1>5, UpToNext DEF Entry, Section
    <2>4. OneKeyPerId(built')
      BY <1>5 DEF Progress, OneKeyPerId, Insert, StoredKey
    <2>5. QED
      BY <1>3, <1>5, <2>1, <2>2, <2>3, <2>4
  <1>6. CASE ReadKey
    BY <1>5, <1>6, AtEntryInside DEF ReadKey, AtEntry
  <1>7. CASE GenerateKey \/ Truncate
    BY <1>7 DEF GenerateKey, Truncate, AtEntry, loadVars, ghosts, Progress, Entry, Section,
       RegistryOfOneVersion
  <1>8. CASE WriteKey
    BY <1>5, <1>8 DEF WriteKey, Progress
  <1>9. CASE LoadFails
    BY <1>9 DEF LoadFails, Progress, OneKeyPerId, RegistryOfOneVersion
  <1>10. CASE FinishLoad
    <2>1. next - 1 = Len(Section)
      BY <1>0, <1>10 DEF FinishLoad, Progress
    <2>2. Rows(built) = Registry!Registers(version)
      BY <1>10, <2>1, UpToEnds DEF FinishLoad, Progress, Section
    <2>3. Registry!IsRegistryOf(built, version)
      BY <2>2 DEF Progress, Rows, OneKeyPerId, Registry!IsRegistryOf
    <2>4. step' = "none" /\ OneKeyPerId(built') /\ keys' = built
      BY <1>10 DEF FinishLoad, OneKeyPerId
    <2>5. RegistryOfOneVersion'
      BY <1>10, <2>3, <2>4 DEF RegistryOfOneVersion, Registry!IsRegistryOf
    <2>6. QED
      BY <2>4, <2>5 DEF Progress
  <1>11. CASE GetPublicKey \/ UNCHANGED vars
    BY <1>11 DEF GetPublicKey, vars, loadVars, Progress, Entry, Section, RegistryOfOneVersion
  <1>12. QED
    BY <1>1, <1>2, <1>4, <1>6, <1>7, <1>8, <1>9, <1>10, <1>11 DEF Next, Load

\* No map and no registry when the process is first started.
LEMMA InitProgress == Init => Progress
  BY DEF Init, Progress, OneKeyPerId, RegistryOfOneVersion

\* Requests see the keys of one version, whole, for any versions, any number of
\* reloads and any failures in the middle of one.
THEOREM OneVersion == Spec => []RegistryOfOneVersion
  <1>1. TypeOK /\ Progress /\ [Next]_vars => Progress'
    BY ProgressStep
  <1>2. Progress => RegistryOfOneVersion
    BY DEF Progress
  <1>3. QED
    BY <1>1, <1>2, InitProgress, TypeCorrect, PTL DEF Spec

-----------------------------------------------------------------------------
(* The key store implements KeyRegistry.                                   *)

\* A process that does not run yet serves nothing; a load that fails or ends
\* in a crash belongs to a process that started or runs.
Idle ==
    /\ proc # "running" => keys = {}
    /\ step # "none" => proc # "down"

\* Every step keeps keys from a process that does not run.
LEMMA IdleStep == Idle /\ [Next]_vars => Idle'
  BY DEF Idle, Next, Load, Start, ReloadKeys, BeginLoad, Crash, SkipKey, ReadKey, AtEntry,
     GenerateKey, Truncate, WriteKey, Advance, LoadFails, FinishLoad, GetPublicKey, vars, loadVars

\* A load that ends installs a version; a failing read of a file that is there
\* loses it; a crash stops; every other step is nothing to a caller.
LEMMA RegistryStep ==
    ASSUME TypeOK, Survival, Progress, Idle, [Next]_vars
    PROVE  [Registry!RegistryNext]_(Registry!registryVars)
  <1> DEFINE Pinned == [f \in Files |-> IF f \in unread THEN {} ELSE served[f]]
             Goal == [Registry!RegistryNext]_(Registry!registryVars)
  <1>1. ASSUME UNCHANGED <<keys, served, unread>>, proc' = "running" <=> proc = "running"
        PROVE  Goal
    BY <1>1 DEF Registry!registryVars
  <1>2. CASE FinishLoad
    <2>1. Registry!IsRegistryOf(keys', version)
      <3>1. Len(Section) \in Nat
        BY SectionTypes DEF TypeOK, Section
      <3>2. next - 1 = Len(Section)
        BY <1>2, <3>1 DEF FinishLoad, Progress, TypeOK
      <3>3. Rows(built) = Registry!Registers(version)
        BY <1>2, <3>2, UpToEnds DEF FinishLoad, Progress, Section, TypeOK
      <3>4. QED
        BY <1>2, <3>3 DEF FinishLoad, Progress, Rows, OneKeyPerId, Registry!IsRegistryOf
    <2>2. Pinned' = [f \in Files |-> IF f \in unread THEN {}
                       ELSE Pinned[f] \cup {k.pem : k \in {l \in keys' : l.ref = f}}]
      BY <1>2 DEF FinishLoad
    <2>3. ASSUME NEW f \in Files, NEW p \in Pinned'[f], NEW q \in Pinned'[f]
          PROVE  p = q
      <3>1. f \notin unread
        BY <1>2, <2>3 DEF FinishLoad
      <3>2. \A k \in built : k.ref = f => k.pem = disk[f]
        BY <3>1 DEF Survival
      <3>3. served[f] \subseteq {disk[f]}
        BY <3>1 DEF Survival
      <3>4. QED
        BY <1>2, <2>2, <2>3, <3>1, <3>2, <3>3 DEF FinishLoad
    <2>4. proc' = "running" /\ unread' = unread /\ version \in DOMAIN Configs
      BY <1>2 DEF FinishLoad, TypeOK
    <2>5. PICK v \in DOMAIN Configs : v = version
      BY <2>4
    <2>6. Registry!Install(v)
      BY <2>1, <2>2, <2>3, <2>4, <2>5 DEF Registry!Install
    <2>7. QED
      BY <2>6 DEF Registry!RegistryNext
  <1>3. CASE GenerateKey
    <2>1. CASE disk[Entry.ref] = Absent
      BY <1>1, <1>3, <2>1 DEF GenerateKey
    <2>2. CASE disk[Entry.ref] # Absent
      <3>1. PICK f \in Files : f = Entry.ref
        BY <1>3, AtEntryInside, EntryTypes DEF GenerateKey, TypeOK
      <3>2. UNCHANGED <<proc, keys, served>> /\ unread' = unread \cup {f}
        BY <1>3, <2>2, <3>1 DEF GenerateKey
      <3>3. Pinned' = [Pinned EXCEPT ![f] = {}]
        BY <3>2
      <3>4. Registry!Lose(f)
        BY <3>2, <3>3 DEF Registry!Lose
      <3>5. QED
        BY <3>4 DEF Registry!RegistryNext
    <2>3. QED
      BY <2>1, <2>2
  <1>4. CASE Crash
    BY <1>4 DEF Crash, ghosts, Registry!RegistryNext, Registry!Stop
  <1>5. CASE LoadFails
    BY <1>1, <1>5 DEF LoadFails, ghosts
  <1>6. CASE SkipKey \/ ReadKey \/ Truncate \/ WriteKey \/ GetPublicKey \/ UNCHANGED vars
    BY <1>1, <1>6 DEF SkipKey, ReadKey, Truncate, WriteKey, GetPublicKey, Advance, vars, ghosts
  <1>7. ASSUME NEW v \in DOMAIN Configs, Start(v) \/ ReloadKeys(v) PROVE Goal
    BY <1>1, <1>7 DEF Start, ReloadKeys, BeginLoad, ghosts
  <1>8. QED
    BY <1>2, <1>3, <1>4, <1>5, <1>6, <1>7 DEF Next, Load

\* For any files and versions, and wherever loads fail and the process dies:
\* callers see what KeyRegistry allows, one whole version after another and one
\* key for each file that can be read.
THEOREM StoreRefinesRegistry == Spec => ImplementsKeyRegistry
  <1>1. Init => Registry!RegistryInit
    BY DEF Init, Registry!RegistryInit
  <1>2. Init => Idle
    BY DEF Init, Idle
  <1>3. TypeOK /\ Survival /\ [Next]_vars => Survival'
    BY SurvivalStep
  <1>4. TypeOK /\ Progress /\ [Next]_vars => Progress'
    BY ProgressStep
  <1>5. TypeOK /\ Survival /\ Progress /\ Idle /\ [Next]_vars
          => [Registry!RegistryNext]_(Registry!registryVars)
    BY RegistryStep
  <1>6. QED
    BY <1>1, <1>2, <1>3, <1>4, <1>5, IdleStep, InitSurvival, InitProgress, TypeCorrect, PTL
       DEF Spec, ImplementsKeyRegistry, Registry!RegistrySpec

=============================================================================
