# Signing Gateway in TLA+

The signing gateway is one process that signs payloads for other services over
HTTP and gRPC, with keys that live either in PEM files ("software" backend) or
on a PKCS#11 token ("hsm_cluster" backend). This directory holds TLA+ models of
it, TLC configurations that check them on small instances, and proofs checked by
TLAPS. Paths below are relative to the repository.

## The system

| Component | State it keeps | Operations | Where |
|---|---|---|---|
| Session pool of the cluster backend | permits, idle sessions, sessions in use, creation jobs | get, create, recycle, return, retry | `src/hsm/cluster.rs` |
| Registry of the cluster backend | key id to label and algorithm, fixed at start | lookup, list; `reload_keys` does nothing | `src/hsm/cluster.rs` |
| Registry and key files of the software backend | map of keys behind a lock, files in `key_dir` | load, generate, replace the map | `src/hsm/software.rs` |
| Auth rules | one `RwLock<AuthConfig>` | checks of the sign handlers, replacement by a reload | `src/main.rs`, `src/http/handlers.rs`, `src/grpc/service.rs` |
| Hot reload | file watch, channel of 4, the task's place | event, debounce, read, reload keys, install rules | `src/main.rs` |
| Configuration | `config.toml`, `auth.toml`, `SGW__*` | load with built-in defaults as fallback | `src/config.rs`, `src/main.rs` |
| Sign endpoints | none of their own | caller, address, key, payload, key and algorithm, sign | `src/http/handlers.rs`, `src/grpc/service.rs` |
| Verify, list, public key, health | none | decode, one call of the backend, no auth check | the same |
| Payload decoding | none | text to bytes: hex, base64 or base64url | `src/http/handlers.rs` |
| Servers and shutdown | two listeners, in-flight requests, signal handlers | serve, drain on a signal, end the process | `src/main.rs` |

How they interact: handlers run concurrently on tokio's threads and call the
backend through the `HsmBackend` trait. Rules and registry are two cells behind
two locks; handlers lock one of them briefly for each look, and the reload task
replaces first the registry, then the rules. On the cluster backend a call waits
for a permit of the pool, takes or creates a session, runs a closure of PKCS#11
calls, and hands the session back. The watcher's thread tells the reload task of
file events through a bounded channel. The two servers are two tasks of one
runtime; main ends when the first of them does, and takes the rest with it.

What is hard here, and which property answers it:

- calls share sessions across retries, failed creations and callers that go away
  in the middle of a creation: `SessionsExclusive`, `PermitsConserved`,
  `NoHandleLeaked`, `CallsSettle`; a retry must not sign again and must not stop
  early: `SignsAtMostOnce`, `GivesUpOnlyWhenExhausted`; sessions share a login:
  `HealthyFailuresAreLogins`;
- updates of `auth.toml` race with the debounce, the read and the start, and a
  file may be read half written: `UpdateOnItsWay`, `LiveFollowsWatchedFile`,
  `LiveFollowsFile`;
- rules and registry are replaced one after the other, and the registry perhaps
  not at all, while requests look at both: `KeysNotBehindAuth`,
  `AuthNotBehindKeys`, `ImplementsLiveConfig`, `SignaturesWereAllowed`;
- key files are generated and written in place, next to crashes and failing
  reads and writes, and services keep public keys: `ServedKeysSurvive`,
  `CachedKeysStayGood`, `RegistryOfOneVersion`, `RegisteredKeysFit`,
  `ImplementsKeyRegistry`;
- key and algorithm are looked up before the signature and used for it:
  `SignedAsAsked`;
- two endpoints repeat the checks, and two backends the hashing:
  `QuietRequestsFollowRules`, `AllowlistsBind`, `RoundTrip`,
  `SignaturesVerifyLocally`, `DigestsSignedByTokenEcdsa`;
- the encoding of a payload is guessed: `SignedAsMeant`,
  `AcceptedTextsAreCanonical`, `VerifiesInEveryForm`;
- the process ends while requests, session creations and reloads are under way:
  `CutOffByTheOtherServer`, `EndedServerEndsProcess`, `DrainingEndsProcess`.

`PROJECT.json` lists every hazard with its line, and the definitions with the
lines they model.

## Modules

| Module | Models |
|---|---|
| `SessionLease` | abstract: what a caller of the cluster backend may rely on |
| `SessionPool`, `MCSessionPool` | pool, `SessionManager`, `with_session` and its closures, token |
| `SessionPoolProofs` | type correctness, eight safety properties, refinement of `SessionLease` |
| `LiveConfig` | abstract: registry and rules as handlers see them change |
| `HotReload` | load, watch, channel, reload task, editors, crashes |
| `HotReloadProofs` | type correctness, three safety properties, refinement of `LiveConfig` |
| `SignHandlers`, `MCSignHandlers` | both sign handlers on top of `LiveConfig` |
| `SignHandlersProofs` | type correctness and all three safety properties of the handlers |
| `KeyRegistry` | abstract: the keys that callers of the software backend see |
| `KeyStore`, `MCKeyStore` | `load_keys`, key files, replacement of the registry, public keys |
| `KeyStoreProofs` | type correctness, all four safety properties, refinement of `KeyRegistry` |
| `Signatures` | what is hashed, signed and accepted, on both backends |
| `SignaturesProofs` | all three properties of `Signatures` |
| `Payloads`, `MCPayloads` | texts of payloads and signatures, `decode_payload` |
| `PayloadsProofs` | round trips of hex and base64, all three properties of `Payloads` |
| `Shutdown` | the two servers, signals, draining, the end of the process |
| `ShutdownProofs` | type correctness and the safety property of `Shutdown` |

Definitions whose comment calls them a mutation or a variant are what a
plausible mistake would make of the definition after them; no action uses them.

### SessionPool

A call is one execution of `with_session`. Its place `pc` is one of

    idle -> waiting -> [creating ->] looking_up -> using -> done
               ^                         |          |
               +-------- sleeping <------+----------+   (ClusterError, retries left)

`permits` and `idle` are deadpool's semaphore and queue; `held[c]` is the session
that a call, or its creation job, owns. `job[c]` is the closure that
`SessionManager::create` spawns on the blocking pool. It goes on when its caller
is dropped (`CancelCreate`), and then drops what it made. `CancelWait` drops a
caller that waits for a permit or sleeps; between `LookUp` and the answer there
is no await, so a caller cannot go away there. `Failover` makes the token
forget its sessions at any time; the gateway keeps the handles. `recycle` is in
`CheckOut`: any idle session is handed out, lost or not. The closures are cut
into the object search (`LookUp`) and the operation (`SignOrVerify`,
`ExportKey`), because the token can be lost between the two and the errors mean
different things there: an error of the search is a ClusterError and is tried
again, one of C_Sign or C_Verify is not. That is what makes `SignsAtMostOnce`
hold: of a request that was retried, no earlier attempt reached C_Sign.

The token is external. PKCS#11 keeps one login for all sessions of an
application, so C_Login may be refused while another session is logged in
(`LoginRefused`); a lenient token accepts it (`LoginAccepted`). Both outcomes are
in every run and every proof.

### HotReload and LiveConfig

Contents of `auth.toml` that parse are version numbers, in the order they were
written; `Torn` is one that does not. An editor writes in steps (`WriteSome`,
`EndWrite`): what stands in the file meanwhile may be `Torn`, or parse all the
same, since `allowed_keys`, `allowed_ips` and `trusted_proxies` have defaults and
any key or token may be missing. Such a `fragment` is a version of its own, loaded
and installed like any other. Versions in `Partial` are complete only together with
`config.toml` and the environment: a start can load them, a reload cannot.
`keys` and `auth` are the versions that registry and rules hold. `Send` is the
watcher's callback, whose `blocking_send` waits for room; `Receive`, `Drain`,
`ReadFile`, `ReloadKeys`, `InstallAuth` are the steps of the task. `ReloadKeys`
may leave the registry as it is: always on the cluster backend, after an error
of a key file on the software one. `Rename` leaves the watch on an inode without
a name ("orphan"). `Load` falls back to `Default` for any error. `Die` resets
everything that lives in the process. `KeyStore` is the inside of the step
`ReloadKeys`.

Two ghosts name what the code does not promise. `lagging` says that the last
reload did not replace the registry. `missed` says that the process started
without the version in the file, or that the file changed between load and
watch, and has not changed since.

`LiveConfig` keeps the two cells and `lagging`. `HotReload` is shown to
implement it without any assumption, and `SignHandlers` takes it as its
environment: what is checked of the handlers holds for every reload that
`HotReload` can make, on either backend.

### SignHandlers

One step per look at a cell: `at` names the next one. `CheckCaller`,
`ResolveClientIp`, `CheckIp`, `CheckKey`, `DecodePayload`, `ResolveKey`, `Sign`
are `handle_sign`; `ReadAllowAll`, `LookUpToken`, `ResolveClientIp`,
`CheckIpGrpc`, `CheckKeyGrpc`, `ResolveAlgorithm`, `Sign` are the gRPC service.
Handlers change nothing that another request reads, so one request at a time
shows every outcome. `seenAuth` and `seenKeys` are ghosts: the versions that were
in force since the request arrived. `Answers` is a second, independent account of
what a request is due, written from the README over whole rules, without steps
and for both endpoints alike.

A request over HTTP that names no key is signed with some key of the registry
and is not compared with the caller's allowlist. `Answers` does not share this
exemption; `QuietRequestsFollowRules` sets those requests apart
(`PastTheKeyList`), `SignaturesWereAllowed` says nothing of a key that was not
named, and `AllowlistsBind` is the README's claim, which the code does not keep.
Over gRPC a request that names no key ends in KeyNotFound.

### KeyStore and KeyRegistry

`load_keys` one entry at a time: `SkipKey`, `ReadKey`, or `GenerateKey`,
`Truncate`, `WriteKey`. `fs::write` truncates before it writes, so a crash in
between leaves `Torn`, which the next start loads like any key. `LoadFails` is
the `?` of generation and write; `FinishLoad` replaces the registry. A key is a
kind and a number, 0 for one the operator put into the file; `Kind` is what
`generate_key` makes for an algorithm. `GetPublicKey` is a service that fetches
a public key and keeps it in `cached` for good; what it gets (`PublicKey`) depends
on the file and on the algorithm of the entry: an RSA or EC public key, an error
when the file does not fit, or for HMAC the file's bytes themselves. Files are
written by the gateway only, apart from what the operator put there before the
first start. `served` (per file, the keys
ever in the registry) and `unread` (files that were there when a read of them
failed) are ghosts.

`KeyRegistry` is the same for a caller who sees no files: `Install` replaces the
registry by that of one whole version, every file has the key it had before, and
`Lose` takes a file out of that promise once a read of it failed. In the mapping
a file's pinned key is what was served of it.

### Signatures

A digest is a pair of a hash and what was hashed; a signature is a term of
scheme and digest. `SoftwareSign`, `SoftwareVerify`, `ClusterSign`,
`ClusterVerify` say which digest each backend computes and which errors precede
it. Two details of the libraries decide what the software backend accepts. ring's
RSA verification reads an `RSAPublicKey` of PKCS #1 and is given a
SubjectPublicKeyInfo, so it takes no RSA signature to be valid. And an ECDSA
signature is told by its length (`Size`): one of another length is an error, a
64-byte HS512 tag is an ES256 signature that is not valid. `StandardAccepts` is
what a verifier with the public key does.

### Payloads

A text is a sequence of characters, each the number it has in the base64
alphabet, with a few more for `-`, `_`, `=` and one of no alphabet.
`DecodePayload` is `decode_payload` with its order of hex, base64 and base64url;
the engines of the base64 crate are modelled by what they accept (padding and
trailing bits are strict). Clients encode with `Encode`; over gRPC bytes are sent
as they are. A run of the module is one payload, signed in one form and then
verified in another, together with a signature in a third. Here the backend is
taken to accept what it signed, to see what the encodings do; that it does so only
on the token and for ECDSA is in `Signatures`.

### Shutdown

`main` goes from spawning the two servers to `select!`, to its return and to the
drop of the runtime (`DropRuntime`, `DropRequest`, `Exit`). A server binds, polls
`shutdown_signal()` for the first time (`Arm`), accepts, drains and stops. Before
any server is armed a signal kills the process (`SignalKills`); afterwards it
makes those servers drain that are armed by then (`SignalHandled`), and no
others. `BindFails` is the `unwrap` of a bind: the task ends, and with it the
process. `job` is the session creation that a request started on a blocking
thread, `reload` a reload that is writing key files, which no await interrupts:
the drop of the runtime waits for both. That it does is tokio's promise and
stands in the guard of `Exit`; what is checked is that the process ends for all
that (`EndedServerEndsProcess`).

## Runs

Each run is a `.cfg` of its name.

| Run | Shows | Bounds |
|---|---|---|
| `SessionPool_safety` | types, permits, ownership, leaks, hand-over, one signature per call, no early end, refinement of `SessionLease` | 3 calls, pool of 2, 3 handles, 2 retries, 2 failovers; calls and sessions symmetric |
| `SessionPool_served` | every call returns; without failovers and dropped callers only logins fail one with a ClusterError | 3 calls, pool of 2, 2 handles, 1 retry, 1 failover |
| `SessionPool_recycle` | violated: a lost session is replaced, not handed out (`cluster.rs:116`, `327`) | 2 calls |
| `HotReload_safety` | order of registry and rules, no lost update, refinement of `LiveConfig`, a watched file comes into force | 4 versions, one of them partial, half-written files, 3 starts, both backends, channel of 2 |
| `HotReload_followed` | violated: rules are updated when `auth.toml` changes (`main.rs:39`) | 3 versions, 1 start, with the fairness of the other run |
| `SignHandlers_safety` | answers follow the rules; signatures were allowed, and made with the key and algorithm asked for, while reloads happen | 2 callers, 2 tokens, 2 keys, 4 rule sets |
| `SignHandlers_allowlist` | violated: a caller with a key list gets no other key (`README.md:226`) | 2 callers, 2 keys, 1 rule set |
| `KeyStore_safety` | registry of one version; served and cached keys survive; keys fit; refinement of `KeyRegistry` | 3 versions, 2 files, 3 loads, failing reads and writes |
| `Signatures_safety` | what each backend accepts again; standard signatures of messages and of digests | all algorithms and kinds of key, 2 messages |
| `Payloads_safety` | bytes signed, texts accepted, signatures verified in another form | strings of up to 3 of 6 bytes; texts of up to 4 of 9 characters |
| `Shutdown_safety` | who is cut off at the end, and that it comes | 2 HTTP and 1 gRPC request, one that may never end, 2 signals |
| `Shutdown_drain` | violated: a clean shutdown answers everything (`main.rs:231`, `273`) | 1 request per server, 1 signal |

Why the bounds are enough. Three calls on two permits make one wait, one work
and one create, and let an abandoned creation overlap with two others; the third
handle lets a job without an owner exceed the pool; two failovers strike before
and after a retry. `SessionPool_served` gives the token exactly `pool_size`
sessions, the tightest case in which the pool can serve everybody. A channel of
2 is full as soon as two events come during a debounce; four versions let one be
read, one wait, one be half written and one be unreadable to reloads; three starts put a
crash on both sides of a reload. In `MCSignHandlers` every kind of permission is
taken away by one version and given back by another. In `MCKeyStore` versions
share a file between ids, disable a key, change its algorithm and list an id
twice; three loads are enough for one that generates, one that fails or crashes,
and one that reads what is left. The bytes of `MCPayloads` are those whose base64
is made of hex digits, of the two characters in which the alphabets differ, and
neither; three bytes and four characters are one whole group of base64, and
shorter strings its two padded endings. Two requests on one server and one on the
other let the process end with a server that drained one request and lost
another; the second signal may come before, between or after the arming of the
servers.

Deadlock is checked in the pool and handler runs. It is off for HotReload (no
process, no starts and no edits left), KeyStore (no loads left), Signatures and
Payloads (all requests answered) and Shutdown (the process has ended), where the
models end.

### Fairness

- Pool: `WF` for creation jobs and for the steps a call takes by itself, since
  PKCS#11 calls return and tokio polls futures that are ready; `SF` for getting
  a permit, since tokio's semaphore serves its waiters in order. Nothing is
  assumed of callers or of the token.
- Hot reload: `WF` for the watcher thread, for the task and for main going on
  from the load to the watch. Nothing is assumed of editors, crashes and
  restarts.
- Shutdown: `WF` for main, for the server tasks, for threads and for the answer
  of every request outside `Slow`, since tokio polls what is ready and a handler
  that has its request and its session goes through. Nothing is assumed of
  clients (a body that never comes is in `Slow`), of signals, of binds that fail
  or of the start of a reload.

## Proofs

Every invariant, action property and refinement that a run checks is stated by a
theorem. Two theorems of the pool are about one kind of setting and name it as
their hypothesis (`AmpleToken`, `PoolSize = 0`); apart from these no theorem
assumes more than the named `ASSUME`s on the constants, which TLC evaluates in
the runs.

`SessionPoolProofs`, for any finite set of calls, any set of sessions, any pool
size, retry count and number of failovers. The invariant has three layers.
`Control` is the type invariant with `Coherent`, which says at which places a
call has a handle, a job or a result. `Ownership` is `SessionsExclusive` and
`NoHandleLeaked`: neither is inductive alone, because that a handle taken for a
new session is nobody's follows from its being closed. The third is
`PermitsConserved` with the finiteness of the queue; each action changes the
set of calls with a permit by at most one (`PermittedCount`). From the three
follow `TypeCorrect`, `PoolNeverShrinks`, `OneOwnerPerSession`, `NoLeak`, the
action properties `HandOver`, `SignsOnce` and `GivesUpLate`, and, with the bound
on calls that hold a session (`HoldersBound`), `PoolRefinesLease`. On top of the
three, `Healthy` says what the pool is like while no failover and no dropped
caller has disturbed it: every session in it is usable, and what failed a creation
was a login. It is inductive under `AmpleToken`, a token that has at least
`pool_size` sessions: idle sessions and those of the other calls are fewer than
`pool_size` while a creation has yet to open its own (`SessionToSpare`), so the
token has one left. `OnlyLoginsFail` follows: as long as nothing disturbs the pool,
a sign or verify fails with a ClusterError only over a login that came while
another session was logged in. Without the hypothesis it is false: a token with fewer sessions
turns a creation down. `EmptyPoolServesNobody` says what a
`pool_size` of 0 means, which the configuration admits.

`HotReloadProofs`, for any number of versions and starts, any channel, either
backend and any partial versions. `Stages` says what registry and rules hold at
each stage of a reload, `lagging` included, and is inductive however a reload
ends; `RegistryFirst`, `RulesFollow` and `ReloadRefinesLiveConfig` follow from
it. `Pending` strengthens `UpdateOnItsWay` by the versions that were read and are
not installed yet and by the process that has loaded and does not watch yet;
`NoLostUpdate` follows.

`KeyStoreProofs`, for any files, versions and number of loads. `Survival` says
that a file of which a key was served is there with that key, and that a file a
load is writing was absent before, unless a read of it failed: `KeysSurvive`.
`Origin` says that every key has an entry behind it that named its file, and that
a cached public key is what its algorithm made of a key that file once served:
`KeysFit`, and with `Survival` `CachesStayGood`. `Progress` says what the map
holds after each entry, by induction over the entries as the load takes them:
`OneVersion`. `Survival` and `Progress` give `StoreRefinesRegistry`: the end of a
load is `Install`, a failing read of a file that is there is `Lose`, and what lies between
is nothing to a caller.

`SignHandlersProofs`, for any rules, registries and requests. `Passed` says at
each step what the checks before it saw, in terms of the versions in force since
the request arrived; these sets only grow, so a reload keeps it: `SignedAsAllowed`.
`Quiet` says that, as long as one version was seen and the request does not go past
the key list, the rest of the steps answers what `Answers` does:
`AnsweredByTheRules`. `Asked` says that what the
look-up chose answers the request, by some registry that was seen:
`SignsWhatWasAsked`.

`ShutdownProofs`, for any requests. Requests are dropped only once main has
returned, main returns only when a server has ended, and a server that ended has
none left: `OwnServerNeverCutsOff`.

`SignaturesProofs`, for any messages, kinds of keys and algorithms of the table.
`Made` says that both answers are what the backend computes; the theorems
compare what `sign` and `verify` hash. `AcceptsWhatItSigned` says exactly where
the code accepts what it signed: on the token, and for ECDSA on the software
backend. `SignsByTheStandard` is about messages, `DigestsByTheStandard` about
digests, where it needs that a digest is no message (`HashedTwice`).

`PayloadsProofs`, for byte strings, texts and signatures of any length. The hex
and base64 of the model are functions of the position, so no induction over the
length is needed: each byte or character is compared within its group, with
lemmas of arithmetic about one group. From the round trips in both directions
(`HexRoundTrip`, `Base64RoundTrip`, `SextetsRoundTrip`) follows what each decoder
accepts, from these and the order of the three decoders that `decode_payload`
returns what was encoded unless the text could be hex (`DecodesWhatWasEncoded`,
`MistakenForHex`), and that it accepts nothing but encodings
(`AcceptsOnlyEncodings`). A text mistaken for hex always stands for other bytes:
it decodes to half its length, which is less than was encoded unless that was one
byte, and for one byte the two texts differ (`OneByteIsNotItsHex`). The theorems
are `SignsWhatWasMeant`, `OneTextPerEncoding` and `VerifiesAlike`.

Only model-checked: liveness (`CallsSettle`, `LiveFollowsWatchedFile`,
`EndedServerEndsProcess`, `DrainingEndsProcess`), which is out of the prover's
reach.

## Where code and text disagree

The runs marked "violated" each show one statement of a comment or of the
repository's README that the code does not keep; `PROJECT.json` quotes them.
More are visible in the models without a run of their own, some of them because
a checked property says what the code does instead.

Session pool:

- `README.md:274` speaks of a pool of logged-in sessions, but every creation logs
  in, and PKCS#11 refuses that while another session of the application is logged
  in: on such a token the second pooled session fails its call
  (`LoginRefused`, `HealthyFailuresAreLogins`);
- a lost session goes back to the queue again and again: nothing ever closes it,
  and each call that draws it fails or spends an attempt (`CheckOut`, `Return`);
- a session lost between the search and C_Sign fails the call without a retry,
  while `README.md:277` says that transient errors are retried (`SignOrVerify`);
- a failing `pool.get()` ends a call at its first attempt (`CreateFailed`);
- an abandoned creation opens a session beyond `pool_size` for a while
  (`CancelCreate`);
- the README gives 16 as the default of `pool_size`, `config.rs:90` has 8.

Configuration:

- after a rename over `auth.toml`, as many editors save, the watch is on the old
  file and later changes are not noticed (`Rename`; `LiveFollowsFile` would fail
  over it as it does over an edit between load and watch);
- `main.rs:180` says that a parse error keeps the previous configuration, but a
  file that is read half written need not be one, and what it parses as is
  installed (`WriteSome`, `ReadFile`);
- the cluster backend reloads no keys, so keys that `auth.toml` adds, disables or
  gives another algorithm stay as they were at the start while the rules change
  (`cluster.rs:477`, "no in-memory reload needed");
- rules are replaced, and the reload is logged as done, when the registry reload
  failed (`ReloadKeys`, `InstallAuth`);
- a reload ignores `config.toml` and the environment (`Partial`); any error of
  the load, a typo included, starts the gateway on defaults that let everybody in,
  with the message that `config.toml` was not found (`Load`, `main.rs:90`).

Keys and signatures:

- the default algorithm is looked up before the key that signs, so a reload in
  between signs with the algorithm the key had before, although `handlers.rs:38`
  calls it the key's (`ResolveKey`, `Sign`; `SignedAsAsked` says what remains);
- a key file that is there and cannot be read is taken for one that "doesn't
  exist yet" (`software.rs:46`) and overwritten, and the public keys that services
  cached (`README.md:132`) verify nothing any more (`GenerateKey`; `unread` in
  `ServedKeysSurvive` and `CachedKeysStayGood`);
- no RSA signature of the software backend is accepted by the gateway's own
  Verify (`signing.proto:13`; `SoftwareVerify`, `RoundTrip`);
- a prehashed payload (`handlers.rs:42`, `README.md:85`) is hashed again by the
  software backend and for RSA (`DigestsSignedByTokenEcdsa`);
- an entry that changes to an algorithm of another kind keeps its file and cannot
  sign (`RegisteredKeysFit`);
- no HMAC signature can be verified through the gateway (`SoftwareVerify`,
  `HasKeyPair`), and the public-key endpoint answers a text secret with that
  secret (`DerivesPublicKey`);
- disabled keys are not loaded, so KeyDisabled is never answered by the software
  backend;
- a base64 payload made of hex digits is taken for hex, and base64url with
  padding is refused (`Mistakable`, `SignedAsMeant`).

Shutdown:

- `shutdown_timeout_secs` (`config.rs:21`) is read by nobody: a request that
  never ends holds the process until the other server ends it (`Slow`);
- a signal after the first changes nothing for a server that drains
  (`SignalHandled`);
- a port that is taken ends the process without an error code and with the
  message that it was shut down cleanly (`BindFails`, `Select`).

## Not modelled

- List and health endpoints: one read of the registry without effect.
- PEM and DER; the tables of algorithm names and numbers; the rendering of errors
  as HTTP codes and gRPC statuses; metrics and logging; generated gRPC code;
  set-up of library, slot and token; TLS settings, which main never reads.
- Poisoned locks: no code under a lock can panic.
- A pool of size 0 in a run: the code promises nothing about it, and a theorem
  says what it does.

## Plan

What would be worth adding:

1. a composition of `SignHandlers` with `SessionPool` for a call from its arrival
   to the token and back; today the backend answers within one step of the
   handler, which loses nothing that the rules and the registry can see;
2. one model of `HotReload` with `KeyStore` inside its step `ReloadKeys`; today the
   two meet in what that step may leave behind.
