----------------------------- MODULE HotReload -----------------------------
(***************************************************************************)
(* How auth.toml reaches the running gateway (main.rs, config.rs): the     *)
(* load at start-up, the file watcher, its channel, and the task that      *)
(* debounces, reads the file, reloads the key registry and replaces the    *)
(* auth rules.                                                             *)
(*                                                                         *)
(* Every content of the file that parses is a version, numbered as it is   *)
(* written.  An editor writes the file in place or replaces it by a        *)
(* rename.  What an editor has written so far may not parse (Torn), or     *)
(* parse all the same: allowed_keys, allowed_ips and trusted_proxies may   *)
(* be missing, and so may any key or token, so that a file cut off between *)
(* two tables is a version too, one that nobody meant (a fragment).        *)
(*                                                                         *)
(* The watch is on the inode (inotify): a rename over the file is seen     *)
(* once, and then the watch is on a file that has no name any more.        *)
(*                                                                         *)
(* Some versions are complete only together with config.toml and the       *)
(* SGW__ environment: the load at start-up reads all three, a reload reads *)
(* auth.toml alone and takes such a version for an error.                  *)
(***************************************************************************)
EXTENDS Naturals

CONSTANTS
    MaxVersion,       \* bound: versions written, fragments included
    MaxStarts,        \* bound: how often the process is started
    ChannelCapacity,  \* of the tokio channel between watcher and task (4)
    Backends,         \* the backends config.toml may name
    Partial,          \* the versions that are not complete on their own
    Torn, Missing, Default, Down

ASSUME ReloadAssumption ==
    /\ MaxVersion \in Nat
    /\ MaxStarts \in Nat
    /\ ChannelCapacity \in Nat \ {0}
    /\ Backends \subseteq {"software", "hsm_cluster"}
    /\ Torn \notin Nat /\ Missing \notin Nat /\ Default \notin Nat /\ Down \notin Nat
    /\ Torn # Missing /\ Default # Down

VARIABLES
    file,      \* what auth.toml holds
    written,   \* the newest version
    fragments, \* the versions that are half-written files
    watch,     \* "file": on the inode that auth.toml names; "orphan": on one without name
    events,    \* file events the watcher thread has not sent on yet
    queue,     \* messages in the channel
    proc,      \* the process: "down", "loaded" (configuration read), "running"
    starts,    \* how often it was started
    backend,   \* the backend it runs on
    task,      \* where the reload task is
    loaded,    \* the version it read last
    lagging,   \* ghost: "yes" when the last reload did not replace the registry
    missed,    \* ghost: "yes" when the process started without the version in the
               \* file, or it changed between load and watch, and not since
    keys,      \* the version the key registry was built from
    auth       \* the version of the auth rules

diskVars  == <<file, written, fragments>>
watchVars == <<watch, events, queue>>
taskVars  == <<task, loaded>>
liveVars  == <<keys, auth, lagging>>
procVars  == <<proc, starts, backend>>
vars == <<diskVars, watchVars, procVars, taskVars, liveVars, missed>>

-----------------------------------------------------------------------------

Versions == 0..MaxVersion

\* Type invariant.
TypeOK ==
    /\ file \in Versions \cup {Torn, Missing}
    /\ written \in Versions
    /\ fragments \subseteq Versions
    /\ watch \in {"none", "file", "orphan"}
    /\ events \in Nat
    /\ queue \in 0..ChannelCapacity
    /\ proc \in {"down", "loaded", "running"}
    /\ starts \in 0..MaxStarts
    /\ backend \in {"none", "software", "hsm_cluster"}
    /\ task \in {"receiving", "debouncing", "reading", "reloading", "installing"}
    /\ loaded \in Versions
    /\ lagging \in {"yes", "no"} /\ missed \in {"yes", "no"}
    /\ keys \in Versions \cup {Default, Down}
    /\ auth \in Versions \cup {Default, Down}

Init ==
    /\ file \in {0, Missing}
    /\ written = 0 /\ fragments = {}
    /\ watch = "none" /\ events = 0 /\ queue = 0
    /\ proc = "down" /\ starts = 0 /\ backend = "none"
    /\ task = "receiving" /\ loaded = 0
    /\ keys = Down /\ auth = Down
    /\ lagging = "no" /\ missed = "no"

-----------------------------------------------------------------------------
(* The editors of auth.toml.                                               *)

MayEdit == written < MaxVersion

\* Modify and Create events pass the filter of the watcher's callback.
Notified ==
    /\ events' = IF watch = "file" THEN events + 1 ELSE events
    /\ missed' = IF watch = "file" THEN "no" ELSE IF proc = "loaded" THEN "yes" ELSE missed

\* The file is created, truncated, or written up to some point, where it does
\* not parse, or does.
WriteSome ==
    /\ MayEdit
    /\ \/ file # Torn /\ file' = Torn /\ UNCHANGED <<written, fragments>>
       \/ /\ file' = written + 1
          /\ written' = written + 1
          /\ fragments' = fragments \cup {written + 1}
    /\ Notified
    /\ UNCHANGED <<watch, queue, procVars, taskVars, liveVars>>

\* The rest of the file is written.
EndWrite ==
    /\ MayEdit
    /\ file = Torn \/ file \in fragments
    /\ file' = written + 1
    /\ written' = written + 1
    /\ Notified
    /\ UNCHANGED <<fragments, watch, queue, procVars, taskVars, liveVars>>

\* A new file takes the name.  The old inode loses its last link, which is
\* one more event, and the watch stays with it.
Rename ==
    /\ MayEdit
    /\ file' = written + 1
    /\ written' = written + 1
    /\ Notified
    /\ watch' = IF watch = "file" THEN "orphan" ELSE watch
    /\ UNCHANGED <<fragments, queue, procVars, taskVars, liveVars>>

-----------------------------------------------------------------------------
(* The process starts and ends.                                            *)

\* GatewayConfig::load.  A missing auth.toml is skipped, which leaves the
\* fields without a value; that, and a file that does not parse, are errors,
\* and so is anything wrong with config.toml or the environment.  For any error
\* main takes the built-in defaults, software backend included.  A fragment is
\* loaded like any version.
Load ==
    /\ proc = "down"
    /\ starts < MaxStarts
    /\ starts' = starts + 1
    /\ proc' = "loaded"
    /\ \E version \in {Default} \cup ({file} \cap Versions) :
        /\ keys' = version
        /\ auth' = version
        /\ backend' \in IF version = Default THEN {"software"} ELSE Backends
        /\ missed' = IF version = Default /\ file \in Nat THEN "yes" ELSE "no"
    /\ lagging' = "no"
    /\ UNCHANGED <<diskVars, watchVars, taskVars>>

\* The process ends, whatever it was doing.
Die ==
    /\ proc' = "down"
    /\ keys' = Down /\ auth' = Down
    /\ watch' = "none" /\ events' = 0 /\ queue' = 0
    /\ task' = "receiving" /\ loaded' = 0
    /\ lagging' = "no" /\ missed' = "no"
    /\ UNCHANGED <<diskVars, starts, backend>>

\* watch() fails when the file is not there, and main returns the error.
Watch ==
    /\ proc = "loaded"
    /\ IF file = Missing
         THEN Die
         ELSE /\ proc' = "running"
              /\ watch' = "file"
              /\ UNCHANGED <<diskVars, events, queue, starts, backend, taskVars, liveVars, missed>>

\* A crash, a kill, or a failing create_backend.
Crash == proc # "down" /\ Die

-----------------------------------------------------------------------------
(* The watcher thread and the reload task.                                 *)

\* Mutation of Send: the channel has no bound.
SendUnbounded ==
    /\ events > 0
    /\ events' = events - 1
    /\ queue' = queue + 1
    /\ UNCHANGED <<diskVars, watch, procVars, taskVars, liveVars, missed>>

\* The callback sends one message per event; blocking_send waits for room.
Send ==
    /\ events > 0
    /\ queue < ChannelCapacity
    /\ events' = events - 1
    /\ queue' = queue + 1
    /\ UNCHANGED <<diskVars, watch, procVars, taskVars, liveVars, missed>>

Receive ==
    /\ task = "receiving"
    /\ queue > 0
    /\ queue' = queue - 1
    /\ task' = "debouncing"
    /\ UNCHANGED <<diskVars, watch, events, procVars, loaded, liveVars, missed>>

\* 200 ms later: try_recv until the channel is empty.
Drain ==
    /\ task = "debouncing"
    /\ queue' = 0
    /\ task' = "reading"
    /\ UNCHANGED <<diskVars, watch, events, procVars, loaded, liveVars, missed>>

\* load_keys_file: auth.toml alone, without config.toml and environment.  A
\* file that does not parse, is missing or not complete on its own leaves
\* everything as it is; a fragment is read like any version.
ReadFile ==
    /\ task = "reading"
    /\ IF file \in Nat \ Partial
         THEN task' = "reloading" /\ loaded' = file
         ELSE task' = "receiving" /\ UNCHANGED loaded
    /\ UNCHANGED <<diskVars, watchVars, procVars, liveVars, missed>>

\* Mutation of ReloadKeys: the rules are replaced before the registry.
RulesFirst ==
    /\ task = "reloading"
    /\ task' = "installing"
    /\ auth' = loaded
    /\ UNCHANGED <<diskVars, watchVars, procVars, loaded, keys, lagging, missed>>

\* HsmBackend::reload_keys.  The cluster backend does nothing; the software
\* backend replaces its map, or fails over a key file and keeps it.
ReloadKeys ==
    /\ task = "reloading"
    /\ task' = "installing"
    /\ \/ backend = "software" /\ keys' = loaded /\ lagging' = "no"
       \/ lagging' = "yes" /\ UNCHANGED keys
    /\ UNCHANGED <<diskVars, watchVars, procVars, loaded, auth, missed>>

\* Mutations of InstallAuth: the channel is drained at the end of a reload; the
\* rules are read again instead of those read with the keys; the rules are left
\* to the next reload if there is one to come.
InstallThenDrain ==
    /\ task = "installing"
    /\ task' = "receiving"
    /\ auth' = loaded
    /\ queue' = 0
    /\ UNCHANGED <<diskVars, watch, events, procVars, loaded, keys, lagging, missed>>

InstallRereads ==
    /\ task = "installing"
    /\ task' = "receiving"
    /\ auth' = IF file \in Nat THEN file ELSE loaded
    /\ UNCHANGED <<diskVars, watchVars, procVars, loaded, keys, lagging, missed>>

InstallUnlessSuperseded ==
    /\ task = "installing"
    /\ task' = "receiving"
    /\ auth' = IF queue > 0 THEN auth ELSE loaded
    /\ UNCHANGED <<diskVars, watchVars, procVars, loaded, keys, lagging, missed>>

\* Whatever reload_keys returned, the rules are replaced and the reload is
\* logged as done.
InstallAuth ==
    /\ task = "installing"
    /\ task' = "receiving"
    /\ auth' = loaded
    /\ UNCHANGED <<diskVars, watchVars, procVars, loaded, keys, lagging, missed>>

-----------------------------------------------------------------------------

Edit == WriteSome \/ EndWrite \/ Rename

ReloadTask == Receive \/ Drain \/ ReadFile \/ ReloadKeys \/ InstallAuth

Next == Edit \/ Load \/ Watch \/ Crash \/ Send \/ ReloadTask

Spec == Init /\ [][Next]_vars

\* The watcher's thread and the task run whenever they can; main goes on from
\* the load to the watch.  Editors, crashes and restarts owe nothing.
FairSpec == Spec /\ WF_vars(Watch) /\ WF_vars(Send) /\ WF_vars(ReloadTask)

-----------------------------------------------------------------------------
(* What hot reload promises.                                               *)

\* Versions are ordered by when they were written; the defaults come first.
NotOlder(v, w) == w = Default \/ w = Down \/ (w \in Nat /\ v \in Nat /\ v >= w)

\* The auth rules never name keys the registry does not know of yet: the
\* registry is at least as new as the rules, also in the middle of a reload,
\* after a failed parse and across restarts, unless the last reload could not
\* replace it.  (order of main.rs 174 and 177)
KeysNotBehindAuth == lagging = "no" => NotOlder(keys, auth)

\* A reload that reached the registry reaches the rules, whatever came of it:
\* between reloads the rules are at least as new as the registry.  (main.rs
\* 174-177)
AuthNotBehindKeys == task # "installing" => NotOlder(auth, keys)

\* No update is lost between event, channel, debounce and read: while the
\* rules differ from a file that a reload can read, an event, a message or a
\* reload that will read the file, or has read this version of it, is under way;
\* a fragment in force is followed by the rest of the file.  Only a version that
\* the start did not take, or that came between load and watch, is missed, and
\* nothing is promised when a rename has taken the file from the watch.
\* (main.rs 151-177)
UpdateOnItsWay ==
    proc = "running" /\ watch = "file" /\ missed = "no" /\ file \in Nat \ Partial /\ auth # file
      => \/ events > 0 \/ queue > 0
         \/ task \in {"debouncing", "reading"}
         \/ task \in {"reloading", "installing"} /\ loaded = file

\* The version is in the rules for good from some time on, and in the registry
\* too unless it lags behind.
InForce(v) == <>[](auth = v /\ (lagging = "no" => keys = v))

\* A version that stays in the file comes into force, through half-written
\* files, a full channel, merged events, failing reloads of the registry and
\* restarts, as long as the watch is on the file; a version that the start did
\* not take, or that came between load and watch, waits for the next change.
\* (watcher, debounce and read of main.rs 151-183)
LiveFollowsWatchedFile ==
    \A v \in Versions \ Partial :
        <>[](proc = "running" /\ watch = "file" /\ missed = "no" /\ file = v) => InForce(v)

\* Handlers see, in each cell, a version that the file had (or the defaults),
\* the registry replaced first unless it lags behind, and never an older version
\* again within a process; a fragment counts as a version.
Live == INSTANCE LiveConfig
ImplementsLiveConfig == Live!LiveSpec

-----------------------------------------------------------------------------
(* What a comment says of hot reload, and the code does not do.            *)

\* The file gets this version, and keeps it, while a process is up.
ChangesWhileUp(v) == proc # "down" /\ file # v /\ [](proc # "down") /\ <>[](file = v)

\* The rules are updated when auth.toml changes, however it is changed, and at
\* whatever time from the load on.  (main.rs:39)
LiveFollowsFile == \A v \in Versions : [](ChangesWhileUp(v) => <>[](auth = v))

=============================================================================
