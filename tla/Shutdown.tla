------------------------------ MODULE Shutdown ------------------------------
(***************************************************************************)
(* The life of the process around its two servers (main.rs): main spawns   *)
(* the HTTP and the gRPC server as tasks, each server binds its port and   *)
(* then waits for a signal of its own, and select! lets main return when   *)
(* the first of the two tasks ends.  Returning drops the runtime, which    *)
(* drops every task at its next await and waits for what runs on a thread: *)
(* session creations in spawn_blocking and a reload writing key files.     *)
(*                                                                         *)
(* A signal is SIGINT or SIGTERM: shutdown_signal() treats them alike.     *)
(* The first call of shutdown_signal() to be polled installs the handlers  *)
(* for the whole process; until then a signal has its default effect, and  *)
(* from then on it reaches the calls that already wait and nobody else.    *)
(***************************************************************************)
EXTENDS Integers

CONSTANTS HttpRequests, GrpcRequests,   \* the requests clients send
          Slow,                         \* requests that may never finish
          MaxSignals                    \* bound: signals sent to the process

ASSUME RequestsAssumption == HttpRequests \cap GrpcRequests = {}
ASSUME MaxSignalsAssumption == MaxSignals \in Nat

Requests == HttpRequests \cup GrpcRequests
Servers == {"http", "grpc"}
RequestsOf(s) == IF s = "http" THEN HttpRequests ELSE GrpcRequests

VARIABLES main,      \* how far main is
          server,    \* the state of each server task
          request,   \* what became of each request
          job,       \* the session creation a request started, on a thread
          reload,    \* "writing" while a reload writes key files within one poll
          process,   \* "up", "exited" (main returned) or "killed"
          signals    \* signals sent so far

vars == <<main, server, request, job, reload, process, signals>>

TypeOK ==
    /\ main \in {"spawnHttp", "spawnGrpc", "select", "returned", "dropping"}
    /\ server \in [Servers -> {"none", "binding", "listening", "armed",
                               "draining", "stopped", "failed"}]
    /\ request \in [Requests -> {"new", "inFlight", "answered", "gone", "dropped"}]
    /\ job \in [Requests -> {"none", "running", "done"}]
    /\ reload \in {"idle", "writing"}
    /\ process \in {"up", "exited", "killed"}
    /\ signals \in 0 .. MaxSignals

Init ==
    /\ main = "spawnHttp"
    /\ server = [s \in Servers |-> "none"]
    /\ request = [r \in Requests |-> "new"]
    /\ job = [r \in Requests |-> "none"]
    /\ reload = "idle"
    /\ process = "up"
    /\ signals = 0

InFlight(s) == {r \in RequestsOf(s) : request[r] = "inFlight"}

\* Tasks are polled until main has returned and the runtime goes down.
Running == process = "up" /\ main # "dropping"

-----------------------------------------------------------------------------
(* main *)

SpawnHttp ==
    /\ process = "up" /\ main = "spawnHttp"
    /\ server' = [server EXCEPT !["http"] = "binding"]
    /\ main' = "spawnGrpc"
    /\ UNCHANGED <<request, job, reload, process, signals>>

SpawnGrpc ==
    /\ process = "up" /\ main = "spawnGrpc"
    /\ server' = [server EXCEPT !["grpc"] = "binding"]
    /\ main' = "select"
    /\ UNCHANGED <<request, job, reload, process, signals>>

Ended(s) == server[s] \in {"stopped", "failed"}

\* Variant: main waits for both tasks.
SelectBoth ==
    /\ process = "up" /\ main = "select"
    /\ \A s \in Servers : Ended(s)
    /\ main' = "returned"
    /\ UNCHANGED <<server, request, job, reload, process, signals>>

\* select! completes with whichever task ends first, by return or by panic.
Select ==
    /\ process = "up" /\ main = "select"
    /\ \E s \in Servers : Ended(s)
    /\ main' = "returned"
    /\ UNCHANGED <<server, request, job, reload, process, signals>>

\* #[tokio::main] drops the runtime: no task is polled again.
DropRuntime ==
    /\ process = "up" /\ main = "returned"
    /\ main' = "dropping"
    /\ UNCHANGED <<server, request, job, reload, process, signals>>

\* The task of a request is dropped at the await where it stands.
DropRequest(r) ==
    /\ process = "up" /\ main = "dropping"
    /\ request[r] = "inFlight"
    /\ request' = [request EXCEPT ![r] = "dropped"]
    /\ UNCHANGED <<main, server, job, reload, process, signals>>

\* The drop of the runtime waits for every thread.
Exit ==
    /\ process = "up" /\ main = "dropping"
    /\ \A r \in Requests : request[r] # "inFlight" /\ job[r] # "running"
    /\ reload = "idle"
    /\ process' = "exited"
    /\ UNCHANGED <<main, server, request, job, reload, signals>>

-----------------------------------------------------------------------------
(* One server task *)

Move(s, from, to) ==
    /\ Running
    /\ server[s] = from
    /\ server' = [server EXCEPT ![s] = to]
    /\ UNCHANGED <<main, request, job, reload, process, signals>>

Bind(s) == Move(s, "binding", "listening")

\* Variant: the task is left in a state of its own that nobody waits for.
BindPanics(s) == Move(s, "binding", "panicked")

\* The port is taken: unwrap() panics, which ends this task only.
BindFails(s) == Move(s, "binding", "failed")

\* shutdown_signal() is polled for the first time.
Arm(s) == Move(s, "listening", "armed")

Accept(s, r) ==
    /\ Running
    /\ server[s] \in {"listening", "armed"}
    /\ r \in RequestsOf(s) /\ request[r] = "new"
    /\ request' = [request EXCEPT ![r] = "inFlight"]
    /\ UNCHANGED <<main, server, job, reload, process, signals>>

\* Variant: a server aborts its connections at the signal.
StopAtOnce(s) == Move(s, "draining", "stopped")

\* Variant: a server waits for its clients to hang up.
StopWhenIdle(s) ==
    /\ \A r \in RequestsOf(s) : request[r] \in {"new", "gone"}
    /\ Move(s, "draining", "stopped")

\* The server's future completes when it has drained.
Stop(s) ==
    /\ InFlight(s) = {}
    /\ Move(s, "draining", "stopped")

-----------------------------------------------------------------------------
(* One request *)

\* Waiting for a session starts its creation on a blocking thread.
StartJob(r) ==
    /\ Running
    /\ request[r] = "inFlight" /\ job[r] = "none"
    /\ job' = [job EXCEPT ![r] = "running"]
    /\ UNCHANGED <<main, server, request, reload, process, signals>>

\* The thread ends, whether or not the request still waits for it.
EndJob(r) ==
    /\ process = "up"
    /\ job[r] = "running"
    /\ job' = [job EXCEPT ![r] = "done"]
    /\ UNCHANGED <<main, server, request, reload, process, signals>>

\* A poll that has begun ends, also while the runtime goes down.
Answer(r) ==
    /\ process = "up"
    /\ request[r] = "inFlight" /\ job[r] # "running"
    /\ request' = [request EXCEPT ![r] = "answered"]
    /\ UNCHANGED <<main, server, job, reload, process, signals>>

\* The client closes the connection: the handler is dropped, its job is not.
ClientGone(r) ==
    /\ Running
    /\ request[r] = "inFlight"
    /\ request' = [request EXCEPT ![r] = "gone"]
    /\ UNCHANGED <<main, server, job, reload, process, signals>>

-----------------------------------------------------------------------------
(* The reload task, and signals *)

\* The reload task runs from before the servers; no await interrupts the
\* writes of load_keys.
StartReload ==
    /\ Running
    /\ reload = "idle"
    /\ reload' = "writing"
    /\ UNCHANGED <<main, server, request, job, process, signals>>

EndReload ==
    /\ process = "up"
    /\ reload = "writing"
    /\ reload' = "idle"
    /\ UNCHANGED <<main, server, request, job, process, signals>>

HandlersInstalled ==
    \E s \in Servers : server[s] \in {"armed", "draining", "stopped"}

\* Every server that waits starts to drain; one that is not armed yet never
\* hears of this signal.
SignalHandled ==
    /\ process = "up" /\ signals < MaxSignals
    /\ HandlersInstalled
    /\ signals' = signals + 1
    /\ server' = [s \in Servers |->
                    IF server[s] = "armed" THEN "draining" ELSE server[s]]
    /\ UNCHANGED <<main, request, job, reload, process>>

SignalKills ==
    /\ process = "up" /\ signals < MaxSignals
    /\ ~HandlersInstalled
    /\ signals' = signals + 1
    /\ process' = "killed"
    /\ UNCHANGED <<main, server, request, job, reload>>

-----------------------------------------------------------------------------
Next ==
    \/ SpawnHttp \/ SpawnGrpc \/ Select \/ DropRuntime \/ Exit
    \/ \E s \in Servers : Bind(s) \/ BindFails(s) \/ Arm(s) \/ Stop(s)
    \/ \E s \in Servers, r \in Requests : Accept(s, r)
    \/ \E r \in Requests : StartJob(r) \/ EndJob(r) \/ Answer(r)
                             \/ ClientGone(r) \/ DropRequest(r)
    \/ StartReload \/ EndReload
    \/ SignalHandled \/ SignalKills

\* Ready tasks are polled, calls into the token and writes of files return,
\* and handlers finish, except those of Slow: a client that never completes
\* its body keeps its handler waiting.  No fairness on clients and signals.
Fairness ==
    /\ WF_vars(SpawnHttp) /\ WF_vars(SpawnGrpc)
    /\ WF_vars(Select) /\ WF_vars(DropRuntime) /\ WF_vars(Exit)
    /\ \A s \in Servers : WF_vars(Bind(s)) /\ WF_vars(Arm(s)) /\ WF_vars(Stop(s))
    /\ \A r \in Requests : WF_vars(EndJob(r)) /\ WF_vars(DropRequest(r))
    /\ \A r \in Requests \ Slow : WF_vars(Answer(r))
    /\ WF_vars(EndReload)

Spec == Init /\ [][Next]_vars /\ Fairness

-----------------------------------------------------------------------------
(* Properties *)

\* A request is cut off only because the other server ended first (main.rs,
\* select! of the two tasks): its own server has not, so a server that ended
\* by draining answered everything it accepted.
CutOffByTheOtherServer ==
    \A s \in Servers : \A r \in RequestsOf(s) :
        request[r] = "dropped" =>
            /\ ~Ended(s)
            /\ \E other \in Servers : Ended(other)

\* When one server has ended, by draining or because its port was taken, the
\* process does not live on with the other (main.rs, select!).
EndedServerEndsProcess ==
    (\E s \in Servers : Ended(s)) ~> process # "up"

\* A server that drains ends the process unless a slow request of its own
\* holds it, even when the other server missed the signal and never drains.
DrainingEndsProcess ==
    \A s \in Servers :
        (server[s] = "draining" /\ InFlight(s) \cap Slow = {}) ~> process # "up"

\* What the log lines of main.rs say: "draining connections" and then "shut
\* down cleanly".  Does not hold: main returns with the first server.
CleanShutdownAnswersAll ==
    process = "exited" /\ (\A s \in Servers : server[s] # "failed") =>
        \A r \in Requests : request[r] # "dropped"

=============================================================================
