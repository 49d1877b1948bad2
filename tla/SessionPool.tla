---------------------------- MODULE SessionPool ----------------------------
(***************************************************************************)
(* The PKCS#11 session pool of the HSM cluster backend (hsm/cluster.rs):   *)
(* the deadpool pool, its SessionManager, the retry loop of with_session   *)
(* and the closures that sign, verify and public_key run on a session.     *)
(*                                                                         *)
(* A call is one execution of with_session.  It waits for a permit of the  *)
(* pool, takes an idle session or has one created on tokio's blocking      *)
(* thread pool, runs its closure, hands the session back and, when the     *)
(* closure failed with a ClusterError, sleeps and tries again.  A caller   *)
(* that goes away drops the future at one of its await points; a creation  *)
(* that is already running on the blocking pool is not stopped by that.    *)
(*                                                                         *)
(* deadpool is external.  The code builds the pool with a size and nothing *)
(* else, so there is no timeout, and the order in which idle sessions are  *)
(* handed out (FIFO by default) is abstracted to any order.                *)
(***************************************************************************)
EXTENDS Naturals, FiniteSets

CONSTANTS
    Calls,         \* the executions of with_session
    Sessions,      \* the session handles the token can hand out
    PoolSize,      \* HsmClusterConfig.pool_size
    RetryAttempts, \* HsmClusterConfig.retry_attempts
    Ops,           \* the operations the calls perform
    MaxFailovers,  \* bound: how often the token is lost
    NoSession      \* no handle

ASSUME PoolAssumption ==
    /\ IsFiniteSet(Calls)
    /\ PoolSize \in Nat
    /\ RetryAttempts \in Nat
    /\ Ops \subseteq {"sign", "verify", "public_key"}
    /\ MaxFailovers \in Nat
    /\ NoSession \notin Sessions

VARIABLES
    hsm,       \* whether the token answers
    failovers, \* how often it has been lost so far
    session,   \* the state of each handle, as the token and the gateway see it
    permits,   \* free permits of the pool's semaphore
    idle,      \* sessions in the pool's queue
    pc,        \* where each call is
    op,        \* what each call performs
    attempt,   \* the loop counter of with_session
    held,      \* the handle a call, or its creation job, owns
    job,       \* the spawn_blocking closure of SessionManager::create
    result     \* what the call returned

callVars == <<pc, op, attempt, held, job, result>>
poolVars == <<permits, idle>>
hsmVars  == <<hsm, failovers>>
vars     == <<hsmVars, session, poolVars, callVars>>

-----------------------------------------------------------------------------

\* "open": not logged in yet; "in": usable; "lost": the token forgot the
\* session, the gateway still has the handle.
HandleStates == {"closed", "open", "in", "lost"}
Places  == {"idle", "waiting", "creating", "looking_up", "using", "sleeping", "done"}
JobStates == {"none", "opening", "logging_in", "ready", "failed"}
\* OpFailed stands for SigningFailed and VerificationFailed.
Results == {"none", "Ok", "KeyNotFound", "OpFailed", "ClusterError", "Cancelled"}

\* Type invariant.
TypeOK ==
    /\ hsm \in {"up", "down"}
    /\ failovers \in 0..MaxFailovers
    /\ session \in [Sessions -> HandleStates]
    /\ permits \in Nat
    /\ idle \in SUBSET Sessions
    /\ pc \in [Calls -> Places]
    /\ op \in [Calls -> Ops \cup {"none"}]
    /\ attempt \in [Calls -> 0..RetryAttempts]
    /\ held \in [Calls -> Sessions \cup {NoSession}]
    /\ job \in [Calls -> JobStates]
    /\ result \in [Calls -> Results]

Init ==
    /\ hsm = "up"
    /\ failovers = 0
    /\ session = [s \in Sessions |-> "closed"]
    /\ permits = PoolSize
    /\ idle = {}
    /\ pc = [c \in Calls |-> "idle"]
    /\ op = [c \in Calls |-> "none"]
    /\ attempt = [c \in Calls |-> 0]
    /\ held = [c \in Calls |-> NoSession]
    /\ job = [c \in Calls |-> "none"]
    /\ result = [c \in Calls |-> "none"]

-----------------------------------------------------------------------------
(* The calls.                                                              *)

Goto(c, place) == pc' = [pc EXCEPT ![c] = place]

Settle(c, value) ==
    /\ Goto(c, "done")
    /\ result' = [result EXCEPT ![c] = value]

\* sign, verify or public_key found the key id in its registry and enters
\* with_session, which at once asks the pool for a session.
Begin(c, o) ==
    /\ pc[c] = "idle"
    /\ op' = [op EXCEPT ![c] = o]
    /\ Goto(c, "waiting")
    /\ UNCHANGED <<hsmVars, session, poolVars, attempt, held, job, result>>

\* The key id is not in the registry: the pool is never asked.
Unregistered(c, o) ==
    /\ pc[c] = "idle"
    /\ op' = [op EXCEPT ![c] = o]
    /\ Settle(c, "KeyNotFound")
    /\ UNCHANGED <<hsmVars, session, poolVars, attempt, held, job>>

\* Mutation of CheckOut: the session stays in the queue while it is used.
CheckOutShared(c) ==
    /\ pc[c] = "waiting"
    /\ permits > 0
    /\ \E s \in idle : held' = [held EXCEPT ![c] = s]
    /\ permits' = permits - 1
    /\ Goto(c, "looking_up")
    /\ UNCHANGED <<hsmVars, session, idle, op, attempt, job, result>>

\* Pool::get with a permit and an idle session.  recycle() returns Ok(())
\* without looking at the session, so any idle session is handed out.
CheckOut(c) ==
    /\ pc[c] = "waiting"
    /\ permits > 0
    /\ \E s \in idle :
        /\ idle' = idle \ {s}
        /\ held' = [held EXCEPT ![c] = s]
    /\ permits' = permits - 1
    /\ Goto(c, "looking_up")
    /\ UNCHANGED <<hsmVars, session, op, attempt, job, result>>

\* Pool::get with a permit and no idle session: create() is spawned.
StartCreate(c) ==
    /\ pc[c] = "waiting"
    /\ permits > 0
    /\ idle = {}
    /\ permits' = permits - 1
    /\ job' = [job EXCEPT ![c] = "opening"]
    /\ Goto(c, "creating")
    /\ UNCHANGED <<hsmVars, session, idle, op, attempt, held, result>>

\* create() returned a session.
Created(c) ==
    /\ pc[c] = "creating"
    /\ job[c] = "ready"
    /\ job' = [job EXCEPT ![c] = "none"]
    /\ Goto(c, "looking_up")
    /\ UNCHANGED <<hsmVars, session, poolVars, op, attempt, held, result>>

\* create() failed.  pool.get() fails, the permit goes back, and the ? of
\* with_session returns the error whatever the attempt.
CreateFailed(c) ==
    /\ pc[c] = "creating"
    /\ job[c] = "failed"
    /\ job' = [job EXCEPT ![c] = "none"]
    /\ permits' = permits + 1
    /\ Settle(c, "ClusterError")
    /\ UNCHANGED <<hsmVars, session, idle, op, attempt, held>>

\* Mutations of Return: the permit is kept; the session is forgotten; the call
\* keeps using the session it gave back.
ReturnKeepsPermit(c) ==
    /\ idle' = idle \cup {held[c]}
    /\ held' = [held EXCEPT ![c] = NoSession]
    /\ UNCHANGED permits

ReturnForgetsSession(c) ==
    /\ permits' = permits + 1
    /\ held' = [held EXCEPT ![c] = NoSession]
    /\ UNCHANGED idle

ReturnKeepsHandle(c) ==
    /\ idle' = idle \cup {held[c]}
    /\ permits' = permits + 1
    /\ UNCHANGED held

\* Object::drop: the session goes to the queue and its permit to the semaphore.
Return(c) ==
    /\ idle' = idle \cup {held[c]}
    /\ permits' = permits + 1
    /\ held' = [held EXCEPT ![c] = NoSession]

\* The closure returned Ok, or an error that is not retried.
Reply(c, value) ==
    /\ Return(c)
    /\ Settle(c, value)
    /\ UNCHANGED <<hsmVars, session, op, attempt, job>>

\* Mutation of AttemptFailed: the loop makes one turn too many.
AttemptFailedOffByOne(c) ==
    /\ Return(c)
    /\ IF attempt[c] <= RetryAttempts
         THEN Goto(c, "sleeping") /\ UNCHANGED result
         ELSE Settle(c, "ClusterError")
    /\ UNCHANGED <<hsmVars, session, op, attempt, job>>

\* Mutation of AttemptFailed: the loop makes one turn too few.
AttemptFailedTooEarly(c) ==
    /\ Return(c)
    /\ IF attempt[c] + 1 < RetryAttempts
         THEN Goto(c, "sleeping") /\ UNCHANGED result
         ELSE Settle(c, "ClusterError")
    /\ UNCHANGED <<hsmVars, session, op, attempt, job>>

\* The closure returned a ClusterError: the session goes back before the
\* loop sleeps, or before the last error is returned.
AttemptFailed(c) ==
    /\ Return(c)
    /\ IF attempt[c] < RetryAttempts
         THEN Goto(c, "sleeping") /\ UNCHANGED result
         ELSE Settle(c, "ClusterError")
    /\ UNCHANGED <<hsmVars, session, op, attempt, job>>

\* find_private_key or find_public_key: C_FindObjects on a lost session is a
\* ClusterError, a label that is not on the token is a KeyNotFound.
LookUp(c) ==
    /\ pc[c] = "looking_up"
    /\ \/ /\ session[held[c]] = "in"
          /\ Goto(c, "using")
          /\ UNCHANGED <<hsmVars, session, poolVars, op, attempt, held, job, result>>
       \/ /\ session[held[c]] = "in"
          /\ Reply(c, "KeyNotFound")
       \/ /\ session[held[c]] = "lost"
          /\ AttemptFailed(c)

\* Mutation of SignOrVerify: its errors are retried like those of the lookup.
SignOrVerifyRetried(c) ==
    /\ pc[c] = "using"
    /\ op[c] \in {"sign", "verify"}
    /\ \/ session[held[c]] = "in" /\ Reply(c, "Ok")
       \/ AttemptFailed(c)

\* C_Sign or C_Verify.  Whatever error it returns (the mechanism does not fit
\* the key, or the session is lost) is a SigningFailed or VerificationFailed.
SignOrVerify(c) ==
    /\ pc[c] = "using"
    /\ op[c] \in {"sign", "verify"}
    /\ \/ session[held[c]] = "in" /\ Reply(c, "Ok")
       \/ Reply(c, "OpFailed")

\* export_public_key_pem after the lookup: a failing C_GetAttributeValue and a
\* public key without CKA_VALUE are both a ClusterError.
ExportKey(c) ==
    /\ pc[c] = "using"
    /\ op[c] = "public_key"
    /\ \/ session[held[c]] = "in" /\ Reply(c, "Ok")
       \/ AttemptFailed(c)

\* The retry delay is over: the next turn of the loop asks the pool again.
Wake(c) ==
    /\ pc[c] = "sleeping"
    /\ attempt' = [attempt EXCEPT ![c] = @ + 1]
    /\ Goto(c, "waiting")
    /\ UNCHANGED <<hsmVars, session, poolVars, op, held, job, result>>

\* The future is dropped while it waits for a permit or sleeps.
CancelWait(c) ==
    /\ pc[c] \in {"waiting", "sleeping"}
    /\ Settle(c, "Cancelled")
    /\ UNCHANGED <<hsmVars, session, poolVars, op, attempt, held, job>>

\* Mutation of DropSession: the handle is dropped without C_CloseSession.
DropWithoutClose(c) ==
    /\ held' = [held EXCEPT ![c] = NoSession]
    /\ UNCHANGED session

\* Session::drop closes the session.
DropSession(c) ==
    /\ session' = [session EXCEPT ![held[c]] = "closed"]
    /\ held' = [held EXCEPT ![c] = NoSession]

\* The future is dropped while create() runs: the permit goes back at once; a
\* finished session is closed with the JoinHandle, an unfinished job runs on.
CancelCreate(c) ==
    /\ pc[c] = "creating"
    /\ permits' = permits + 1
    /\ Settle(c, "Cancelled")
    /\ IF job[c] = "ready" THEN DropSession(c) ELSE UNCHANGED <<session, held>>
    /\ job' = [job EXCEPT ![c] = IF @ \in {"ready", "failed"} THEN "none" ELSE @]
    /\ UNCHANGED <<hsmVars, idle, op, attempt>>

-----------------------------------------------------------------------------
(* SessionManager::create, on a thread of the blocking pool.  The output   *)
(* of a job nobody waits for any more is dropped when the job ends.        *)

Awaited(c) == pc[c] = "creating"

EndJob(c, outcome) ==
    job' = [job EXCEPT ![c] = IF Awaited(c) THEN outcome ELSE "none"]

\* open_rw_session: fails while the token does not answer or when it has no
\* session left.
OpenSession(c) ==
    /\ job[c] = "opening"
    /\ hsm = "up"
    /\ \E s \in Sessions :
        /\ session[s] = "closed"
        /\ session' = [session EXCEPT ![s] = "open"]
        /\ held' = [held EXCEPT ![c] = s]
    /\ job' = [job EXCEPT ![c] = "logging_in"]
    /\ UNCHANGED <<hsmVars, poolVars, pc, op, attempt, result>>

OpenFails(c) ==
    /\ job[c] = "opening"
    /\ hsm = "down" \/ \A s \in Sessions : session[s] # "closed"
    /\ EndJob(c, "failed")
    /\ UNCHANGED <<hsmVars, session, poolVars, pc, op, attempt, held, result>>

\* C_Login.  PKCS#11 keeps one login state for all the sessions an application
\* has on a token: while one of them is logged in, the login of another may be
\* answered CKR_USER_ALREADY_LOGGED_IN.  (A token, or a library in front of it,
\* may be lenient: then it succeeds.)
LoggedIn == \E t \in Sessions : session[t] = "in"

LoginAccepted(s) == session[s] = "open"
LoginRefused(s)  == session[s] # "open" \/ LoggedIn

\* The session is ready, or is closed again when nobody waits for it.
LogIn(c) ==
    /\ job[c] = "logging_in"
    /\ LoginAccepted(held[c])
    /\ EndJob(c, "ready")
    /\ IF Awaited(c)
         THEN session' = [session EXCEPT ![held[c]] = "in"] /\ UNCHANGED held
         ELSE DropSession(c)
    /\ UNCHANGED <<hsmVars, poolVars, pc, op, attempt, result>>

\* The login failed: the session is dropped, which closes it.
LoginFails(c) ==
    /\ job[c] = "logging_in"
    /\ LoginRefused(held[c])
    /\ EndJob(c, "failed")
    /\ DropSession(c)
    /\ UNCHANGED <<hsmVars, poolVars, pc, op, attempt, result>>

-----------------------------------------------------------------------------
(* The token.                                                              *)

\* The token is lost, with every session that was open on it.
Failover ==
    /\ hsm = "up"
    /\ failovers < MaxFailovers
    /\ hsm' = "down"
    /\ failovers' = failovers + 1
    /\ session' = [s \in Sessions |-> IF session[s] = "closed" THEN "closed" ELSE "lost"]
    /\ UNCHANGED <<poolVars, callVars>>

Recover ==
    /\ hsm = "down"
    /\ hsm' = "up"
    /\ UNCHANGED <<failovers, session, poolVars, callVars>>

-----------------------------------------------------------------------------

Finished ==
    /\ \A c \in Calls : pc[c] = "done" /\ job[c] = "none"
    /\ UNCHANGED vars

CreateJob(c) == OpenSession(c) \/ OpenFails(c) \/ LogIn(c) \/ LoginFails(c)

\* The steps of a call that nothing but itself decides.
Proceed(c) ==
    \/ Created(c) \/ CreateFailed(c)
    \/ LookUp(c) \/ SignOrVerify(c) \/ ExportKey(c)
    \/ Wake(c)

GetPermit(c) == CheckOut(c) \/ StartCreate(c)

Next ==
    \/ \E c \in Calls :
        \/ \E o \in Ops : Begin(c, o) \/ Unregistered(c, o)
        \/ GetPermit(c)
        \/ Proceed(c)
        \/ CancelWait(c) \/ CancelCreate(c)
        \/ CreateJob(c)
    \/ Failover
    \/ Recover
    \/ Finished

Spec == Init /\ [][Next]_vars

\* PKCS#11 calls return and tokio polls ready futures.  tokio's semaphore
\* serves its waiters in order, so a call that finds a permit free again and
\* again gets one: strong fairness.  Callers, and the token, owe nothing.
FairSpec ==
    /\ Spec
    /\ \A c \in Calls :
        /\ WF_vars(CreateJob(c))
        /\ WF_vars(Proceed(c))
        /\ SF_vars(GetPermit(c))

-----------------------------------------------------------------------------
(* What the pool promises.                                                 *)

\* Who owns what at each place: a call has a handle while its closure runs,
\* its job has one from open_rw_session on; only a call that waits for its
\* job, or has left it behind, has a job; a sleeping call has a retry left; a
\* call that is under way has no result.
\* (The part of the inductive invariant that ties control to data.)
Coherent ==
    \A c \in Calls :
        /\ held[c] # NoSession <=>
              pc[c] \in {"looking_up", "using"} \/ job[c] \in {"logging_in", "ready"}
        /\ job[c] # "none" => pc[c] \in {"creating", "done"}
        /\ job[c] \in {"ready", "failed"} => pc[c] = "creating"
        /\ pc[c] = "creating" => job[c] # "none"
        /\ pc[c] = "sleeping" => attempt[c] < RetryAttempts
        /\ pc[c] # "done" => result[c] = "none"

\* The calls that have a permit of the pool.
Permitted == {c \in Calls : pc[c] \in {"creating", "looking_up", "using"}}

\* Every permit is either free or with one call, whatever way calls end
\* (reply, failed creation, exhausted retries, dropped future), and the idle
\* sessions never outnumber the free permits: the pool neither shrinks nor
\* grows beyond pool_size.  (deadpool's semaphore and with_session's exits)
PermitsConserved ==
    /\ permits + Cardinality(Permitted) = PoolSize
    /\ Cardinality(idle) <= permits

\* A PKCS#11 session is used by one call at a time: two calls never own the
\* same handle, and a handle in the queue is nobody's.  (C_Sign on a session
\* another thread uses fails with CKR_OPERATION_ACTIVE.)
SessionsExclusive ==
    /\ \A c, d \in Calls : held[c] = held[d] /\ held[c] # NoSession => c = d
    /\ \A c \in Calls : held[c] \notin idle

\* No session stays open on the token without an owner that will use, return
\* or close it: a handle is open exactly when the queue, a call or a running
\* creation job has it.
NoHandleLeaked ==
    \A s \in Sessions :
        session[s] # "closed" <=> s \in idle \/ \E c \in Calls : held[c] = s

\* A session leaves its owner only for the queue or by being closed; it never
\* goes straight to another call.  (checkout and return of with_session)
HandedBackThroughPool ==
    [][\A c \in Calls :
          held[c] # NoSession /\ held'[c] # held[c]
            => held[c] \in idle' \/ session'[held[c]] = "closed"]_vars

\* No call has the token sign or verify twice: the retry loop starts again
\* only when the closure failed before C_Sign or C_Verify was called, so a
\* request never leaves two signatures. (with_session, SigningFailed)
SignsAtMostOnce ==
    [][\A c \in Calls :
          pc[c] = "using" /\ op[c] \in {"sign", "verify"} => pc'[c] \in {"using", "done"}]_vars

\* A call gives up with a ClusterError only when it has made every attempt, or
\* when the pool could not create a session for it. (with_session, ? of get)
GivesUpOnlyWhenExhausted ==
    [][\A c \in Calls :
          result'[c] = "ClusterError" /\ result[c] # "ClusterError"
            => attempt[c] = RetryAttempts \/ job[c] = "failed"]_vars

\* The token has answered throughout, and no caller has gone away.
Undisturbed == failovers = 0 /\ \A c \in Calls : result[c] # "Cancelled"

\* While nothing has disturbed it, a token that allows pool_size sessions always
\* has one left when the pool creates one: what fails a sign or a verify with a
\* ClusterError is a failed creation, and what fails a creation is a login that
\* came while another session was logged in - never a missing session, a lost
\* one or an exhausted retry, however many calls compete.  (create and
\* with_session)
HealthyFailuresAreLogins ==
    [][Undisturbed' =>
         \A c \in Calls :
            /\ op[c] \in {"sign", "verify"} /\ result[c] = "none" /\ result'[c] = "ClusterError"
                 => job[c] = "failed"
            /\ job[c] # "failed" /\ job'[c] = "failed"
                 => job[c] = "logging_in" /\ LoggedIn]_vars

\* Every call that entered with_session returns, even across failovers and
\* dropped callers: permits and retries never run dry for good.
CallsSettle ==
    \A c \in Calls : pc[c] = "waiting" ~> pc[c] = "done"

\* The pool implements SessionLease: a call has the session it runs its
\* closure on, and has none while it waits, sleeps or creates one.
Leases ==
    [c \in Calls |-> IF pc[c] \in {"looking_up", "using"} THEN held[c] ELSE NoSession]

Lease == INSTANCE SessionLease WITH lease <- Leases, outcome <- result

\* Every behaviour of the pool is one that SessionLease allows: pool_size
\* bounds the sessions in use, no two calls share one, a call ends once, and
\* never while it has a session. (with_session and its three callers)
ImplementsLease == Lease!LeaseSpec

-----------------------------------------------------------------------------
(* What comments say of the pool, and the code does not do.                *)

\* cluster.rs:116, 327: a session that the token lost in a failover is found
\* out by recycle() and replaced, not handed out.
LostSessionsReplaced ==
    [][\A c \in Calls :
          pc[c] = "waiting" /\ held'[c] \in idle => session[held'[c]] # "lost"]_vars

=============================================================================
