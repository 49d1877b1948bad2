------------------------- MODULE SessionPoolProofs -------------------------
(***************************************************************************)
(* Proofs about SessionPool, for every number of calls and sessions, every *)
(* pool size and every number of retries.                                  *)
(*                                                                         *)
(* The inductive invariant is built in three layers, each proved with the  *)
(* ones below it: the types and who owns a handle at which place           *)
(* (Control), exclusive ownership (Ownership), and the count of permits    *)
(* (PermitsConserved, with IdleFinite).  On top of them, Healthy says what *)
(* the pool is like while nothing has disturbed it, for OnlyLoginsFail.    *)
(***************************************************************************)
EXTENDS SessionPool, FiniteSetTheorems, TLAPS

Control == TypeOK /\ Coherent

Ownership == SessionsExclusive /\ NoHandleLeaked

-----------------------------------------------------------------------------
(* Layer 1: types, and the places where a call owns a handle.              *)

\* At the start no call has begun, and none owns a handle or a job.
LEMMA InitControl == Init => Control
BY PoolAssumption DEF Init, Control, TypeOK, Coherent, HandleStates, Places,
   JobStates, Results

\* Every step keeps the types and the link between place, job and handle.
LEMMA ControlStep == Control /\ [Next]_vars => Control'
<1> SUFFICES ASSUME Control, [Next]_vars PROVE Control'
  OBVIOUS
<1> USE PoolAssumption DEF Control, TypeOK, Coherent, HandleStates, Places, JobStates, Results,
        callVars, poolVars, hsmVars, Goto, Settle
<1>1. ASSUME NEW c \in Calls, NEW o \in Ops, Begin(c, o) PROVE Control'
  BY <1>1 DEF Begin
<1>2. ASSUME NEW c \in Calls, NEW o \in Ops, Unregistered(c, o) PROVE Control'
  BY <1>2 DEF Unregistered
<1>3. ASSUME NEW c \in Calls, CheckOut(c) PROVE Control'
  BY <1>3 DEF CheckOut
<1>4. ASSUME NEW c \in Calls, StartCreate(c) PROVE Control'
  BY <1>4 DEF StartCreate
<1>5. ASSUME NEW c \in Calls, Created(c) PROVE Control'
  BY <1>5 DEF Created
<1>6. ASSUME NEW c \in Calls, CreateFailed(c) PROVE Control'
  BY <1>6 DEF CreateFailed
<1>7. ASSUME NEW c \in Calls, LookUp(c) PROVE Control'
  BY <1>7 DEF LookUp, Reply, AttemptFailed, Return
<1>8. ASSUME NEW c \in Calls, SignOrVerify(c) PROVE Control'
  BY <1>8 DEF SignOrVerify, Reply, Return
<1>9. ASSUME NEW c \in Calls, ExportKey(c) PROVE Control'
  BY <1>9 DEF ExportKey, Reply, AttemptFailed, Return
<1>10. ASSUME NEW c \in Calls, Wake(c) PROVE Control'
  BY <1>10 DEF Wake
<1>11. ASSUME NEW c \in Calls, CancelWait(c) PROVE Control'
  BY <1>11 DEF CancelWait
<1>12. ASSUME NEW c \in Calls, CancelCreate(c) PROVE Control'
  BY <1>12 DEF CancelCreate, DropSession
<1>13. ASSUME NEW c \in Calls, OpenSession(c) PROVE Control'
  BY <1>13 DEF OpenSession
<1>14. ASSUME NEW c \in Calls, OpenFails(c) PROVE Control'
  BY <1>14 DEF OpenFails, EndJob, Awaited
<1>15. ASSUME NEW c \in Calls, LogIn(c) PROVE Control'
  BY <1>15 DEF LogIn, EndJob, Awaited, DropSession
<1>16. ASSUME NEW c \in Calls, LoginFails(c) PROVE Control'
  BY <1>16 DEF LoginFails, EndJob, Awaited, DropSession
<1>17. CASE Failover
  BY <1>17 DEF Failover
<1>18. CASE Recover
  BY <1>18 DEF Recover
<1>19. CASE UNCHANGED vars
  BY <1>19 DEF vars
<1> QED
  BY <1>1, <1>2, <1>3, <1>4, <1>5, <1>6, <1>7, <1>8, <1>9, <1>10, <1>11, <1>12,
     <1>13, <1>14, <1>15, <1>16, <1>17, <1>18, <1>19
     DEF Next, GetPermit, Proceed, CreateJob, Finished

-----------------------------------------------------------------------------
(* Layer 2: a handle has one owner, and an open handle has an owner.       *)

\* At the start no handle is open, so none needs an owner.
LEMMA InitOwnership == Init => Ownership
BY PoolAssumption DEF Init, Ownership, SessionsExclusive, NoHandleLeaked

\* Only OpenSession and CheckOut give a call a handle, and both take it from
\* where nobody else has it; only Return and DropSession take one away.
LEMMA OwnershipStep == Control /\ Ownership /\ [Next]_vars => Ownership'
<1> SUFFICES ASSUME Control, Ownership, [Next]_vars PROVE Ownership'
  OBVIOUS
<1> USE PoolAssumption DEF Control, TypeOK, Coherent, Ownership, SessionsExclusive,
        NoHandleLeaked, callVars, poolVars, hsmVars
<1>1. ASSUME UNCHANGED <<session, idle, held>> PROVE Ownership'
  BY <1>1
<1>2. ASSUME NEW c \in Calls, held[c] # NoSession, UNCHANGED session, Return(c)
      PROVE  Ownership'
  BY <1>2 DEF Return
<1>3. ASSUME NEW c \in Calls, held[c] # NoSession, UNCHANGED idle, DropSession(c)
      PROVE  Ownership'
  BY <1>3 DEF DropSession
<1>4. ASSUME NEW c \in Calls, CheckOut(c) PROVE Ownership'
  BY <1>4 DEF CheckOut
<1>5. ASSUME NEW c \in Calls, LookUp(c) PROVE Ownership'
  BY <1>1, <1>2, <1>5 DEF LookUp, Reply, AttemptFailed
<1>6. ASSUME NEW c \in Calls, SignOrVerify(c) PROVE Ownership'
  BY <1>2, <1>6 DEF SignOrVerify, Reply
<1>7. ASSUME NEW c \in Calls, ExportKey(c) PROVE Ownership'
  BY <1>2, <1>7 DEF ExportKey, Reply, AttemptFailed
<1>8. ASSUME NEW c \in Calls, CancelCreate(c) PROVE Ownership'
  BY <1>1, <1>3, <1>8 DEF CancelCreate
<1>9. ASSUME NEW c \in Calls, OpenSession(c) PROVE Ownership'
  BY <1>9 DEF OpenSession
<1>10. ASSUME NEW c \in Calls, LogIn(c) PROVE Ownership'
  <2>1. held[c] # NoSession /\ session[held[c]] = "open"
    BY <1>10 DEF LogIn, LoginAccepted
  <2>2. CASE Awaited(c)
    BY <1>10, <2>1, <2>2 DEF LogIn
  <2>3. CASE ~Awaited(c)
    BY <1>3, <1>10, <2>1, <2>3 DEF LogIn
  <2> QED
    BY <2>2, <2>3
<1>11. ASSUME NEW c \in Calls, LoginFails(c) PROVE Ownership'
  BY <1>3, <1>11 DEF LoginFails
<1>12. CASE Failover
  BY <1>12 DEF Failover
<1>13. ASSUME NEW c \in Calls,
              \/ \E o \in Ops : Begin(c, o) \/ Unregistered(c, o)
              \/ StartCreate(c) \/ Created(c) \/ CreateFailed(c) \/ Wake(c)
              \/ CancelWait(c) \/ OpenFails(c)
       PROVE  Ownership'
  BY <1>1, <1>13 DEF Begin, Unregistered, StartCreate, Created, CreateFailed, Wake,
     CancelWait, OpenFails
<1>14. CASE Recover \/ UNCHANGED vars
  BY <1>1, <1>14 DEF Recover, vars
<1> QED
  BY <1>4, <1>5, <1>6, <1>7, <1>8, <1>9, <1>10, <1>11, <1>12, <1>13, <1>14
     DEF Next, GetPermit, Proceed, CreateJob, Finished

-----------------------------------------------------------------------------
(* Layer 3: the permits.                                                   *)

IdleFinite == IsFiniteSet(idle)

\* At the start every permit is free and the queue is empty.
LEMMA InitPermits == Init => IdleFinite /\ PermitsConserved
<1> SUFFICES ASSUME Init PROVE IdleFinite /\ PermitsConserved
  OBVIOUS
<1>1. Permitted = {}
  BY DEF Init, Permitted
<1> QED
  BY <1>1, FS_EmptySet, PoolAssumption DEF Init, IdleFinite, PermitsConserved

\* Calls are finitely many, so those with a permit can be counted, and one
\* call more or less changes the count by one.
LEMMA PermittedCount ==
  /\ IsFiniteSet(Permitted)
  /\ Cardinality(Permitted) \in Nat
  /\ \A c \in Calls :
       /\ c \notin Permitted =>
            Cardinality(Permitted \cup {c}) = Cardinality(Permitted) + 1
       /\ c \in Permitted =>
            Cardinality(Permitted \ {c}) = Cardinality(Permitted) - 1
<1>1. IsFiniteSet(Permitted)
  BY FS_Subset, PoolAssumption DEF Permitted
<1> QED
  BY <1>1, FS_CardinalityType, FS_AddElement, FS_RemoveElement

\* A call takes a permit when it enters Permitted and gives one back when it
\* leaves; a session joins the queue only along with a permit.
LEMMA PermitsStep ==
  Control /\ Ownership /\ IdleFinite /\ PermitsConserved /\ [Next]_vars
    => IdleFinite' /\ PermitsConserved'
<1> SUFFICES ASSUME Control, Ownership, IdleFinite, PermitsConserved, [Next]_vars
             PROVE  IdleFinite' /\ PermitsConserved'
  OBVIOUS
<1> DEFINE Goal == IdleFinite' /\ PermitsConserved'
<1>t. /\ permits \in Nat
      /\ pc \in [Calls -> Places]
      /\ Cardinality(idle) \in Nat
  BY FS_CardinalityType DEF Control, TypeOK, IdleFinite
<1>1. ASSUME Permitted' = Permitted, UNCHANGED <<permits, idle>> PROVE Goal
  BY <1>1 DEF IdleFinite, PermitsConserved
<1>2. ASSUME NEW c \in Calls, c \in Permitted, Permitted' = Permitted \ {c},
             permits' = permits + 1, UNCHANGED idle
      PROVE  Goal
  BY <1>t, <1>2, PermittedCount DEF IdleFinite, PermitsConserved
<1>3. ASSUME NEW c \in Calls, c \in Permitted, Permitted' = Permitted \ {c}, Return(c)
      PROVE  Goal
  <2>1. /\ IsFiniteSet(idle')
        /\ Cardinality(idle') = Cardinality(idle) + 1
    BY <1>3, FS_AddElement DEF Return, IdleFinite, Ownership, SessionsExclusive
  <2> QED
    BY <1>t, <1>3, <2>1, PermittedCount DEF Return, IdleFinite, PermitsConserved
<1>4. ASSUME NEW c \in Calls, CheckOut(c) PROVE Goal
  <2>1. c \notin Permitted /\ Permitted' = Permitted \cup {c}
    BY <1>t, <1>4 DEF CheckOut, Goto, Permitted
  <2>2. PICK s \in idle : idle' = idle \ {s}
    BY <1>4 DEF CheckOut
  <2>3. IsFiniteSet(idle') /\ Cardinality(idle') = Cardinality(idle) - 1
    BY <2>2, FS_RemoveElement DEF IdleFinite
  <2> QED
    BY <1>t, <1>4, <2>1, <2>3, PermittedCount DEF CheckOut, IdleFinite, PermitsConserved
<1>5. ASSUME NEW c \in Calls, StartCreate(c) PROVE Goal
  <2>1. c \notin Permitted /\ Permitted' = Permitted \cup {c}
    BY <1>t, <1>5 DEF StartCreate, Goto, Permitted
  <2>2. Cardinality(idle) = 0
    BY <1>5, FS_EmptySet DEF StartCreate
  <2> QED
    BY <1>t, <1>5, <2>1, <2>2, PermittedCount DEF StartCreate, IdleFinite, PermitsConserved
<1>6. ASSUME NEW c \in Calls, CreateFailed(c) \/ CancelCreate(c) PROVE Goal
  <2>1. c \in Permitted /\ Permitted' = Permitted \ {c}
    BY <1>t, <1>6 DEF CreateFailed, CancelCreate, Settle, Goto, Permitted
  <2> QED
    BY <1>2, <1>6, <2>1 DEF CreateFailed, CancelCreate
<1>7. ASSUME NEW c \in Calls, pc[c] \in {"looking_up", "using"},
             \/ \E v \in Results : Reply(c, v)
             \/ AttemptFailed(c)
      PROVE  Goal
  <2>1. c \in Permitted /\ Permitted' = Permitted \ {c}
    BY <1>t, <1>7 DEF Reply, AttemptFailed, Settle, Goto, Permitted
  <2> QED
    BY <1>3, <1>7, <2>1 DEF Reply, AttemptFailed
<1>8. ASSUME NEW c \in Calls, LookUp(c) PROVE Goal
  <2>1. CASE Goto(c, "using") /\ UNCHANGED <<permits, idle>>
    <3>1. Permitted' = Permitted
      BY <1>t, <1>8, <2>1 DEF LookUp, Goto, Permitted
    <3> QED
      BY <1>1, <2>1, <3>1
  <2>2. CASE Reply(c, "KeyNotFound") \/ AttemptFailed(c)
    BY <1>7, <1>8, <2>2 DEF LookUp, Results
  <2> QED
    BY <1>8, <2>1, <2>2 DEF LookUp, poolVars
<1>9. ASSUME NEW c \in Calls, SignOrVerify(c) \/ ExportKey(c) PROVE Goal
  BY <1>7, <1>9 DEF SignOrVerify, ExportKey, Results
<1>10. ASSUME NEW c \in Calls,
              \/ \E o \in Ops : Begin(c, o) \/ Unregistered(c, o)
              \/ Created(c) \/ Wake(c) \/ CancelWait(c)
       PROVE  Goal
  <2>1. Permitted' = Permitted
    BY <1>t, <1>10 DEF Begin, Unregistered, Created, Wake, CancelWait, Settle, Goto, Permitted
  <2> QED
    BY <1>1, <1>10, <2>1 DEF Begin, Unregistered, Created, Wake, CancelWait, poolVars
<1>11. ASSUME UNCHANGED <<pc, permits, idle>> PROVE Goal
  BY <1>1, <1>11 DEF Permitted
<1>12. ASSUME NEW c \in Calls, CreateJob(c) PROVE Goal
  BY <1>11, <1>12 DEF CreateJob, OpenSession, OpenFails, LogIn, LoginFails, poolVars
<1>13. CASE Failover \/ Recover \/ UNCHANGED vars
  BY <1>11, <1>13 DEF Failover, Recover, vars, poolVars, callVars
<1> QED
  BY <1>4, <1>5, <1>6, <1>8, <1>9, <1>10, <1>12, <1>13
     DEF Next, GetPermit, Proceed, Finished

-----------------------------------------------------------------------------
(* The invariant and what follows from it.                                 *)

IInv == Control /\ Ownership /\ IdleFinite /\ PermitsConserved

\* The three layers together are an invariant of the pool.
LEMMA Invariance == Spec => []IInv
<1>1. Init => IInv
  BY InitControl, InitOwnership, InitPermits DEF IInv
<1>2. IInv /\ [Next]_vars => IInv'
  BY ControlStep, OwnershipStep, PermitsStep DEF IInv
<1> QED
  BY <1>1, <1>2, PTL DEF Spec

\* Type correctness of the pool, in every reachable state.
THEOREM TypeCorrect == Spec => []TypeOK
<1>1. IInv => TypeOK
  BY DEF IInv, Control
<1> QED
  BY <1>1, Invariance, PTL

\* The pool neither loses nor gains a permit, however calls end: no number of
\* failed creations, exhausted retries and dropped futures shrinks it.
THEOREM PoolNeverShrinks == Spec => []PermitsConserved
<1>1. IInv => PermitsConserved
  BY DEF IInv
<1> QED
  BY <1>1, Invariance, PTL

\* Two calls never own one PKCS#11 session, and an idle one is nobody's.
THEOREM OneOwnerPerSession == Spec => []SessionsExclusive
<1>1. IInv => SessionsExclusive
  BY DEF IInv, Ownership
<1> QED
  BY <1>1, Invariance, PTL

\* Every handle that is open on the token has an owner in the gateway.
THEOREM NoLeak == Spec => []NoHandleLeaked
<1>1. IInv => NoHandleLeaked
  BY DEF IInv, Ownership
<1> QED
  BY <1>1, Invariance, PTL

\* A call parts with a session only by queueing or closing it.
THEOREM HandOver == Spec => HandedBackThroughPool
<1>1. IInv /\ [Next]_vars =>
        [\A c \in Calls :
            held[c] # NoSession /\ held'[c] # held[c]
              => held[c] \in idle' \/ session'[held[c]] = "closed"]_vars
  <2> SUFFICES ASSUME IInv, Next, NEW c \in Calls, held[c] # NoSession, held'[c] # held[c]
               PROVE  held[c] \in idle' \/ session'[held[c]] = "closed"
    BY DEF vars
  <2> USE DEF IInv, Control, TypeOK, Coherent
  <2>1. ASSUME NEW d \in Calls, Return(d) PROVE held[c] \in idle'
    BY <2>1 DEF Return
  <2>2. ASSUME NEW d \in Calls, DropSession(d) PROVE session'[held[c]] = "closed"
    BY <2>2 DEF DropSession
  <2>3. ASSUME NEW d \in Calls, UNCHANGED held PROVE FALSE
    BY <2>3
  <2>4. ASSUME NEW d \in Calls, CheckOut(d) PROVE FALSE
    BY <2>4 DEF CheckOut
  <2>5. ASSUME NEW d \in Calls, OpenSession(d) PROVE FALSE
    BY <2>5 DEF OpenSession
  <2>6. ASSUME NEW d \in Calls, LookUp(d) \/ SignOrVerify(d) \/ ExportKey(d)
        PROVE held[c] \in idle'
    BY <2>1, <2>3, <2>6 DEF LookUp, SignOrVerify, ExportKey, Reply, AttemptFailed
  <2>7. ASSUME NEW d \in Calls, CancelCreate(d) \/ LogIn(d) \/ LoginFails(d)
        PROVE session'[held[c]] = "closed"
    BY <2>2, <2>3, <2>7 DEF CancelCreate, LogIn, LoginFails
  <2> QED
    BY <2>3, <2>4, <2>5, <2>6, <2>7 DEF Next, GetPermit, Proceed, CreateJob, Begin,
       Unregistered, StartCreate, Created, CreateFailed, Wake, CancelWait, OpenFails,
       Failover, Recover, Finished, callVars, vars
<1> QED
  BY <1>1, Invariance, PTL DEF Spec, HandedBackThroughPool

\* A call under way in C_Sign or C_Verify has the token do it once: no step
\* takes it back to another attempt.
THEOREM SignsOnce == Spec => SignsAtMostOnce
<1>1. IInv /\ [Next]_vars =>
        [\A c \in Calls :
            pc[c] = "using" /\ op[c] \in {"sign", "verify"} => pc'[c] \in {"using", "done"}]_vars
  <2> SUFFICES ASSUME IInv, Next, NEW c \in Calls,
                      pc[c] = "using", op[c] \in {"sign", "verify"}
               PROVE  pc'[c] \in {"using", "done"}
    BY DEF vars
  <2> USE DEF IInv, Control, TypeOK
  <2>1. ASSUME NEW d \in Calls, NEW place \in Places, Goto(d, place), d # c
        PROVE  pc'[c] = "using"
    BY <2>1 DEF Goto
  <2>2. ASSUME UNCHANGED pc PROVE pc'[c] = "using"
    BY <2>2
  <2>3. ASSUME NEW d \in Calls, SignOrVerify(d) PROVE pc'[c] \in {"using", "done"}
    BY <2>3 DEF SignOrVerify, Reply, Settle, Goto
  <2>4. ASSUME NEW d \in Calls, ExportKey(d) PROVE pc'[c] = "using"
    BY <2>1, <2>4 DEF ExportKey, Reply, AttemptFailed, Settle, Places
  <2>5. ASSUME NEW d \in Calls, LookUp(d) PROVE pc'[c] = "using"
    BY <2>1, <2>5 DEF LookUp, Reply, AttemptFailed, Settle, Places
  <2>6. ASSUME NEW d \in Calls,
               \/ \E o \in Ops : Begin(d, o) \/ Unregistered(d, o)
               \/ CheckOut(d) \/ StartCreate(d) \/ Created(d) \/ CreateFailed(d)
               \/ Wake(d) \/ CancelWait(d) \/ CancelCreate(d)
        PROVE  pc'[c] = "using"
    BY <2>1, <2>6 DEF Begin, Unregistered, CheckOut, StartCreate, Created, CreateFailed,
       Wake, CancelWait, CancelCreate, Settle, Places
  <2>7. ASSUME NEW d \in Calls, CreateJob(d) PROVE pc'[c] = "using"
    BY <2>2, <2>7 DEF CreateJob, OpenSession, OpenFails, LogIn, LoginFails
  <2>8. CASE Failover \/ Recover \/ Finished
    BY <2>2, <2>8 DEF Failover, Recover, Finished, callVars, vars
  <2> QED
    BY <2>3, <2>4, <2>5, <2>6, <2>7, <2>8 DEF Next, GetPermit, Proceed
<1> QED
  BY <1>1, Invariance, PTL DEF Spec, SignsAtMostOnce

\* A ClusterError comes from the last attempt or from a failed creation.
THEOREM GivesUpLate == Spec => GivesUpOnlyWhenExhausted
<1>1. IInv /\ [Next]_vars =>
        [\A c \in Calls :
            result'[c] = "ClusterError" /\ result[c] # "ClusterError"
              => attempt[c] = RetryAttempts \/ job[c] = "failed"]_vars
  <2> SUFFICES ASSUME IInv, Next, NEW c \in Calls,
                      result'[c] = "ClusterError", result[c] # "ClusterError"
               PROVE  attempt[c] = RetryAttempts \/ job[c] = "failed"
    BY DEF vars
  <2> USE PoolAssumption DEF IInv, Control, TypeOK
  <2>1. ASSUME NEW d \in Calls, NEW value, Settle(d, value)
        PROVE  d = c /\ value = "ClusterError"
    BY <2>1 DEF Settle
  <2>2. ASSUME UNCHANGED result PROVE FALSE
    BY <2>2
  <2>3. ASSUME NEW d \in Calls, AttemptFailed(d) PROVE attempt[c] = RetryAttempts
    BY <2>1, <2>2, <2>3 DEF AttemptFailed
  <2>4. ASSUME NEW d \in Calls, CreateFailed(d) PROVE job[c] = "failed"
    BY <2>1, <2>4 DEF CreateFailed
  <2>5. ASSUME NEW d \in Calls, LookUp(d) \/ SignOrVerify(d) \/ ExportKey(d)
        PROVE  attempt[c] = RetryAttempts
    BY <2>1, <2>2, <2>3, <2>5 DEF LookUp, SignOrVerify, ExportKey, Reply
  <2>6. ASSUME NEW d \in Calls,
               \/ \E o \in Ops : Unregistered(d, o)
               \/ CancelWait(d) \/ CancelCreate(d)
        PROVE  FALSE
    BY <2>1, <2>6 DEF Unregistered, CancelWait, CancelCreate
  <2> QED
    BY <2>2, <2>4, <2>5, <2>6 DEF Next, GetPermit, Proceed, CreateJob, Begin, CheckOut,
       StartCreate, Created, Wake, OpenSession, OpenFails, LogIn, LoginFails,
       Failover, Recover, Finished, callVars, vars
<1> QED
  BY <1>1, Invariance, PTL DEF Spec, GivesUpOnlyWhenExhausted

-----------------------------------------------------------------------------
(* The pool implements SessionLease.                                       *)

\* SessionLease counts with the same operator (it reaches FiniteSets on its own).
LEMMA SameCardinality == ASSUME NEW S PROVE Lease!Cardinality(S) = Cardinality(S)
BY DEF Lease!Cardinality, Cardinality, Lease!IsFiniteSet, IsFiniteSet

\* Fewer calls than PoolSize have a session while a permit is free or held by
\* a call whose session is still being created.
LEMMA HoldersBound ==
  ASSUME IInv, permits > 0 \/ \E c \in Calls : pc[c] = "creating"
  PROVE  Cardinality(Lease!Holders) < PoolSize
<1> USE PoolAssumption DEF IInv, Control, TypeOK, PermitsConserved
<1>1. Lease!Holders \subseteq Permitted
  BY DEF Lease!Holders, Leases, Permitted
<1>2. /\ Cardinality(Lease!Holders) \in Nat
      /\ Cardinality(Lease!Holders) <= Cardinality(Permitted)
      /\ Cardinality(Lease!Holders) = Cardinality(Permitted) => Lease!Holders = Permitted
  BY <1>1, PermittedCount, FS_Subset, FS_CardinalityType
<1>3. CASE permits > 0
  BY <1>2, <1>3, PermittedCount
<1>4. ASSUME NEW c \in Calls, pc[c] = "creating" PROVE Lease!Holders # Permitted
  BY <1>4 DEF Lease!Holders, Leases, Permitted
<1> QED
  BY <1>2, <1>3, <1>4, PermittedCount

\* A step of the pool is a step of SessionLease or leaves leases and outcomes
\* alone.
LEMMA LeaseStep == IInv /\ [Next]_vars => [Lease!LeaseNext]_(Lease!leaseVars)
<1> SUFFICES ASSUME IInv, [Next]_vars
             PROVE  Lease!LeaseNext \/ UNCHANGED <<Leases, result>>
  BY DEF Lease!leaseVars
<1> DEFINE Goal == Lease!LeaseNext \/ UNCHANGED <<Leases, result>>
<1> USE PoolAssumption DEF IInv, Control, TypeOK, Coherent, Leases, Goto, Settle
<1>1. ASSUME NEW c \in Calls, NEW s \in Sessions,
             result[c] = "none", pc[c] \in {"waiting", "creating"},
             \A d \in Calls : held[d] = s => d = c,
             Cardinality(Lease!Holders) < PoolSize,
             Goto(c, "looking_up"), held'[c] = s,
             \A d \in Calls \ {c} : held'[d] = held[d], UNCHANGED result
      PROVE  Goal
  <2>1. Leases' = [Leases EXCEPT ![c] = s]
    BY <1>1
  <2>2. Leases[c] = NoSession /\ s \notin {Leases[d] : d \in Calls}
    BY <1>1
  <2> HIDE DEF Leases, TypeOK, Coherent
  <2>3. Lease!Grant(c, s)
    BY <1>1, <2>1, <2>2, SameCardinality DEF Lease!Grant
  <2> QED
    BY <2>3 DEF Lease!LeaseNext
<1>2. ASSUME NEW c \in Calls, CheckOut(c) PROVE Goal
  <2>1. PICK s \in idle : held' = [held EXCEPT ![c] = s]
    BY <1>2 DEF CheckOut
  <2>2. \A d \in Calls : held[d] = s => d = c
    BY DEF Ownership, SessionsExclusive
  <2>3. Cardinality(Lease!Holders) < PoolSize
    BY <1>2, HoldersBound DEF CheckOut
  <2>4. /\ s \in Sessions /\ held'[c] = s
        /\ \A d \in Calls \ {c} : held'[d] = held[d]
        /\ pc[c] \in {"waiting", "creating"} /\ result[c] = "none"
        /\ Goto(c, "looking_up") /\ UNCHANGED result
    BY <1>2, <2>1 DEF CheckOut
  <2> HIDE DEF IInv, Leases, Goal, Goto
  <2> QED
    BY <1>1, <2>2, <2>3, <2>4
<1>3. ASSUME NEW c \in Calls, Created(c) PROVE Goal
  <2>1. Cardinality(Lease!Holders) < PoolSize
    BY <1>3, HoldersBound DEF Created
  <2>2. held[c] \in Sessions /\ \A d \in Calls : held[d] = held[c] => d = c
    BY <1>3 DEF Created, Ownership, SessionsExclusive
  <2> QED
    BY <1>1, <1>3, <2>1, <2>2 DEF Created
<1>4. ASSUME NEW c \in Calls, pc[c] \notin {"looking_up", "using", "done"},
             NEW v \in {"KeyNotFound", "ClusterError", "Cancelled"}, Settle(c, v),
             \A d \in Calls \ {c} : held'[d] = held[d]
      PROVE  Goal
  <2>1. Leases[c] = NoSession /\ Leases' = Leases
    BY <1>4
  <2>2. Lease!EndWithout(c)
    BY <1>4, <2>1 DEF Lease!EndWithout
  <2> QED
    BY <2>2 DEF Lease!LeaseNext
<1>5. ASSUME NEW c \in Calls,
             (\E o \in Ops : Unregistered(c, o)) \/ CreateFailed(c) \/ CancelWait(c)
               \/ CancelCreate(c)
      PROVE  Goal
  BY <1>4, <1>5 DEF Unregistered, CreateFailed, CancelWait, CancelCreate, DropSession
<1>6. ASSUME NEW c \in Calls, pc[c] \in {"looking_up", "using"},
             Reply(c, "KeyNotFound") \/ Reply(c, "Ok") \/ Reply(c, "OpFailed") \/ AttemptFailed(c)
      PROVE  Goal
  <2>1. Leases[c] # NoSession /\ Leases' = [Leases EXCEPT ![c] = NoSession]
    BY <1>6 DEF Reply, AttemptFailed, Return
  <2>2. \/ UNCHANGED result
        \/ \E v \in {"Ok", "OpFailed", "KeyNotFound", "ClusterError"} :
             result' = [result EXCEPT ![c] = v]
    BY <1>6 DEF Reply, AttemptFailed
  <2>3. Lease!GiveBack(c)
    BY <2>1, <2>2 DEF Lease!GiveBack
  <2> QED
    BY <2>3 DEF Lease!LeaseNext
<1>7. ASSUME NEW c \in Calls, LookUp(c) PROVE Goal
  BY <1>6, <1>7 DEF LookUp, callVars
<1>8. ASSUME NEW c \in Calls, SignOrVerify(c) \/ ExportKey(c) PROVE Goal
  BY <1>6, <1>8 DEF SignOrVerify, ExportKey
<1>9. ASSUME NEW c \in Calls, (\E o \in Ops : Begin(c, o)) \/ StartCreate(c) \/ Wake(c)
      PROVE  Goal
  BY <1>9 DEF Begin, StartCreate, Wake
<1>10. ASSUME NEW c \in Calls, CreateJob(c) PROVE Goal
  BY <1>10 DEF CreateJob, OpenSession, OpenFails, LogIn, LoginFails, DropSession
<1>11. CASE Failover \/ Recover \/ UNCHANGED vars
  BY <1>11 DEF Failover, Recover, vars, callVars
<1> QED
  BY <1>2, <1>3, <1>5, <1>7, <1>8, <1>9, <1>10, <1>11
     DEF Next, GetPermit, Proceed, Finished

\* The pool, with its semaphore, queue, creation jobs, retries and failovers,
\* allows a caller nothing that SessionLease does not allow.
THEOREM PoolRefinesLease == Spec => ImplementsLease
<1>1. Init => Lease!LeaseInit
  BY DEF Init, Lease!LeaseInit, Leases
<1> QED
  BY <1>1, LeaseStep, Invariance, PTL DEF Spec, ImplementsLease, Lease!LeaseSpec

-----------------------------------------------------------------------------
(* On a healthy token only logins fail.                                    *)

\* The token of the theorem: it has as many sessions as the pool (perhaps no
\* limit at all).  What its C_Login answers is left open.
AmpleToken == IsFiniteSet(Sessions) => Cardinality(Sessions) >= PoolSize

\* The part of the inductive invariant that HealthyFailuresAreLogins needs:
\* every session in the pool or with a call is usable, and no creation was left
\* behind.
Healthy ==
    /\ hsm = "up"
    /\ \A s \in Sessions : session[s] # "lost"
    /\ \A s \in idle : session[s] = "in"
    /\ \A c \in Calls :
        /\ pc[c] \in {"looking_up", "using"} \/ job[c] = "ready" => session[held[c]] = "in"
        /\ job[c] = "logging_in" => session[held[c]] = "open"
        /\ job[c] # "none" => pc[c] = "creating"

HealthyIfUndisturbed == Undisturbed => Healthy

\* While a creation has yet to open its session, the idle sessions and those
\* of the other calls leave one of the pool_size sessions closed.
LEMMA SessionToSpare ==
  ASSUME IInv, Healthy, AmpleToken, NEW c \in Calls, job[c] = "opening"
  PROVE  \E s \in Sessions : session[s] = "closed"
<1> DEFINE Others == Permitted \ {c}
           Theirs == {held[d] : d \in Others}
           Owned == idle \cup Theirs
<1> USE PoolAssumption DEF IInv, Control, TypeOK, IdleFinite, PermitsConserved
<1>1. /\ IsFiniteSet(Others)
      /\ Cardinality(Others) \in Nat
      /\ Cardinality(Others) + 1 = Cardinality(Permitted)
  <2>1. c \in Permitted
    BY DEF Healthy, Permitted
  <2>2. IsFiniteSet(Others) /\ Cardinality(Others) \in Nat
    BY PermittedCount, FS_Subset, FS_CardinalityType
  <2>3. Cardinality(Others) = Cardinality(Permitted) - 1 /\ Cardinality(Permitted) \in Nat
    BY <2>1, PermittedCount
  <2> HIDE DEF IInv, Control, TypeOK, PermitsConserved, IdleFinite
  <2> QED
    BY <2>2, <2>3
<1>2. /\ IsFiniteSet(Theirs)
      /\ Cardinality(Theirs) <= Cardinality(Others)
  <2> DEFINE f == [d \in Others |-> held[d]]
  <2>1. f \in Surjection(Others, Theirs)
    BY DEF Surjection
  <2> HIDE DEF f, Others, Theirs
  <2> QED
    BY <1>1, <2>1, FS_Surjection
<1>3. /\ IsFiniteSet(Owned)
      /\ Cardinality(Owned) \in Nat
      /\ Cardinality(Owned) < PoolSize
  <2> HIDE DEF Others, Theirs
  <2>1. /\ IsFiniteSet(Owned)
        /\ Cardinality(Owned) = Cardinality(idle) + Cardinality(Theirs) - Cardinality(idle \cap Theirs)
    BY <1>2, FS_Union
  <2>2. Cardinality(idle) \in Nat /\ Cardinality(Theirs) \in Nat
    BY <1>2, FS_CardinalityType
  <2>3. Cardinality(idle \cap Theirs) \in Nat
    BY FS_Subset, FS_CardinalityType
  <2> QED
    BY <1>1, <1>2, <2>1, <2>2, <2>3, FS_CardinalityType, PermittedCount
<1>4. \A s \in Sessions : session[s] # "closed" => s \in Owned
  <2> SUFFICES ASSUME NEW s \in Sessions, session[s] # "closed", s \notin idle
               PROVE  s \in Theirs
    OBVIOUS
  <2>1. PICK d \in Calls : held[d] = s
    BY DEF Ownership, NoHandleLeaked
  <2>2. d \in Others
    BY <2>1 DEF Coherent, Healthy, Permitted
  <2> QED
    BY <2>1, <2>2
<1>5. ASSUME Sessions \subseteq Owned PROVE FALSE
  BY <1>3, <1>5, FS_Subset, FS_CardinalityType DEF AmpleToken
<1> QED
  BY <1>4, <1>5

\* A call that has ended stays as it is, so a disturbance is never undone.
LEMMA UndisturbedBefore == Control /\ [Next]_vars /\ Undisturbed' => Undisturbed
<1> SUFFICES ASSUME Control, [Next]_vars, Undisturbed' PROVE Undisturbed
  OBVIOUS
<1> USE DEF Control, TypeOK, Coherent, Undisturbed, callVars, poolVars, hsmVars
<1>1. ASSUME UNCHANGED <<failovers, result>> PROVE Undisturbed
  BY <1>1
<1>2. ASSUME UNCHANGED failovers, NEW c \in Calls, pc[c] # "done", NEW v, Settle(c, v)
      PROVE  Undisturbed
  BY <1>2 DEF Settle
<1>3. ASSUME NEW c \in Calls,
             LookUp(c) \/ SignOrVerify(c) \/ ExportKey(c)
      PROVE  Undisturbed
  BY <1>1, <1>2, <1>3 DEF LookUp, SignOrVerify, ExportKey, Reply, AttemptFailed
<1>4. ASSUME NEW c \in Calls,
             \/ \E o \in Ops : Unregistered(c, o)
             \/ CreateFailed(c) \/ CancelWait(c) \/ CancelCreate(c)
      PROVE  Undisturbed
  BY <1>2, <1>4 DEF Unregistered, CreateFailed, CancelWait, CancelCreate
<1>5. CASE Failover
  BY <1>5 DEF Failover
<1> QED
  BY <1>1, <1>3, <1>4, <1>5 DEF Next, GetPermit, Proceed, CreateJob, Begin, CheckOut,
     StartCreate, Created, Wake, OpenSession, OpenFails, LogIn, LoginFails,
     Recover, Finished, vars

\* The inductive step: a healthy pool stays so while it is undisturbed.  The
\* session that a creation opens is there.
LEMMA HealthyStep == AmpleToken /\ IInv /\ HealthyIfUndisturbed /\ [Next]_vars => HealthyIfUndisturbed'
<1> SUFFICES ASSUME AmpleToken, IInv, Healthy, Undisturbed, [Next]_vars, Undisturbed'
             PROVE  Healthy'
  BY UndisturbedBefore DEF HealthyIfUndisturbed, IInv
<1> USE PoolAssumption DEF IInv, Control, TypeOK, Coherent, Healthy,
        callVars, poolVars, hsmVars, Goto, Settle
<1>1. ASSUME NEW c \in Calls, NEW o \in Ops, Begin(c, o) PROVE Healthy'
  BY <1>1 DEF Begin
<1>2. ASSUME NEW c \in Calls, NEW o \in Ops, Unregistered(c, o) PROVE Healthy'
  BY <1>2 DEF Unregistered
<1>3. ASSUME NEW c \in Calls, CheckOut(c) PROVE Healthy'
  BY <1>3 DEF CheckOut
<1>4. ASSUME NEW c \in Calls, StartCreate(c) PROVE Healthy'
  BY <1>4 DEF StartCreate
<1>5. ASSUME NEW c \in Calls, Created(c) PROVE Healthy'
  BY <1>5 DEF Created
<1>6. ASSUME NEW c \in Calls, CreateFailed(c) PROVE Healthy'
  BY <1>6 DEF CreateFailed
<1>7. ASSUME NEW c \in Calls, LookUp(c) PROVE Healthy'
  BY <1>7 DEF LookUp, Reply, AttemptFailed, Return
<1>8. ASSUME NEW c \in Calls, SignOrVerify(c) PROVE Healthy'
  BY <1>8 DEF SignOrVerify, Reply, Return
<1>9. ASSUME NEW c \in Calls, ExportKey(c) PROVE Healthy'
  BY <1>9 DEF ExportKey, Reply, AttemptFailed, Return
<1>10. ASSUME NEW c \in Calls, Wake(c) PROVE Healthy'
  BY <1>10 DEF Wake
<1>11. ASSUME NEW c \in Calls, CancelWait(c) \/ CancelCreate(c) PROVE FALSE
  BY <1>11 DEF CancelWait, CancelCreate, Undisturbed
<1>12. ASSUME NEW c \in Calls, OpenSession(c) PROVE Healthy'
  BY <1>12 DEF OpenSession, Ownership, NoHandleLeaked
<1>13. ASSUME NEW c \in Calls, OpenFails(c) PROVE FALSE
  BY <1>13, SessionToSpare DEF OpenFails
<1>14. ASSUME NEW c \in Calls, LogIn(c) PROVE Healthy'
  BY <1>14 DEF LogIn, LoginAccepted, EndJob, Awaited, Ownership, SessionsExclusive
<1>15. ASSUME NEW c \in Calls, LoginFails(c) PROVE Healthy'
  BY <1>15 DEF LoginFails, DropSession, EndJob, Awaited, Ownership, SessionsExclusive
<1>16. CASE Failover
  BY <1>16 DEF Failover, Undisturbed
<1>17. CASE Recover
  BY <1>17 DEF Recover
<1>18. CASE UNCHANGED vars
  BY <1>18 DEF vars
<1> QED
  BY <1>1, <1>2, <1>3, <1>4, <1>5, <1>6, <1>7, <1>8, <1>9, <1>10, <1>11, <1>12,
     <1>13, <1>14, <1>15, <1>16, <1>17, <1>18
     DEF Next, GetPermit, Proceed, CreateJob, Finished

\* On a token with room for the pool that answers throughout, a ClusterError of
\* a sign or verify is always a failed creation, and a failed creation always a
\* login refused while another session is logged in, however many calls compete
\* for how few sessions: the pool never asks for a session that is not there.
THEOREM OnlyLoginsFail == AmpleToken /\ Spec => HealthyFailuresAreLogins
<1> SUFFICES ASSUME AmpleToken PROVE Spec => HealthyFailuresAreLogins
  OBVIOUS
<1> DEFINE Fails(c) == /\ op[c] \in {"sign", "verify"}
                       /\ result[c] = "none" /\ result'[c] = "ClusterError"
           Refused(c) == job[c] # "failed" /\ job'[c] = "failed"
<1>1. Init => HealthyIfUndisturbed
  BY PoolAssumption DEF Init, HealthyIfUndisturbed, Healthy
<1>2. IInv /\ HealthyIfUndisturbed /\ [Next]_vars => HealthyIfUndisturbed'
  BY HealthyStep
<1>3. IInv /\ HealthyIfUndisturbed /\ [Next]_vars =>
        [Undisturbed' =>
           \A c \in Calls :
              /\ op[c] \in {"sign", "verify"} /\ result[c] = "none" /\ result'[c] = "ClusterError"
                   => job[c] = "failed"
              /\ job[c] # "failed" /\ job'[c] = "failed"
                   => job[c] = "logging_in" /\ LoggedIn]_vars
  <2> SUFFICES ASSUME IInv, Healthy, Next, NEW c \in Calls
               PROVE  /\ Fails(c) => job[c] = "failed"
                      /\ Refused(c) => job[c] = "logging_in" /\ LoggedIn
    BY UndisturbedBefore DEF HealthyIfUndisturbed, IInv
  <2> USE PoolAssumption DEF IInv, Control, TypeOK, Coherent, Healthy, callVars
  <2>1. ASSUME UNCHANGED <<result, job>>
        PROVE  ~Fails(c) /\ ~Refused(c)
    BY <2>1
  <2>2. ASSUME NEW d \in Calls, LookUp(d) \/ SignOrVerify(d) \/ ExportKey(d)
        PROVE  ~Fails(c) /\ ~Refused(c)
    <3>1. UNCHANGED <<job, op>> /\ \A e \in Calls \ {d} : result'[e] = result[e]
      BY <2>2 DEF LookUp, SignOrVerify, ExportKey, Reply, AttemptFailed, Settle
    <3>2. op[d] \in {"sign", "verify"} => result'[d] # "ClusterError"
      BY <2>2 DEF LookUp, SignOrVerify, ExportKey, Reply, Settle, Goto
    <3> QED
      BY <3>1, <3>2
  <2>3. ASSUME NEW d \in Calls, CreateFailed(d)
        PROVE  (Fails(c) => job[c] = "failed") /\ ~Refused(c)
    BY <2>3 DEF CreateFailed, Settle
  <2>4. ASSUME NEW d \in Calls,
               (\E o \in Ops : Unregistered(d, o)) \/ CancelWait(d) \/ CancelCreate(d)
        PROVE  ~Fails(c) /\ ~Refused(c)
    BY <2>4 DEF Unregistered, CancelWait, CancelCreate, Settle
  <2>5. ASSUME NEW d \in Calls, LoginFails(d)
        PROVE  ~Fails(c) /\ (Refused(c) => job[c] = "logging_in" /\ LoggedIn)
    <3>1. UNCHANGED result /\ job[d] = "logging_in" /\ LoggedIn
      BY <2>5 DEF LoginFails, LoginRefused
    <3>2. Refused(c) => c = d
      BY <2>5 DEF LoginFails, EndJob
    <3> QED
      BY <3>1, <3>2
  <2>6. ASSUME NEW d \in Calls, OpenFails(d) PROVE FALSE
    BY <2>6, SessionToSpare DEF OpenFails
  <2>7. ASSUME NEW d \in Calls, StartCreate(d) \/ Created(d) \/ OpenSession(d) \/ LogIn(d)
        PROVE  ~Fails(c) /\ ~Refused(c)
    BY <2>7 DEF StartCreate, Created, OpenSession, LogIn, EndJob
  <2> QED
    BY <2>1, <2>2, <2>3, <2>4, <2>5, <2>6, <2>7 DEF Next, GetPermit, Proceed, CreateJob,
       Begin, CheckOut, Wake, Failover, Recover, Finished, vars
<1> QED
  BY <1>1, <1>2, <1>3, Invariance, PTL DEF Spec, HealthyFailuresAreLogins

-----------------------------------------------------------------------------
(* A pool of no sessions.                                                  *)

\* Calls of registered keys wait until their callers give up.
NobodyServed ==
    \A c \in Calls :
        /\ pc[c] \in {"idle", "waiting", "done"}
        /\ result[c] \in {"none", "KeyNotFound", "Cancelled"}

\* Without a permit to be had, no step leads out of the wait but giving up.
LEMMA NobodyServedStep == PoolSize = 0 /\ IInv /\ NobodyServed /\ [Next]_vars => NobodyServed'
<1> SUFFICES ASSUME PoolSize = 0, IInv, NobodyServed, [Next]_vars PROVE NobodyServed'
  OBVIOUS
<1> USE DEF Control, TypeOK, NobodyServed, callVars, poolVars, hsmVars, Goto, Settle
<1>1. permits = 0
  BY PermittedCount DEF IInv, PermitsConserved
<1>2. ASSUME NEW c \in Calls,
             (\E o \in Ops : Begin(c, o) \/ Unregistered(c, o)) \/ CancelWait(c)
      PROVE  NobodyServed'
  BY <1>2 DEF IInv, Begin, Unregistered, CancelWait
<1>3. ASSUME NEW c \in Calls,
             \/ CheckOut(c) \/ StartCreate(c) \/ Created(c) \/ CreateFailed(c)
             \/ LookUp(c) \/ SignOrVerify(c) \/ ExportKey(c) \/ Wake(c) \/ CancelCreate(c)
      PROVE  FALSE
  BY <1>1, <1>3 DEF CheckOut, StartCreate, Created, CreateFailed, LookUp, SignOrVerify,
     ExportKey, Wake, CancelCreate
<1>4. ASSUME NEW c \in Calls, CreateJob(c) PROVE NobodyServed'
  BY <1>4 DEF CreateJob, OpenSession, OpenFails, LogIn, LoginFails
<1>5. CASE Failover \/ Recover \/ UNCHANGED vars
  BY <1>5 DEF Failover, Recover, vars
<1> QED
  BY <1>2, <1>3, <1>4, <1>5 DEF Next, GetPermit, Proceed, Finished

\* A gateway configured with pool_size = 0 starts and never signs or answers a
\* call of a registered key, not even with an error: the wait for a permit has
\* no timeout.  (HsmClusterBackend::new builds the pool without a check)
THEOREM EmptyPoolServesNobody == PoolSize = 0 /\ Spec => []NobodyServed
<1> SUFFICES ASSUME PoolSize = 0 PROVE Spec => []NobodyServed
  OBVIOUS
<1>1. Init => NobodyServed
  BY DEF Init, NobodyServed
<1>2. IInv /\ NobodyServed /\ [Next]_vars => NobodyServed'
  BY NobodyServedStep
<1> QED
  BY <1>1, <1>2, Invariance, PTL DEF Spec

=============================================================================
