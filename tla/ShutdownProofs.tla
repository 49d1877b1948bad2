--------------------------- MODULE ShutdownProofs ---------------------------
(***************************************************************************)
(* Proofs about Shutdown for any sets of requests: what is cut off at the  *)
(* end of the process, and what never is.                                  *)
(***************************************************************************)
EXTENDS Shutdown, TLAPS

\* Why a request is cut off only by the other server: main is past select!
\* only when a server has ended, requests are dropped only then, and a server
\* that ended has none left.
NotYetSpawned ==
    /\ main = "spawnHttp" => \A s \in Servers : server[s] = "none"
    /\ main = "spawnGrpc" => server["grpc"] = "none"

MainPastSelect == main \in {"returned", "dropping"} => \E s \in Servers : Ended(s)

DroppedAtTheEnd == \A r \in Requests : request[r] = "dropped" => main = "dropping"

NothingLeftBehind ==
    \A s \in Servers : \A r \in RequestsOf(s) :
        /\ server[s] \in {"none", "binding", "failed"} => request[r] = "new"
        /\ server[s] = "stopped" => request[r] \notin {"inFlight", "dropped"}

IInv ==
    /\ TypeOK
    /\ NotYetSpawned
    /\ MainPastSelect
    /\ DroppedAtTheEnd
    /\ NothingLeftBehind

-----------------------------------------------------------------------------
\* Every request is sent to one of the two servers, and to one only.
LEMMA OneServerEach ==
    /\ \A s \in Servers : RequestsOf(s) \subseteq Requests
    /\ \A r \in Requests : \E s \in Servers : r \in RequestsOf(s)
    /\ \A s, t \in Servers : \A r \in RequestsOf(s) \cap RequestsOf(t) : s = t
  BY RequestsAssumption DEF Servers, RequestsOf, Requests

\* The process starts inside the invariant.
LEMMA InitEstablishes == Init => IInv
<1> SUFFICES ASSUME Init PROVE IInv
  OBVIOUS
<1>1. TypeOK
  BY MaxSignalsAssumption DEF Init, TypeOK
<1>2. NotYetSpawned /\ MainPastSelect /\ DroppedAtTheEnd
  BY DEF Init, NotYetSpawned, MainPastSelect, DroppedAtTheEnd
<1>3. NothingLeftBehind
  BY OneServerEach DEF Init, NothingLeftBehind
<1> QED BY <1>1, <1>2, <1>3 DEF IInv

\* A step that moves one server task on keeps the invariant when it ends none
\* with requests in flight.
LEMMA MoveKeeps ==
    ASSUME IInv, NEW s \in Servers, NEW from, NEW to, Move(s, from, to),
           to \in {"listening", "armed", "draining", "stopped", "failed"},
           from \in {"binding", "listening", "draining"},
           to = "failed" => from = "binding",
           to = "stopped" => from = "draining" /\ InFlight(s) = {}
    PROVE  IInv'
<1> USE DEF IInv, Move, Running
<1>1. TypeOK'
  BY DEF TypeOK
<1>2. \A t \in Servers : Ended(t) => Ended(t)'
  BY DEF TypeOK, Ended
<1>3. MainPastSelect'
  BY <1>2 DEF MainPastSelect
<1>4. NotYetSpawned' /\ DroppedAtTheEnd'
  BY DEF TypeOK, NotYetSpawned, DroppedAtTheEnd
<1>5. NothingLeftBehind'
  <2> SUFFICES ASSUME NEW t \in Servers, NEW r \in RequestsOf(t)
               PROVE  /\ server'[t] \in {"none", "binding", "failed"} => request[r] = "new"
                      /\ server'[t] = "stopped" => request[r] \notin {"inFlight", "dropped"}
    BY DEF NothingLeftBehind
  <2>1. CASE t # s
    BY <2>1 DEF TypeOK, NothingLeftBehind
  <2>2. CASE t = s
    <3>1. server'[s] = to
      BY DEF TypeOK
    <3>2. r \in Requests
      BY OneServerEach
    <3>3. request[r] # "dropped"
      BY <3>2 DEF DroppedAtTheEnd
    <3>4. to = "stopped" => request[r] # "inFlight"
      BY <2>2 DEF InFlight
    <3>5. to = "failed" => request[r] = "new"
      BY <2>2 DEF NothingLeftBehind
    <3> QED BY <2>2, <3>1, <3>3, <3>4, <3>5
  <2> QED BY <2>1, <2>2
<1> QED BY <1>1, <1>3, <1>4, <1>5

\* A step that changes the state of one request keeps the invariant when its
\* server is at work, or the request was answered or given up.
LEMMA RequestKeeps ==
    ASSUME IInv, process = "up", NEW r \in Requests, NEW s \in Servers, r \in RequestsOf(s),
           NEW to \in {"inFlight", "answered", "gone", "dropped"},
           request' = [request EXCEPT ![r] = to],
           to = "inFlight" => server[s] \in {"listening", "armed"},
           to # "inFlight" => request[r] = "inFlight",
           to = "dropped" => main = "dropping",
           UNCHANGED <<main, server, job, reload, process, signals>>
    PROVE  IInv'
<1> USE DEF IInv
<1>1. TypeOK' /\ NotYetSpawned' /\ MainPastSelect'
  BY DEF TypeOK, NotYetSpawned, MainPastSelect, Ended
<1>2. DroppedAtTheEnd'
  BY DEF DroppedAtTheEnd, TypeOK
<1>3. NothingLeftBehind'
  <2> SUFFICES ASSUME NEW t \in Servers, NEW q \in RequestsOf(t)
               PROVE  /\ server[t] \in {"none", "binding", "failed"} => request'[q] = "new"
                      /\ server[t] = "stopped" => request'[q] \notin {"inFlight", "dropped"}
    BY DEF NothingLeftBehind
  <2>1. CASE q # r
    BY <2>1, OneServerEach DEF TypeOK, NothingLeftBehind
  <2>2. CASE q = r
    <3>1. t = s
      BY <2>2, OneServerEach
    <3>2. server[s] \notin {"none", "binding", "failed", "stopped"}
      BY DEF NothingLeftBehind
    <3> QED BY <3>1, <3>2
  <2> QED BY <2>1, <2>2
<1> QED BY <1>1, <1>2, <1>3

\* Every step keeps the invariant.
LEMMA NextKeeps == IInv /\ [Next]_vars => IInv'
<1> SUFFICES ASSUME IInv, [Next]_vars PROVE IInv'
  OBVIOUS
<1>1. CASE SpawnHttp \/ SpawnGrpc
  <2> USE DEF IInv
  <2>1. PICK s \in Servers :
           /\ server[s] = "none"
           /\ server' = [server EXCEPT ![s] = "binding"]
    BY <1>1 DEF SpawnHttp, SpawnGrpc, NotYetSpawned, Servers
  <2>2. /\ main' \in {"spawnGrpc", "select"}
        /\ UNCHANGED <<request, job, reload, process, signals>>
        /\ main \notin {"returned", "dropping"}
    BY <1>1 DEF SpawnHttp, SpawnGrpc
  <2>3. TypeOK'
    BY <2>1, <2>2 DEF TypeOK
  <2>4. NotYetSpawned'
    BY <1>1 DEF SpawnHttp, SpawnGrpc, NotYetSpawned, Servers, TypeOK
  <2>5. MainPastSelect' /\ DroppedAtTheEnd'
    BY <2>2 DEF MainPastSelect, DroppedAtTheEnd
  <2>6. NothingLeftBehind'
    BY <2>1, <2>2 DEF TypeOK, NothingLeftBehind
  <2> QED BY <2>3, <2>4, <2>5, <2>6
<1>2. CASE Select \/ DropRuntime
  BY <1>2
  DEF Select, DropRuntime, IInv, TypeOK, NotYetSpawned, MainPastSelect, Ended,
      DroppedAtTheEnd, NothingLeftBehind
<1>3. CASE Exit
  BY <1>3
  DEF Exit, IInv, TypeOK, NotYetSpawned, MainPastSelect, Ended,
      DroppedAtTheEnd, NothingLeftBehind
<1>4. ASSUME NEW s \in Servers, Bind(s) \/ BindFails(s) \/ Arm(s) PROVE IInv'
  BY <1>4, MoveKeeps DEF Bind, BindFails, Arm
<1>5. ASSUME NEW s \in Servers, Stop(s) PROVE IInv'
  BY <1>5, MoveKeeps DEF Stop
<1>6. ASSUME NEW s \in Servers, NEW r \in Requests, Accept(s, r) PROVE IInv'
  BY <1>6, RequestKeeps DEF Accept, Running
<1>7. ASSUME NEW r \in Requests, Answer(r) \/ ClientGone(r) \/ DropRequest(r) PROVE IInv'
  BY <1>7, OneServerEach, RequestKeeps DEF Answer, ClientGone, DropRequest, Running
<1>8. ASSUME NEW r \in Requests, StartJob(r) \/ EndJob(r) PROVE IInv'
  BY <1>8
  DEF StartJob, EndJob, Running, IInv, TypeOK, NotYetSpawned, MainPastSelect, Ended,
      DroppedAtTheEnd, NothingLeftBehind
<1>9. CASE StartReload \/ EndReload
  BY <1>9
  DEF StartReload, EndReload, Running, IInv, TypeOK, NotYetSpawned, MainPastSelect, Ended,
      DroppedAtTheEnd, NothingLeftBehind
<1>10. CASE SignalHandled
  <2> USE <1>10 DEF SignalHandled, IInv
  <2>1. TypeOK'
    BY MaxSignalsAssumption DEF TypeOK
  <2>2. \A s \in Servers : Ended(s) => Ended(s)'
    BY DEF Ended
  <2>3. MainPastSelect'
    BY <2>2 DEF MainPastSelect
  <2>4. \A s \in Servers : server'[s] \in {"none", "binding", "failed", "stopped"} => server'[s] = server[s]
    OBVIOUS
  <2>5. NothingLeftBehind'
    BY <2>4 DEF NothingLeftBehind
  <2>6. NotYetSpawned' /\ DroppedAtTheEnd'
    BY DEF NotYetSpawned, Servers, DroppedAtTheEnd
  <2> QED BY <2>1, <2>3, <2>5, <2>6
<1>11. CASE SignalKills
  BY <1>11, MaxSignalsAssumption
  DEF SignalKills, IInv, TypeOK, NotYetSpawned, MainPastSelect, Ended,
      DroppedAtTheEnd, NothingLeftBehind
<1>12. CASE UNCHANGED vars
  BY <1>12
  DEF vars, IInv, TypeOK, NotYetSpawned, MainPastSelect, Ended,
      DroppedAtTheEnd, NothingLeftBehind
<1> QED
  BY <1>1, <1>2, <1>3, <1>4, <1>5, <1>6, <1>7, <1>8, <1>9, <1>10, <1>11, <1>12 DEF Next

\* The invariant holds throughout.
LEMMA Invariance == Spec => []IInv
  BY InitEstablishes, NextKeeps, PTL DEF Spec

-----------------------------------------------------------------------------
\* Type correctness of the process and its servers, for any requests.
THEOREM TypeCorrect == Spec => []TypeOK
<1>1. IInv => TypeOK
  BY DEF IInv
<1> QED BY <1>1, Invariance, PTL

\* Requests are cut off only on the server that has not ended, once the other
\* one has: draining never drops what its own server accepted (main.rs).
THEOREM OwnServerNeverCutsOff == Spec => []CutOffByTheOtherServer
<1>1. IInv => CutOffByTheOtherServer
  <2> SUFFICES ASSUME IInv, NEW s \in Servers, NEW r \in RequestsOf(s), request[r] = "dropped"
               PROVE  ~Ended(s) /\ \E other \in Servers : Ended(other)
    BY DEF CutOffByTheOtherServer
  <2>1. \E other \in Servers : Ended(other)
    BY OneServerEach DEF IInv, DroppedAtTheEnd, MainPastSelect
  <2>2. ~Ended(s)
    BY DEF IInv, NothingLeftBehind, Ended
  <2> QED BY <2>1, <2>2
<1> QED BY <1>1, Invariance, PTL

=============================================================================
