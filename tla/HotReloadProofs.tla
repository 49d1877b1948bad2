-------------------------- MODULE HotReloadProofs --------------------------
(***************************************************************************)
(* Proofs about HotReload, for any number of versions and starts and any   *)
(* capacity of the channel.                                                *)
(*                                                                         *)
(* TypeOK needs nothing.  Stages says what registry and rules hold at each *)
(* stage of a reload: inductive, whichever backend runs and however a      *)
(* reload ends.  Pending is the strengthening of UpdateOnItsWay: it also   *)
(* looks at the versions a reload has read and not installed, and at       *)
(* start-up.                                                               *)
(***************************************************************************)
EXTENDS HotReload, TLAPS

\* Everything that is not running is reset, and a complete file is the newest.
Rest ==
    /\ file \in Nat => file = written
    /\ proc # "running" => task = "receiving" /\ queue = 0 /\ events = 0 /\ watch = "none"

-----------------------------------------------------------------------------

\* The process is down and no watch exists at the start.
LEMMA InitTypes == Init => TypeOK /\ Rest
BY ReloadAssumption DEF Init, TypeOK, Rest, Versions

\* Every step keeps the types, and a process that is down holds nothing.
LEMMA TypesStep == TypeOK /\ Rest /\ [Next]_vars => TypeOK' /\ Rest'
<1> SUFFICES ASSUME TypeOK, Rest, [Next]_vars PROVE TypeOK' /\ Rest'
  OBVIOUS
<1> USE ReloadAssumption DEF TypeOK, Rest, Versions, diskVars, watchVars, procVars, taskVars,
        liveVars
<1>1. CASE Edit
  <2>1. written + 1 \in Versions /\ written + 1 \in Nat
    BY <1>1 DEF Edit, WriteSome, EndWrite, Rename, MayEdit
  <2>2. fragments' \subseteq Versions
    BY <1>1, <2>1 DEF Edit, WriteSome, EndWrite, Rename
  <2>3. file' \in Versions \cup {Torn, Missing} /\ written' \in Versions
    BY <1>1, <2>1 DEF Edit, WriteSome, EndWrite, Rename
  <2>4. file' \in Nat => file' = written'
    BY <1>1 DEF Edit, WriteSome, EndWrite, Rename
  <2>5. events' \in Nat /\ missed' \in {"yes", "no"} /\ watch' \in {"none", "file", "orphan"}
    BY <1>1 DEF Edit, WriteSome, EndWrite, Rename, Notified
  <2>6. proc' # "running" => events' = 0 /\ watch' = "none"
    BY <1>1 DEF Edit, WriteSome, EndWrite, Rename, Notified
  <2>7. UNCHANGED <<queue, procVars, taskVars, liveVars>>
    BY <1>1 DEF Edit, WriteSome, EndWrite, Rename
  <2> QED
    BY <2>2, <2>3, <2>4, <2>5, <2>6, <2>7
<1>2. CASE Load
  BY <1>2 DEF Load
<1>3. ASSUME Die PROVE TypeOK' /\ Rest'
  BY <1>3 DEF Die
<1>4. CASE Watch \/ Crash
  BY <1>3, <1>4 DEF Watch, Crash
<1>5. CASE Send
  BY <1>5 DEF Send
<1>6. CASE Receive \/ Drain \/ ReadFile
  <2>1. CASE Receive
    BY <2>1 DEF Receive
  <2>2. CASE Drain
    BY <2>2 DEF Drain
  <2>3. CASE ReadFile
    BY <2>3 DEF ReadFile
  <2> QED
    BY <1>6, <2>1, <2>2, <2>3
<1>7. CASE ReloadKeys \/ InstallAuth
  BY <1>7 DEF ReloadKeys, InstallAuth
<1>8. CASE UNCHANGED vars
  BY <1>8 DEF vars
<1> QED
  BY <1>1, <1>2, <1>4, <1>5, <1>6, <1>7, <1>8 DEF Next, ReloadTask

\* Types and the resting process, in every reachable state.
LEMMA TypesInvariant == Spec => [](TypeOK /\ Rest)
BY InitTypes, TypesStep, PTL DEF Spec

\* Type correctness, in every reachable state.
THEOREM TypeCorrect == Spec => []TypeOK
BY TypesInvariant, PTL

-----------------------------------------------------------------------------
(* Registry before rules, and never without them.                          *)

\* What the live cells hold: nothing without a process, the same version
\* between reloads, and during a reload what its stage says.
Stages ==
    /\ proc = "down" <=> keys = Down
    /\ proc = "down" <=> auth = Down
    /\ proc = "down" => lagging = "no"
    /\ keys \in Nat => keys <= written
    /\ auth \in Nat => auth <= written
    /\ auth = Default => keys = Default \/ task = "installing"
    /\ task # "installing" => NotOlder(auth, keys)
    /\ task # "installing" /\ lagging = "no" => auth = keys
    /\ task \in {"reloading", "installing"} =>
         /\ proc # "down"
         /\ loaded <= written
         /\ NotOlder(loaded, keys) /\ NotOlder(loaded, auth)
    /\ task = "installing" /\ lagging = "no" => keys = loaded

\* No reload is under way at the start.
LEMMA InitStages == Init => Stages
BY ReloadAssumption DEF Init, Stages, NotOlder

\* What was read is never older than what is in force, and in a reload the
\* registry is replaced before the rules.
LEMMA StagesStep ==
  TypeOK /\ Rest /\ Stages /\ [Next]_vars => Stages'
<1> SUFFICES ASSUME TypeOK, Rest, Stages, [Next]_vars PROVE Stages'
  OBVIOUS
<1> USE ReloadAssumption DEF TypeOK, Rest, Stages, NotOlder, Versions, diskVars,
        watchVars, procVars, taskVars, liveVars
<1>1. CASE Edit
  BY <1>1 DEF Edit, WriteSome, EndWrite, Rename
<1>2. CASE Load
  BY <1>2 DEF Load
<1>3. ASSUME Die PROVE Stages'
  BY <1>3 DEF Die
<1>4. CASE Watch \/ Crash
  BY <1>3, <1>4 DEF Watch, Crash
<1>5. CASE Send
  BY <1>5 DEF Send
<1>6. CASE Receive \/ Drain
  BY <1>6 DEF Receive, Drain
<1>7. CASE ReadFile
  BY <1>7 DEF ReadFile
<1>8. CASE ReloadKeys
  BY <1>8 DEF ReloadKeys
<1>9. CASE InstallAuth
  BY <1>9 DEF InstallAuth
<1>10. CASE UNCHANGED vars
  BY <1>10 DEF vars
<1> QED
  BY <1>1, <1>2, <1>4, <1>5, <1>6, <1>7, <1>8, <1>9, <1>10 DEF Next, ReloadTask

\* The stages of a reload, in every reachable state.
LEMMA StagesInvariant == Spec => [](TypeOK /\ Rest /\ Stages)
<1>1. Init => TypeOK /\ Rest /\ Stages
  BY InitTypes, InitStages
<1>2. TypeOK /\ Rest /\ Stages /\ [Next]_vars => TypeOK' /\ Rest' /\ Stages'
  BY TypesStep, StagesStep
<1> QED
  BY <1>1, <1>2, PTL DEF Spec

\* The registry is never older than the rules, unless the last reload could
\* not replace it.
THEOREM RegistryFirst == Spec => []KeysNotBehindAuth
<1>1. TypeOK /\ Rest /\ Stages => KeysNotBehindAuth
  BY ReloadAssumption DEF TypeOK, Rest, Stages, KeysNotBehindAuth, NotOlder, Versions
<1> QED
  BY <1>1, StagesInvariant, PTL

\* Between reloads the rules are never older than the registry, on any backend
\* and however the reloads ended.
THEOREM RulesFollow == Spec => []AuthNotBehindKeys
<1>1. Stages => AuthNotBehindKeys
  BY DEF Stages, AuthNotBehindKeys
<1> QED
  BY <1>1, StagesInvariant, PTL

\* HotReload implements LiveConfig, whatever editors, crashes, torn files and
\* failing reloads do: the two cells change only as LiveConfig says.
THEOREM ReloadRefinesLiveConfig == Spec => ImplementsLiveConfig
<1>1. Init => Live!LiveInit
  BY DEF Init, Live!LiveInit
<1>2. TypeOK /\ Rest /\ Stages /\ [Next]_vars => [Live!LiveNext]_(Live!liveVars)
  <2> SUFFICES ASSUME TypeOK, Rest, Stages, [Next]_vars
               PROVE  Live!LiveNext \/ UNCHANGED <<written, keys, auth, lagging>>
    BY DEF Live!liveVars
  <2> USE ReloadAssumption DEF TypeOK, Rest, Stages, NotOlder, Versions,
          diskVars, watchVars, procVars, taskVars, liveVars
  <2>1. ASSUME UNCHANGED <<keys, auth, lagging>>, written' = written + 1
        PROVE  Live!LiveNext
    BY <2>1 DEF Live!LiveNext, Live!Write
  <2>2. CASE Edit
    BY <2>1, <2>2 DEF Edit, WriteSome, EndWrite, Rename
  <2>3. CASE Load
    <3>1. PICK v \in {Default} \cup ({file} \cap Versions) : keys' = v /\ auth' = v
      BY <2>3 DEF Load
    <3>2. v \in Live!Published \cup {Default}
      BY <3>1 DEF Live!Published
    <3>3. Live!StartWith(v)
      BY <2>3, <3>1 DEF Load, Live!StartWith
    <3> QED
      BY <3>2, <3>3 DEF Live!LiveNext
  <2>4. ASSUME Die PROVE Live!LiveNext
    BY <2>4 DEF Die, Live!LiveNext, Live!Stop
  <2>5. CASE Watch \/ Crash
    BY <2>4, <2>5 DEF Watch, Crash
  <2>6. CASE Send \/ Receive \/ Drain \/ ReadFile
    BY <2>6 DEF Send, Receive, Drain, ReadFile
  <2>7. CASE ReloadKeys
    <3>1. loaded \in Live!Published /\ keys # Down
      BY <2>7 DEF ReloadKeys, Live!Published
    <3>2. Live!ReplaceKeys(loaded) \/ Live!KeepKeys
      BY <2>7, <3>1 DEF ReloadKeys, Live!ReplaceKeys, Live!KeepKeys, Live!NotOlder
    <3> QED
      BY <3>1, <3>2 DEF Live!LiveNext
  <2>8. CASE InstallAuth
    <3>1. loaded \in Live!Published
      BY <2>8 DEF InstallAuth, Live!Published
    <3>2. Live!ReplaceAuth(loaded)
      BY <2>8 DEF InstallAuth, Live!ReplaceAuth, Live!NotOlder
    <3> QED
      BY <3>1, <3>2 DEF Live!LiveNext
  <2>9. CASE UNCHANGED vars
    BY <2>9 DEF vars
  <2> QED
    BY <2>2, <2>3, <2>5, <2>6, <2>7, <2>8, <2>9 DEF Next, ReloadTask
<1> QED
  BY <1>1, <1>2, StagesInvariant, PTL DEF Spec, ImplementsLiveConfig, Live!LiveSpec

-----------------------------------------------------------------------------
(* No update is lost.                                                      *)

\* A version that a reload has read but that is not the file's any more is
\* followed by an event; before the watch starts the rules are the file's
\* unless that is marked as missed.
Pending ==
    /\ UpdateOnItsWay
    /\ watch = "file" /\ file \in Nat \ Partial /\ task \in {"reloading", "installing"} /\ loaded # file
         => events > 0 \/ queue > 0
    /\ proc = "loaded" /\ missed = "no" /\ file \in Nat => auth = file

\* No process runs at the start, so no update is pending.
LEMMA InitPending == Init => Pending
BY DEF Init, Pending, UpdateOnItsWay

\* Every change of the file leaves an event, and an event is consumed only by
\* a read that comes after it.
LEMMA PendingStep ==
  TypeOK /\ Rest /\ Pending /\ [Next]_vars => Pending'
<1> SUFFICES ASSUME TypeOK, Rest, Pending, [Next]_vars PROVE Pending'
  OBVIOUS
<1> USE ReloadAssumption DEF TypeOK, Rest, Pending, UpdateOnItsWay, Versions,
        diskVars, watchVars, procVars, taskVars, liveVars
<1>1. CASE Edit
  BY <1>1 DEF Edit, WriteSome, EndWrite, Rename, MayEdit, Notified
<1>2. CASE Load
  BY <1>2 DEF Load
<1>3. ASSUME Die PROVE Pending'
  BY <1>3 DEF Die
<1>4. CASE Watch \/ Crash
  BY <1>3, <1>4 DEF Watch, Crash
<1>5. CASE Send
  BY <1>5 DEF Send
<1>6. CASE Receive
  BY <1>6 DEF Receive
<1>7. CASE Drain
  BY <1>7 DEF Drain
<1>8. CASE ReadFile
  BY <1>8 DEF ReadFile
<1>9. CASE ReloadKeys \/ InstallAuth
  BY <1>9 DEF ReloadKeys, InstallAuth
<1>10. CASE UNCHANGED vars
  BY <1>10 DEF vars
<1> QED
  BY <1>1, <1>2, <1>4, <1>5, <1>6, <1>7, <1>8, <1>9, <1>10 DEF Next, ReloadTask

\* No update is lost between event, channel, debounce and read, for any backend
\* and however reloads end.
THEOREM NoLostUpdate == Spec => []UpdateOnItsWay
<1>1. Init => TypeOK /\ Rest /\ Pending
  BY InitTypes, InitPending
<1>2. TypeOK /\ Rest /\ Pending /\ [Next]_vars => TypeOK' /\ Rest' /\ Pending'
  BY TypesStep, PendingStep
<1>3. Pending => UpdateOnItsWay
  BY DEF Pending
<1> QED
  BY <1>1, <1>2, <1>3, PTL DEF Spec

=============================================================================
