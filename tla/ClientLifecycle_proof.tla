----------------------- MODULE ClientLifecycle_proof -----------------------
(***************************************************************************)
(* For any number of callers, and for any number of calls: what start(),   *)
(* stop(), bias(), wait_for_first_sample(), the receiver thread and the    *)
(* deferred destroyer guarantee together, and that they implement Client.  *)
(***************************************************************************)
EXTENDS ClientLifecycle, TLAPS

LockLabel == {"stopCommand", "stopCheck", "startCheck", "startFaultWait", "startFlags",
              "startThread", "startRestores", "startRelatches"}
SleepLabel == {"startAsleep", "startFaultAsleep", "stopAsleep"}
UnderWay == {"startFlags", "startThread", "startRestores", "startRelatches"}
JoinLabel == {"stopJoin", "startJoin"}
ReapLabel == {"stopJoined", "startJoined"}

\* The receiver is past its last look at stopping_ and the latch, ...
Finishing == {"finishing", "exiting", "leaving", "lastNotify", "ended"}
\* ... has stored worker_exited_, ...
Gone == {"leaving", "lastNotify", "ended", "none"}
\* ... is in stop() called from its callback, which never joins, ...
SelfStop == {"stopLock", "stopCommand", "stopCheck"}
\* ... or may have told the sensor to stream.
Streams == {"receiving", "handling", "callback", "callbackReturns", "delivering", "closing",
            "faultNotify", "finishing"} \cup SelfStop

Labels == UserLabel \cup WorkerLabel \cup DestroyerLabel

\* TypeOK in three parts: where the threads are, ...
LabelOK ==
    /\ pc \in [Threads -> Labels]
    /\ \A u \in Users : pc[u] \in UserLabel
    /\ pc[Worker] \in WorkerLabel
    /\ pc[Destroyer] \in DestroyerLabel

\* ... the flags, ...
FlagOK ==
    /\ stopping \in BOOLEAN /\ exited \in BOOLEAN
    /\ joinable \in BOOLEAN /\ joining \in BOOLEAN /\ active \in BOOLEAN
    /\ started \in BOOLEAN

\* ... and the other values.
DataOK ==
    /\ lock \in Threads \cup {None} /\ sleeping \in SUBSET Threads
    /\ latch \in FaultCode \cup {None} /\ state \in ClientState
    /\ generation \in Nat /\ delivered \in Nat /\ latest \in Nat /\ run \in Nat
    /\ socket \in {"closed", "open", "shut"} /\ commanded \in {"Stop", "Start", "Lost"}
    /\ outcome \in FaultCode \cup {"Stopped", None}
    /\ captured \in [Users -> Nat] /\ calls \in Nat
    /\ policy \in Policies
    /\ saved \in [stopping : BOOLEAN, exited : BOOLEAN, latch : FaultCode \cup {None},
                  state : ClientState, generation : Nat, delivered : Nat, latest : Nat]

\* lifecycle_mutex_ is held exactly in the sections it protects, and exactly the
\* sleepers are asleep.
LockOK ==
    \A t \in Threads : /\ pc[t] \in LockLabel <=> lock = t
                       /\ pc[t] \in SleepLabel <=> t \in sleeping

\* A running receiver is the active one and cannot join itself; only one that is gone
\* has exited.
WorkerOK ==
    /\ pc[Worker] \in StopLabel => pc[Worker] \in SelfStop
    /\ pc[Worker] # "none" => active /\ run > 0
    /\ pc[Worker] \notin Gone => ~ exited

\* Behind the check of start() nobody is joining, and from the reset on there is no
\* receiver.
StartOK ==
    \A u \in Users : /\ pc[u] = "startCheck" => ~ joining
                     /\ pc[u] \in UnderWay => ~ joining /\ ~ joinable

\* The last command was StartRealtime exactly while session_started_ is set, and that is
\* only in a session the receiver has not closed.
StreamOK == (commanded = "Start" <=> started) /\ (started => pc[Worker] \in Streams)

\* The outcome of a session is there while it is needed, and a stop is no failure.
OutcomeOK ==
    /\ outcome = "Stopped" => stopping /\ pc[Worker] \in {"closing", "deciding"}
    /\ pc[Worker] \in {"closing", "deciding"} => outcome # None
    /\ pc[Worker] \in {"faultNotify"} => latch # None
    /\ pc[Worker] \in Finishing => stopping \/ latch # None

\* Only a receiver that has ended its last session leaves a fault behind.
LatchOK ==
    latch # None => pc[Worker] \in Finishing \cup {"none", "faultNotify"}

\* What start() has saved and not yet undone.
SavedOK ==
    /\ saved.latch # None <=> saved.state = "Faulted"
    /\ saved.delivered = saved.generation /\ saved.generation > 0 =>
         saved.latest = run /\ run > 0
    /\ \A u \in Users :
        /\ pc[u] \in UnderWay => latch = None
        /\ pc[u] \in {"startFlags", "startThread", "startRestores"} =>
             state = "Connecting" /\ generation > 0 /\ delivered = 0 /\ latest = 0
        /\ pc[u] = "startThread" => ~ stopping /\ ~ exited
        /\ pc[u] \in {"startRestores", "startRelatches"} =>
             stopping = saved.stopping /\ exited = saved.exited
        /\ pc[u] = "startRelatches" =>
             /\ state = saved.state /\ generation = saved.generation
             /\ delivered = saved.delivered /\ latest = saved.latest

\* A run has delivered exactly when the sample is its own; a waiting caller waits for
\* some run.
DeliveredOK ==
    /\ delivered = generation /\ generation > 0 => latest = run /\ run > 0
    /\ \A u \in Users : pc[u] = "waiting" => captured[u] > 0

\* Once the callback destroys the client nobody else is in it, and the destroyer leaves
\* no receiver behind.
DestroyOK ==
    /\ pc[Destroyer] # "idle" => \A u \in Users : pc[u] = "idle"
    /\ pc[Destroyer] \in {"stopNotify", "destroyed"} => ~ joinable /\ ~ joining

\* A receiver that is gone has exited, unless start() is about to make another; and
\* start() waits only for a receiver that has faulted.
GoneOK ==
    /\ saved.exited
    /\ pc[Worker] \in Gone => exited \/ \E u \in Users : pc[u] = "startThread"
    /\ \A u \in Users : pc[u] = "startFaultWait" => latch # None

\* Whoever sleeps will be notified.
WakeOK ==
    /\ (\E t \in Threads : pc[t] \in {"startAsleep", "stopAsleep"}) =>
            joining \/ \E t \in Threads : pc[t] \in {"startNotify", "stopNotify"}
    /\ \A u \in Users : pc[u] = "startFaultAsleep" =>
            \/ exited \/ pc[Worker] \in {"faultNotify", "finishing", "exiting"}
            \/ \E v \in Users : pc[v] = "startThread"

IInv ==
    /\ LabelOK /\ FlagOK /\ DataOK
    /\ LockOK /\ OneReceiver /\ WorkerOK /\ StartOK
    /\ StreamOK /\ QuietAfterStop /\ OutcomeOK /\ LatchOK /\ LatchShowsInHealth
    /\ SavedOK /\ DeliveredOK /\ DestroyOK /\ GoneOK /\ WakeOK

-----------------------------------------------------------------------------
\* The threads are different ones.
LEMMA Members ==
    /\ Users \subseteq Threads /\ Worker \in Threads /\ Destroyer \in Threads
    /\ None \notin Threads /\ Worker \notin Users /\ Destroyer \notin Users /\ Worker # Destroyer
  BY LifecycleAssumption DEF Threads

\* No receiver while start() is under way.
LEMMA UnderWayAlone ==
    ASSUME OneReceiver, StartOK, NEW u \in Users, pc[u] \in UnderWay
    PROVE  pc[Worker] = "none"
  BY DEF OneReceiver, StartOK

\* TypeOK is the conjunction of its parts.
LEMMA TypeParts == TypeOK <=> LabelOK /\ FlagOK /\ DataOK
  BY DEF TypeOK, LabelOK, FlagOK, DataOK, Labels

\* Nothing has been called yet.
LEMMA InitIInv == Init => IInv
  <1> SUFFICES ASSUME Init PROVE IInv
    OBVIOUS
  <1> USE LifecycleAssumption, Members DEF Init
  <1>1. LabelOK
    BY DEF LabelOK, Labels, UserLabel, WorkerLabel, DestroyerLabel
  <1>2. FlagOK /\ DataOK
    BY DEF FlagOK, DataOK, ClientState, NothingSaved
  <1>3. LockOK /\ WorkerOK /\ StartOK
    BY DEF LockOK, LockLabel, SleepLabel, WorkerOK, StopLabel, Gone, StartOK, UnderWay
  <1>4. OneReceiver
    BY DEF OneReceiver, Joiners, Reapers
  <1>5. StreamOK /\ QuietAfterStop /\ OutcomeOK /\ LatchOK /\ LatchShowsInHealth
    BY DEF StreamOK, QuietAfterStop, OutcomeOK, Finishing, LatchOK, LatchShowsInHealth
  <1>6. SavedOK
    BY DEF SavedOK, NothingSaved, UnderWay
  <1>7. DeliveredOK /\ DestroyOK
    BY DEF DeliveredOK, DestroyOK
  <1>8. GoneOK /\ WakeOK
    BY DEF GoneOK, WakeOK, NothingSaved
  <1> QED BY <1>1, <1>2, <1>3, <1>4, <1>5, <1>6, <1>7, <1>8 DEF IInv
-----------------------------------------------------------------------------
(* What every step preserves, one lemma for each part of the invariant *)

\* Every thread stays in its own code.
LEMMA LabelStep ==
    ASSUME LabelOK, [Next]_vars
    PROVE  LabelOK'
  <1> USE LifecycleAssumption, Members DEF Goto, NotifyAndGoto, Sleep, WakeLabel, AfterStop,
      flags, handle, data, session, history, LabelOK, Labels, UserLabel, WorkerLabel,
      DestroyerLabel, StopLabel, StartLabel
  <1>1. ASSUME NEW u \in Users,
             \/ CallStop(u) \/ CallStart(u) \/ CallWait(u) \/ WaitReturns(u) \/ StartLock(u)
             \/ StartThrows(u) \/ StartSeesFault(u) \/ StartFaultSleeps(u)
             \/ StartFaultWakes(u) \/ StartReaps(u) \/ StartJoins(u) \/ StartJoined(u)
             \/ StartNotify(u) \/ StartResets(u) \/ StartFlags(u) \/ StartCreatesThread(u)
             \/ StartThreadFails(u) \/ StartRestores(u) \/ StartRelatches(u)
        PROVE  LabelOK'
    BY <1>1 DEF CallStop, CallStart, CallWait, WaitReturns, StartLock, StartThrows,
       StartSeesFault, StartFaultSleeps, StartFaultWakes, StartReaps, StartJoins, StartJoined,
       StartNotify, StartResets, StartFlags, StartCreatesThread, StartThreadFails,
       StartRestores, StartRelatches
  <1>2. ASSUME NEW t \in Threads,
             \/ StopLock(t) \/ StopCommand(t) \/ StopFromCallback(t) \/ StopWaitsForJoin(t)
             \/ StopWakes(t) \/ StopNothingToJoin(t) \/ StopTakesHandle(t) \/ StopJoins(t)
             \/ StopJoined(t) \/ StopNotify(t) \/ Bias(t) \/ SpuriousWake(t)
        PROVE  LabelOK'
    BY <1>2 DEF StopLock, StopCommand, TellToStop, StopFromCallback, StopWaitsForJoin,
       StopWakes, StopNothingToJoin, StopTakesHandle, StopJoins, StopJoined, StopNotify, Bias,
       SpuriousWake
  <1>3. CASE \/ WorkerLoops \/ WorkerConnects \/ WorkerDiscovers \/ WorkerOpens
             \/ WorkerCommands \/ WorkerReceives \/ WorkerHandles \/ WorkerThrows
             \/ CallbackStops \/ CallbackStarts \/ CallbackDestroys
             \/ CallbackReturns \/ CallbackThrows
             \/ WorkerDelivers \/ WorkerCloses \/ WorkerDecides \/ WorkerBacksOff
             \/ WorkerNotifiesFault \/ WorkerFinishes \/ WorkerExits \/ WorkerLeaves
             \/ WorkerEnds
    BY <1>3 DEF WorkerLoops, WorkerConnects, EndsWith, WorkerDiscovers, FailsUnlessStopping,
       WorkerOpens, WorkerCommands, WorkerReceives, WorkerHandles, WorkerThrows, CallbackStops,
       CallbackStarts, CallbackDestroys, CallbackReturns, CallbackThrows, WorkerDelivers,
       WorkerCloses, CloseSession, TellToStop, WorkerDecides, WorkerBacksOff,
       WorkerNotifiesFault, WorkerFinishes, WorkerExits, WorkerLeaves, WorkerEnds,
       worker_leaves
  <1>4. CASE UNCHANGED vars
    BY <1>4 DEF vars
  <1> QED BY <1>1, <1>2, <1>3, <1>4
      DEF Next, Stop, Start, Run

\* The flags stay flags.
LEMMA FlagStep ==
    ASSUME FlagOK, DataOK, [Next]_vars
    PROVE  FlagOK'
  <1> USE LifecycleAssumption, Members DEF Goto, NotifyAndGoto, Sleep, WakeLabel, AfterStop,
      flags, handle, data, session, history, FlagOK
  <1>1. ASSUME NEW u \in Users, StartThreadFails(u) PROVE FlagOK'
    BY <1>1 DEF StartThreadFails, DataOK
  <1>2. ASSUME NEW u \in Users,
             \/ CallStop(u) \/ CallStart(u) \/ CallWait(u) \/ WaitReturns(u) \/ StartLock(u)
             \/ StartThrows(u) \/ StartSeesFault(u) \/ StartFaultSleeps(u)
             \/ StartFaultWakes(u) \/ StartReaps(u) \/ StartJoins(u) \/ StartJoined(u)
             \/ StartNotify(u) \/ StartResets(u) \/ StartFlags(u) \/ StartCreatesThread(u)
             \/ StartRestores(u) \/ StartRelatches(u)
        PROVE  FlagOK'
    BY <1>2 DEF CallStop, CallStart, CallWait, WaitReturns, StartLock, StartThrows,
       StartSeesFault, StartFaultSleeps, StartFaultWakes, StartReaps, StartJoins, StartJoined,
       StartNotify, StartResets, StartFlags, StartCreatesThread, StartRestores, StartRelatches
  <1>3. ASSUME NEW t \in Threads,
             \/ StopLock(t) \/ StopCommand(t) \/ StopFromCallback(t) \/ StopWaitsForJoin(t)
             \/ StopWakes(t) \/ StopNothingToJoin(t) \/ StopTakesHandle(t) \/ StopJoins(t)
             \/ StopJoined(t) \/ StopNotify(t) \/ Bias(t) \/ SpuriousWake(t)
        PROVE  FlagOK'
    BY <1>3 DEF StopLock, StopCommand, TellToStop, StopFromCallback, StopWaitsForJoin,
       StopWakes, StopNothingToJoin, StopTakesHandle, StopJoins, StopJoined, StopNotify, Bias,
       SpuriousWake
  <1>4. CASE WorkerCommands
    BY <1>4 DEF WorkerCommands, EndsWith, worker_leaves
  <1>5. CASE WorkerCloses
    BY <1>5 DEF WorkerCloses, CloseSession, TellToStop, worker_leaves
  <1>6. CASE WorkerFinishes
    BY <1>6 DEF WorkerFinishes, CloseSession, TellToStop, worker_leaves
  <1>7. CASE \/ WorkerLoops \/ WorkerConnects \/ WorkerDiscovers \/ WorkerOpens
             \/ WorkerReceives \/ WorkerHandles \/ WorkerThrows \/ WorkerExits \/ WorkerEnds
             \/ WorkerLeaves
    BY <1>7 DEF WorkerLoops, WorkerConnects, EndsWith, WorkerDiscovers, FailsUnlessStopping,
       WorkerOpens, WorkerReceives, WorkerHandles, WorkerThrows, WorkerExits, WorkerEnds,
       WorkerLeaves, worker_leaves
  <1>8. CASE \/ CallbackStops \/ CallbackStarts \/ CallbackDestroys
             \/ CallbackReturns \/ CallbackThrows
             \/ WorkerDelivers \/ WorkerDecides \/ WorkerBacksOff \/ WorkerNotifiesFault
    BY <1>8 DEF CallbackStops, CallbackStarts, CallbackDestroys, CallbackReturns,
       CallbackThrows, WorkerDelivers, WorkerDecides, WorkerBacksOff, WorkerNotifiesFault,
       worker_leaves
  <1>9. CASE UNCHANGED vars
    BY <1>9 DEF vars
  <1> QED BY <1>1, <1>2, <1>3, <1>4, <1>5, <1>6, <1>7, <1>8, <1>9
      DEF Next, Stop, Start, Run

\* The values keep their types.
LEMMA DataStep ==
    ASSUME LabelOK, FlagOK, DataOK, [Next]_vars
    PROVE  DataOK'
  <1> USE LifecycleAssumption, Members DEF Goto, NotifyAndGoto, Sleep, WakeLabel, AfterStop,
      flags, handle, data, session, history, DataOK, ClientState, NothingSaved
  <1>1. ASSUME NEW u \in Users, CallStart(u) PROVE DataOK'
    BY <1>1 DEF CallStart
  <1>2. ASSUME NEW u \in Users, CallStop(u) PROVE DataOK'
    BY <1>2 DEF CallStop
  <1>3. ASSUME NEW u \in Users, CallWait(u) PROVE DataOK'
    BY <1>3 DEF CallWait
  <1>4. ASSUME NEW u \in Users, StartResets(u) PROVE DataOK'
    BY <1>4 DEF StartResets, FlagOK
  <1>5. ASSUME NEW u \in Users, StartCreatesThread(u) PROVE DataOK'
    BY <1>5 DEF StartCreatesThread
  <1>6. ASSUME NEW u \in Users, StartRestores(u) PROVE DataOK'
    BY <1>6 DEF StartRestores
  <1>7. ASSUME NEW u \in Users, StartRelatches(u) PROVE DataOK'
    BY <1>7 DEF StartRelatches
  <1>8. ASSUME NEW u \in Users,
             \/ WaitReturns(u) \/ StartLock(u) \/ StartThrows(u) \/ StartSeesFault(u)
             \/ StartFaultSleeps(u) \/ StartFaultWakes(u) \/ StartReaps(u) \/ StartJoins(u)
             \/ StartJoined(u) \/ StartNotify(u) \/ StartFlags(u) \/ StartThreadFails(u)
        PROVE  DataOK'
    BY <1>8 DEF WaitReturns, StartLock, StartThrows, StartSeesFault, StartFaultSleeps,
       StartFaultWakes, StartReaps, StartJoins, StartJoined, StartNotify, StartFlags,
       StartThreadFails
  <1>9. ASSUME NEW t \in Threads,
             \/ StopLock(t) \/ StopCommand(t) \/ StopFromCallback(t) \/ StopWaitsForJoin(t)
             \/ StopWakes(t) \/ StopNothingToJoin(t) \/ StopTakesHandle(t) \/ StopJoins(t)
             \/ StopJoined(t) \/ StopNotify(t) \/ Bias(t) \/ SpuriousWake(t)
        PROVE  DataOK'
    BY <1>9 DEF StopLock, StopCommand, TellToStop, StopFromCallback, StopWaitsForJoin,
       StopWakes, StopNothingToJoin, StopTakesHandle, StopJoins, StopJoined, StopNotify, Bias,
       SpuriousWake
  <1>10. CASE \/ WorkerLoops \/ WorkerConnects \/ WorkerDiscovers \/ WorkerOpens
              \/ WorkerCommands \/ WorkerReceives \/ WorkerHandles \/ WorkerThrows
              \/ CallbackStops \/ CallbackStarts \/ CallbackDestroys
              \/ CallbackReturns \/ CallbackThrows
              \/ WorkerDelivers \/ WorkerCloses \/ WorkerDecides \/ WorkerBacksOff
              \/ WorkerNotifiesFault \/ WorkerFinishes \/ WorkerExits \/ WorkerLeaves
              \/ WorkerEnds
    BY <1>10 DEF WorkerLoops, WorkerConnects, EndsWith, WorkerDiscovers, FailsUnlessStopping,
       WorkerOpens, WorkerCommands, WorkerReceives, WorkerHandles, WorkerThrows, CallbackStops,
       CallbackStarts, CallbackDestroys, CallbackReturns, CallbackThrows, WorkerDelivers,
       WorkerCloses, CloseSession, TellToStop, WorkerDecides, WorkerBacksOff,
       WorkerNotifiesFault, WorkerFinishes, WorkerExits, WorkerLeaves, WorkerEnds,
       worker_leaves
  <1>11. CASE UNCHANGED vars
    BY <1>11 DEF vars
  <1> QED BY <1>1, <1>2, <1>3, <1>4, <1>5, <1>6, <1>7, <1>8, <1>9, <1>10, <1>11
      DEF Next, Stop, Start, Run

\* A section of lifecycle_mutex_ is entered with the mutex and left without it.
LEMMA LockStep ==
    ASSUME LockOK, OneReceiver, StartOK, LabelOK, [Next]_vars
    PROVE  LockOK'
  <1> USE LifecycleAssumption, Members DEF Goto, NotifyAndGoto, Sleep, WakeLabel, AfterStop,
      flags, handle, data, session, history, LockOK, LockLabel, SleepLabel, LabelOK
  <1>1. ASSUME NEW u \in Users, StartCreatesThread(u) PROVE LockOK'
    BY <1>1, UnderWayAlone DEF StartCreatesThread, UnderWay
  <1>2. ASSUME NEW u \in Users,
             \/ CallStop(u) \/ CallStart(u) \/ CallWait(u) \/ WaitReturns(u) \/ StartLock(u)
             \/ StartThrows(u) \/ StartSeesFault(u) \/ StartFaultSleeps(u)
             \/ StartFaultWakes(u) \/ StartReaps(u) \/ StartJoins(u) \/ StartJoined(u)
             \/ StartNotify(u) \/ StartResets(u) \/ StartFlags(u) \/ StartThreadFails(u)
             \/ StartRestores(u) \/ StartRelatches(u)
        PROVE  LockOK'
    BY <1>2 DEF CallStop, CallStart, CallWait, WaitReturns, StartLock, StartThrows,
       StartSeesFault, StartFaultSleeps, StartFaultWakes, StartReaps, StartJoins, StartJoined,
       StartNotify, StartResets, StartFlags, StartThreadFails, StartRestores, StartRelatches
  <1>3. ASSUME NEW t \in Threads,
             \/ StopLock(t) \/ StopCommand(t) \/ StopFromCallback(t) \/ StopWaitsForJoin(t)
             \/ StopWakes(t) \/ StopNothingToJoin(t) \/ StopTakesHandle(t) \/ StopJoins(t)
             \/ StopJoined(t) \/ StopNotify(t) \/ Bias(t) \/ SpuriousWake(t)
        PROVE  LockOK'
    BY <1>3 DEF StopLock, StopCommand, TellToStop, StopFromCallback, StopWaitsForJoin,
       StopWakes, StopNothingToJoin, StopTakesHandle, StopJoins, StopJoined, StopNotify, Bias,
       SpuriousWake
  <1>4. CASE \/ WorkerLoops \/ WorkerConnects \/ WorkerDiscovers \/ WorkerOpens
             \/ WorkerCommands \/ WorkerReceives \/ WorkerHandles \/ WorkerThrows
             \/ CallbackStops \/ CallbackStarts \/ CallbackDestroys
             \/ CallbackReturns \/ CallbackThrows
             \/ WorkerDelivers \/ WorkerCloses \/ WorkerDecides \/ WorkerBacksOff
             \/ WorkerNotifiesFault \/ WorkerFinishes \/ WorkerExits \/ WorkerLeaves
             \/ WorkerEnds
    BY <1>4 DEF WorkerLoops, WorkerConnects, EndsWith, WorkerDiscovers, FailsUnlessStopping,
       WorkerOpens, WorkerCommands, WorkerReceives, WorkerHandles, WorkerThrows, CallbackStops,
       CallbackStarts, CallbackDestroys, CallbackReturns, CallbackThrows, WorkerDelivers,
       WorkerCloses, CloseSession, TellToStop, WorkerDecides, WorkerBacksOff,
       WorkerNotifiesFault, WorkerFinishes, WorkerExits, WorkerLeaves, WorkerEnds,
       worker_leaves, Usable
  <1>5. CASE UNCHANGED vars
    BY <1>5 DEF vars
  <1> QED BY <1>1, <1>2, <1>3, <1>4, <1>5
      DEF Next, Stop, Start, Run

\* worker_ is moved from before it is joined, under lifecycle_mutex_, and only once.
LEMMA ReceiverStep ==
    ASSUME OneReceiver, LockOK, WorkerOK, StartOK, LabelOK, [Next]_vars
    PROVE  OneReceiver'
  <1> USE LifecycleAssumption, Members DEF Goto, NotifyAndGoto, Sleep, WakeLabel, AfterStop,
      flags, handle, data, session, history, OneReceiver, Joiners, Reapers, WorkerOK, StartOK,
      LockOK, LockLabel, SleepLabel, UnderWay, NotSelf, Usable, StopLabel, SelfStop, Gone,
      LabelOK
  <1>1. ASSUME NEW u \in Users,
             \/ CallStop(u) \/ CallStart(u) \/ CallWait(u) \/ WaitReturns(u) \/ StartLock(u)
             \/ StartThrows(u) \/ StartSeesFault(u) \/ StartFaultSleeps(u)
             \/ StartFaultWakes(u) \/ StartReaps(u) \/ StartJoins(u) \/ StartJoined(u)
             \/ StartNotify(u) \/ StartResets(u) \/ StartFlags(u) \/ StartCreatesThread(u)
             \/ StartThreadFails(u) \/ StartRestores(u) \/ StartRelatches(u)
        PROVE  OneReceiver'
    BY <1>1 DEF CallStop, CallStart, CallWait, WaitReturns, StartLock, StartThrows,
       StartSeesFault, StartFaultSleeps, StartFaultWakes, StartReaps, StartJoins, StartJoined,
       StartNotify, StartResets, StartFlags, StartCreatesThread, StartThreadFails,
       StartRestores, StartRelatches
  <1>2. ASSUME NEW t \in Threads,
             \/ StopLock(t) \/ StopCommand(t) \/ StopFromCallback(t) \/ StopWaitsForJoin(t)
             \/ StopWakes(t) \/ StopNothingToJoin(t) \/ StopTakesHandle(t) \/ StopJoins(t)
             \/ StopJoined(t) \/ StopNotify(t) \/ Bias(t) \/ SpuriousWake(t)
        PROVE  OneReceiver'
    BY <1>2 DEF StopLock, StopCommand, TellToStop, StopFromCallback, StopWaitsForJoin,
       StopWakes, StopNothingToJoin, StopTakesHandle, StopJoins, StopJoined, StopNotify, Bias,
       SpuriousWake
  <1>3. CASE \/ WorkerLoops \/ WorkerConnects \/ WorkerDiscovers \/ WorkerOpens
             \/ WorkerCommands \/ WorkerReceives \/ WorkerHandles \/ WorkerThrows
             \/ CallbackStops \/ CallbackStarts \/ CallbackDestroys
             \/ CallbackReturns \/ CallbackThrows
             \/ WorkerDelivers \/ WorkerCloses \/ WorkerDecides \/ WorkerBacksOff
             \/ WorkerNotifiesFault \/ WorkerFinishes \/ WorkerExits \/ WorkerLeaves
             \/ WorkerEnds
    BY <1>3 DEF WorkerLoops, WorkerConnects, EndsWith, WorkerDiscovers, FailsUnlessStopping,
       WorkerOpens, WorkerCommands, WorkerReceives, WorkerHandles, WorkerThrows, CallbackStops,
       CallbackStarts, CallbackDestroys, CallbackReturns, CallbackThrows, WorkerDelivers,
       WorkerCloses, CloseSession, TellToStop, WorkerDecides, WorkerBacksOff,
       WorkerNotifiesFault, WorkerFinishes, WorkerExits, WorkerLeaves, WorkerEnds,
       worker_leaves
  <1>4. CASE UNCHANGED vars
    BY <1>4 DEF vars
  <1> QED BY <1>1, <1>2, <1>3, <1>4
      DEF Next, Stop, Start, Run

\* stop() in the callback finds itself: the receiver never joins itself.
LEMMA WorkerStep ==
    ASSUME OneReceiver, LockOK, WorkerOK, StartOK, SavedOK, DataOK, LabelOK, [Next]_vars
    PROVE  WorkerOK'
  <1> USE LifecycleAssumption, Members DEF Goto, NotifyAndGoto, Sleep, WakeLabel, AfterStop,
      flags, handle, data, session, history, WorkerOK, StopLabel, SelfStop, Gone, NotSelf,
      LabelOK, Usable
  <1>1. ASSUME NEW u \in Users, StartJoined(u) PROVE WorkerOK'
    BY <1>1 DEF StartJoined, OneReceiver, Joiners, Reapers
  <1>2. ASSUME NEW u \in Users, StartThreadFails(u) PROVE WorkerOK'
    BY <1>2, UnderWayAlone DEF StartThreadFails, UnderWay
  <1>3. ASSUME NEW u \in Users, StartCreatesThread(u) PROVE WorkerOK'
    BY <1>3, UnderWayAlone DEF StartCreatesThread, DataOK, UnderWay, SavedOK
  <1>4. ASSUME NEW u \in Users,
             \/ CallStop(u) \/ CallStart(u) \/ CallWait(u) \/ WaitReturns(u) \/ StartLock(u)
             \/ StartThrows(u) \/ StartSeesFault(u) \/ StartFaultSleeps(u)
             \/ StartFaultWakes(u) \/ StartReaps(u) \/ StartJoins(u) \/ StartNotify(u)
             \/ StartResets(u) \/ StartFlags(u) \/ StartRestores(u) \/ StartRelatches(u)
        PROVE  WorkerOK'
    BY <1>4 DEF CallStop, CallStart, CallWait, WaitReturns, StartLock, StartThrows,
       StartSeesFault, StartFaultSleeps, StartFaultWakes, StartReaps, StartJoins, StartNotify,
       StartResets, StartFlags, StartRestores, StartRelatches
  <1>5. ASSUME NEW t \in Threads, StopJoined(t) PROVE WorkerOK'
    BY <1>5 DEF StopJoined, OneReceiver, Joiners, Reapers
  <1>6. ASSUME NEW t \in Threads,
             \/ StopLock(t) \/ StopCommand(t) \/ StopFromCallback(t) \/ StopWaitsForJoin(t)
             \/ StopWakes(t) \/ StopNothingToJoin(t) \/ StopTakesHandle(t) \/ StopJoins(t)
             \/ StopNotify(t) \/ Bias(t) \/ SpuriousWake(t)
        PROVE  WorkerOK'
    BY <1>6 DEF StopLock, StopCommand, TellToStop, StopFromCallback, StopWaitsForJoin,
       StopWakes, StopNothingToJoin, StopTakesHandle, StopJoins, StopNotify, Bias, SpuriousWake
  <1>7. CASE \/ WorkerLoops \/ WorkerConnects \/ WorkerDiscovers \/ WorkerOpens
             \/ WorkerCommands \/ WorkerReceives \/ WorkerHandles \/ WorkerThrows
             \/ CallbackStops \/ CallbackStarts \/ CallbackDestroys
             \/ CallbackReturns \/ CallbackThrows
             \/ WorkerDelivers \/ WorkerCloses \/ WorkerDecides \/ WorkerBacksOff
             \/ WorkerNotifiesFault \/ WorkerFinishes \/ WorkerExits \/ WorkerLeaves
             \/ WorkerEnds
    BY <1>7 DEF WorkerLoops, WorkerConnects, EndsWith, WorkerDiscovers, FailsUnlessStopping,
       WorkerOpens, WorkerCommands, WorkerReceives, WorkerHandles, WorkerThrows, CallbackStops,
       CallbackStarts, CallbackDestroys, CallbackReturns, CallbackThrows, WorkerDelivers,
       WorkerCloses, CloseSession, TellToStop, WorkerDecides, WorkerBacksOff,
       WorkerNotifiesFault, WorkerFinishes, WorkerExits, WorkerLeaves, WorkerEnds,
       worker_leaves
  <1>8. CASE UNCHANGED vars
    BY <1>8 DEF vars
  <1> QED BY <1>1, <1>2, <1>3, <1>4, <1>5, <1>6, <1>7, <1>8
      DEF Next, Stop, Start, Run

\* Joining begins under lifecycle_mutex_, which start() holds from its check on.
LEMMA StartStep ==
    ASSUME StartOK, LockOK, OneReceiver, LabelOK, [Next]_vars
    PROVE  StartOK'
  <1> USE LifecycleAssumption, Members DEF Goto, NotifyAndGoto, Sleep, WakeLabel, AfterStop,
      flags, handle, data, session, history, StartOK, LockOK, LockLabel, SleepLabel, UnderWay,
      LabelOK, Usable, NotSelf
  <1>1. ASSUME NEW u \in Users,
             \/ CallStop(u) \/ CallStart(u) \/ CallWait(u) \/ WaitReturns(u) \/ StartLock(u)
             \/ StartThrows(u) \/ StartSeesFault(u) \/ StartFaultSleeps(u)
             \/ StartFaultWakes(u) \/ StartReaps(u) \/ StartJoins(u) \/ StartJoined(u)
             \/ StartNotify(u) \/ StartResets(u) \/ StartFlags(u) \/ StartCreatesThread(u)
             \/ StartThreadFails(u) \/ StartRestores(u) \/ StartRelatches(u)
        PROVE  StartOK'
    BY <1>1 DEF CallStop, CallStart, CallWait, WaitReturns, StartLock, StartThrows,
       StartSeesFault, StartFaultSleeps, StartFaultWakes, StartReaps, StartJoins, StartJoined,
       StartNotify, StartResets, StartFlags, StartCreatesThread, StartThreadFails,
       StartRestores, StartRelatches
  <1>2. ASSUME NEW t \in Threads,
             \/ StopLock(t) \/ StopCommand(t) \/ StopFromCallback(t) \/ StopWaitsForJoin(t)
             \/ StopWakes(t) \/ StopNothingToJoin(t) \/ StopTakesHandle(t) \/ StopJoins(t)
             \/ StopJoined(t) \/ StopNotify(t) \/ Bias(t) \/ SpuriousWake(t)
        PROVE  StartOK'
    BY <1>2 DEF StopLock, StopCommand, TellToStop, StopFromCallback, StopWaitsForJoin,
       StopWakes, StopNothingToJoin, StopTakesHandle, StopJoins, StopJoined, StopNotify, Bias,
       SpuriousWake
  <1>3. CASE \/ WorkerLoops \/ WorkerConnects \/ WorkerDiscovers \/ WorkerOpens
             \/ WorkerCommands \/ WorkerReceives \/ WorkerHandles \/ WorkerThrows
             \/ CallbackStops \/ CallbackStarts \/ CallbackDestroys
             \/ CallbackReturns \/ CallbackThrows
             \/ WorkerDelivers \/ WorkerCloses \/ WorkerDecides \/ WorkerBacksOff
             \/ WorkerNotifiesFault \/ WorkerFinishes \/ WorkerExits \/ WorkerLeaves
             \/ WorkerEnds
    BY <1>3 DEF WorkerLoops, WorkerConnects, EndsWith, WorkerDiscovers, FailsUnlessStopping,
       WorkerOpens, WorkerCommands, WorkerReceives, WorkerHandles, WorkerThrows, CallbackStops,
       CallbackStarts, CallbackDestroys, CallbackReturns, CallbackThrows, WorkerDelivers,
       WorkerCloses, CloseSession, TellToStop, WorkerDecides, WorkerBacksOff,
       WorkerNotifiesFault, WorkerFinishes, WorkerExits, WorkerLeaves, WorkerEnds,
       worker_leaves
  <1>4. CASE UNCHANGED vars
    BY <1>4 DEF vars
  <1> QED BY <1>1, <1>2, <1>3, <1>4
      DEF Next, Stop, Start, Run

\* StartRealtime is sent in a session, and every way out of the session takes it back.
LEMMA StreamStep ==
    ASSUME StreamOK, LockOK, OneReceiver, StartOK, WorkerOK, LabelOK, [Next]_vars
    PROVE  StreamOK'
  <1> USE LifecycleAssumption, Members DEF Goto, NotifyAndGoto, Sleep, WakeLabel, AfterStop,
      flags, handle, data, session, history, StreamOK, Streams, SelfStop, LabelOK, Usable,
      WorkerOK, StopLabel, LockOK, SleepLabel, NotSelf, Gone
  <1>1. ASSUME NEW u \in Users, StartCreatesThread(u) PROVE StreamOK'
    BY <1>1, UnderWayAlone DEF StartCreatesThread, UnderWay
  <1>2. ASSUME NEW u \in Users,
             \/ CallStop(u) \/ CallStart(u) \/ CallWait(u) \/ WaitReturns(u) \/ StartLock(u)
             \/ StartThrows(u) \/ StartSeesFault(u) \/ StartFaultSleeps(u)
             \/ StartFaultWakes(u) \/ StartReaps(u) \/ StartJoins(u) \/ StartJoined(u)
             \/ StartNotify(u) \/ StartResets(u) \/ StartFlags(u) \/ StartThreadFails(u)
             \/ StartRestores(u) \/ StartRelatches(u)
        PROVE  StreamOK'
    BY <1>2 DEF CallStop, CallStart, CallWait, WaitReturns, StartLock, StartThrows,
       StartSeesFault, StartFaultSleeps, StartFaultWakes, StartReaps, StartJoins, StartJoined,
       StartNotify, StartResets, StartFlags, StartThreadFails, StartRestores, StartRelatches
  <1>3. ASSUME NEW t \in Threads, StopCommand(t) PROVE StreamOK'
    BY <1>3 DEF StopCommand, TellToStop
  <1>4. ASSUME NEW t \in Threads, Bias(t) PROVE StreamOK'
    BY <1>4 DEF Bias
  <1>5. ASSUME NEW t \in Threads,
             \/ StopLock(t) \/ StopFromCallback(t) \/ StopWaitsForJoin(t) \/ StopWakes(t)
             \/ StopNothingToJoin(t) \/ StopTakesHandle(t) \/ StopJoins(t) \/ StopJoined(t)
             \/ StopNotify(t) \/ SpuriousWake(t)
        PROVE  StreamOK'
    BY <1>5 DEF StopLock, StopFromCallback, StopWaitsForJoin, StopWakes, StopNothingToJoin,
       StopTakesHandle, StopJoins, StopJoined, StopNotify, SpuriousWake
  <1>6. CASE WorkerCommands
    BY <1>6 DEF WorkerCommands, EndsWith, worker_leaves
  <1>7. CASE WorkerCloses
    BY <1>7 DEF WorkerCloses, CloseSession, TellToStop, worker_leaves
  <1>8. CASE WorkerFinishes
    BY <1>8 DEF WorkerFinishes, CloseSession, TellToStop, worker_leaves
  <1>9. CASE \/ WorkerLoops \/ WorkerConnects \/ WorkerDiscovers \/ WorkerOpens
             \/ WorkerReceives \/ WorkerHandles \/ WorkerThrows
             \/ CallbackStops \/ CallbackStarts
             \/ CallbackDestroys \/ CallbackReturns \/ CallbackThrows \/ WorkerDelivers
             \/ WorkerDecides \/ WorkerBacksOff \/ WorkerNotifiesFault \/ WorkerExits
             \/ WorkerLeaves \/ WorkerEnds
    BY <1>9 DEF WorkerLoops, WorkerConnects, EndsWith, WorkerDiscovers, FailsUnlessStopping,
       WorkerOpens, WorkerReceives, WorkerHandles, WorkerThrows, CallbackStops, CallbackStarts,
       CallbackDestroys, CallbackReturns, CallbackThrows, WorkerDelivers, WorkerDecides,
       WorkerBacksOff, WorkerNotifiesFault, WorkerExits, WorkerLeaves, WorkerEnds,
       worker_leaves
  <1>10. CASE UNCHANGED vars
    BY <1>10 DEF vars
  <1> QED BY <1>1, <1>2, <1>3, <1>4, <1>5, <1>6, <1>7, <1>8, <1>9, <1>10
      DEF Next, Stop, Start, Run

\* The two halves of stop(), stopping_ and the command, close the window between them.
LEMMA QuietStep ==
    ASSUME QuietAfterStop, StreamOK, LockOK, OneReceiver, StartOK, LabelOK, [Next]_vars
    PROVE  QuietAfterStop'
  <1> USE LifecycleAssumption, Members DEF Goto, NotifyAndGoto, Sleep, WakeLabel, AfterStop,
      flags, handle, data, session, history, QuietAfterStop, StreamOK, LockOK, LockLabel,
      SleepLabel, LabelOK, Usable
  <1>1. ASSUME NEW u \in Users, StartThreadFails(u) PROVE QuietAfterStop'
    BY <1>1, UnderWayAlone DEF StartThreadFails, UnderWay, Streams, SelfStop
  <1>2. ASSUME NEW u \in Users, StartCreatesThread(u) PROVE QuietAfterStop'
    BY <1>2, UnderWayAlone DEF StartCreatesThread, UnderWay, Streams, SelfStop
  <1>3. ASSUME NEW u \in Users,
             \/ CallStop(u) \/ CallStart(u) \/ CallWait(u) \/ WaitReturns(u) \/ StartLock(u)
             \/ StartThrows(u) \/ StartSeesFault(u) \/ StartFaultSleeps(u)
             \/ StartFaultWakes(u) \/ StartReaps(u) \/ StartJoins(u) \/ StartJoined(u)
             \/ StartNotify(u) \/ StartResets(u) \/ StartFlags(u) \/ StartRestores(u)
             \/ StartRelatches(u)
        PROVE  QuietAfterStop'
    BY <1>3 DEF CallStop, CallStart, CallWait, WaitReturns, StartLock, StartThrows,
       StartSeesFault, StartFaultSleeps, StartFaultWakes, StartReaps, StartJoins, StartJoined,
       StartNotify, StartResets, StartFlags, StartRestores, StartRelatches
  <1>4. ASSUME NEW t \in Threads,
             \/ StopLock(t) \/ StopCommand(t) \/ StopFromCallback(t) \/ StopWaitsForJoin(t)
             \/ StopWakes(t) \/ StopNothingToJoin(t) \/ StopTakesHandle(t) \/ StopJoins(t)
             \/ StopJoined(t) \/ StopNotify(t) \/ Bias(t) \/ SpuriousWake(t)
        PROVE  QuietAfterStop'
    BY <1>4 DEF StopLock, StopCommand, TellToStop, StopFromCallback, StopWaitsForJoin,
       StopWakes, StopNothingToJoin, StopTakesHandle, StopJoins, StopJoined, StopNotify, Bias,
       SpuriousWake
  <1>5. CASE \/ WorkerLoops \/ WorkerConnects \/ WorkerDiscovers \/ WorkerOpens
             \/ WorkerCommands \/ WorkerReceives \/ WorkerHandles \/ WorkerThrows
             \/ CallbackStops \/ CallbackStarts \/ CallbackDestroys
             \/ CallbackReturns \/ CallbackThrows
             \/ WorkerDelivers \/ WorkerCloses \/ WorkerDecides \/ WorkerBacksOff
             \/ WorkerNotifiesFault \/ WorkerFinishes \/ WorkerExits \/ WorkerLeaves
             \/ WorkerEnds
    BY <1>5 DEF WorkerLoops, WorkerConnects, EndsWith, WorkerDiscovers, FailsUnlessStopping,
       WorkerOpens, WorkerCommands, WorkerReceives, WorkerHandles, WorkerThrows, CallbackStops,
       CallbackStarts, CallbackDestroys, CallbackReturns, CallbackThrows, WorkerDelivers,
       WorkerCloses, CloseSession, TellToStop, WorkerDecides, WorkerBacksOff,
       WorkerNotifiesFault, WorkerFinishes, WorkerExits, WorkerLeaves, WorkerEnds,
       worker_leaves
  <1>6. CASE UNCHANGED vars
    BY <1>6 DEF vars
  <1> QED BY <1>1, <1>2, <1>3, <1>4, <1>5, <1>6
      DEF Next, Stop, Start, Run

\* A session ends with a reason, the receiver only with a stop or a fault.
LEMMA OutcomeStep ==
    ASSUME OutcomeOK, LatchOK, LockOK, OneReceiver, StartOK, SavedOK, WorkerOK, DataOK, LabelOK,
           [Next]_vars
    PROVE  OutcomeOK'
  <1> USE LifecycleAssumption, Members DEF Goto, NotifyAndGoto, Sleep, WakeLabel, AfterStop,
      flags, handle, data, session, history, OutcomeOK, Finishing, LatchOK, LockOK, SleepLabel,
      LabelOK, Usable, NotSelf, Gone, StopLabel, SelfStop, WorkerOK, Faulted
  <1>1. ASSUME NEW u \in Users, StartResets(u) PROVE OutcomeOK'
    BY <1>1 DEF StartResets, OneReceiver, StartOK
  <1>2. ASSUME NEW u \in Users,
             \/ StartFlags(u) \/ StartThreadFails(u) \/ StartCreatesThread(u)
        PROVE  OutcomeOK'
    BY <1>2, UnderWayAlone DEF StartFlags, StartThreadFails, StartCreatesThread, UnderWay
  <1>3. ASSUME NEW u \in Users, StartRelatches(u) PROVE OutcomeOK'
    BY <1>3, UnderWayAlone DEF StartRelatches, UnderWay
  <1>4. ASSUME NEW u \in Users,
             \/ CallStop(u) \/ CallStart(u) \/ CallWait(u) \/ WaitReturns(u) \/ StartLock(u)
             \/ StartThrows(u) \/ StartSeesFault(u) \/ StartFaultSleeps(u)
             \/ StartFaultWakes(u) \/ StartReaps(u) \/ StartJoins(u) \/ StartJoined(u)
             \/ StartNotify(u) \/ StartRestores(u)
        PROVE  OutcomeOK'
    BY <1>4 DEF CallStop, CallStart, CallWait, WaitReturns, StartLock, StartThrows,
       StartSeesFault, StartFaultSleeps, StartFaultWakes, StartReaps, StartJoins, StartJoined,
       StartNotify, StartRestores
  <1>5. ASSUME NEW t \in Threads,
             \/ StopLock(t) \/ StopCommand(t) \/ StopFromCallback(t) \/ StopWaitsForJoin(t)
             \/ StopWakes(t) \/ StopNothingToJoin(t) \/ StopTakesHandle(t) \/ StopJoins(t)
             \/ StopJoined(t) \/ StopNotify(t) \/ Bias(t) \/ SpuriousWake(t)
        PROVE  OutcomeOK'
    BY <1>5 DEF StopLock, StopCommand, TellToStop, StopFromCallback, StopWaitsForJoin,
       StopWakes, StopNothingToJoin, StopTakesHandle, StopJoins, StopJoined, StopNotify, Bias,
       SpuriousWake
  <1>6. CASE \/ WorkerLoops \/ WorkerConnects \/ WorkerDiscovers \/ WorkerOpens
             \/ WorkerCommands \/ WorkerReceives \/ WorkerHandles \/ WorkerThrows
             \/ CallbackStops \/ CallbackStarts \/ CallbackDestroys
             \/ CallbackReturns \/ CallbackThrows
             \/ WorkerDelivers \/ WorkerCloses \/ WorkerDecides \/ WorkerBacksOff
             \/ WorkerNotifiesFault \/ WorkerFinishes \/ WorkerExits \/ WorkerLeaves
             \/ WorkerEnds
    BY <1>6 DEF WorkerLoops, WorkerConnects, EndsWith, WorkerDiscovers, FailsUnlessStopping,
       WorkerOpens, WorkerCommands, WorkerReceives, WorkerHandles, WorkerThrows, CallbackStops,
       CallbackStarts, CallbackDestroys, CallbackReturns, CallbackThrows, WorkerDelivers,
       WorkerCloses, CloseSession, TellToStop, WorkerDecides, WorkerBacksOff,
       WorkerNotifiesFault, WorkerFinishes, WorkerExits, WorkerLeaves, WorkerEnds,
       worker_leaves, DataOK
  <1>7. CASE UNCHANGED vars
    BY <1>7 DEF vars
  <1> QED BY <1>1, <1>2, <1>3, <1>4, <1>5, <1>6, <1>7
      DEF Next, Stop, Start, Run

\* The latch is set on the way out.
LEMMA LatchStep ==
    ASSUME LatchOK, OutcomeOK, LockOK, OneReceiver, StartOK, SavedOK, WorkerOK, LabelOK,
           [Next]_vars
    PROVE  LatchOK'
  <1> USE LifecycleAssumption, Members DEF Goto, NotifyAndGoto, Sleep, WakeLabel, AfterStop,
      flags, handle, data, session, history, LatchOK, Finishing, LockOK, SleepLabel, LabelOK,
      Usable, NotSelf, Gone, StopLabel, SelfStop, WorkerOK, Faulted
  <1>1. ASSUME NEW u \in Users, StartCreatesThread(u) PROVE LatchOK'
    BY <1>1, UnderWayAlone DEF StartCreatesThread, UnderWay, SavedOK
  <1>2. ASSUME NEW u \in Users, StartRelatches(u) PROVE LatchOK'
    BY <1>2, UnderWayAlone DEF StartRelatches, UnderWay
  <1>3. ASSUME NEW u \in Users,
             \/ CallStop(u) \/ CallStart(u) \/ CallWait(u) \/ WaitReturns(u) \/ StartLock(u)
             \/ StartThrows(u) \/ StartSeesFault(u) \/ StartFaultSleeps(u)
             \/ StartFaultWakes(u) \/ StartReaps(u) \/ StartJoins(u) \/ StartJoined(u)
             \/ StartNotify(u) \/ StartResets(u) \/ StartFlags(u) \/ StartThreadFails(u)
             \/ StartRestores(u)
        PROVE  LatchOK'
    BY <1>3 DEF CallStop, CallStart, CallWait, WaitReturns, StartLock, StartThrows,
       StartSeesFault, StartFaultSleeps, StartFaultWakes, StartReaps, StartJoins, StartJoined,
       StartNotify, StartResets, StartFlags, StartThreadFails, StartRestores
  <1>4. ASSUME NEW t \in Threads,
             \/ StopLock(t) \/ StopCommand(t) \/ StopFromCallback(t) \/ StopWaitsForJoin(t)
             \/ StopWakes(t) \/ StopNothingToJoin(t) \/ StopTakesHandle(t) \/ StopJoins(t)
             \/ StopJoined(t) \/ StopNotify(t) \/ Bias(t) \/ SpuriousWake(t)
        PROVE  LatchOK'
    BY <1>4 DEF StopLock, StopCommand, TellToStop, StopFromCallback, StopWaitsForJoin,
       StopWakes, StopNothingToJoin, StopTakesHandle, StopJoins, StopJoined, StopNotify, Bias,
       SpuriousWake
  <1>5. CASE \/ WorkerLoops \/ WorkerConnects \/ WorkerDiscovers \/ WorkerOpens
             \/ WorkerCommands \/ WorkerReceives \/ WorkerHandles \/ WorkerThrows
             \/ CallbackStops \/ CallbackStarts \/ CallbackDestroys
             \/ CallbackReturns \/ CallbackThrows
             \/ WorkerDelivers \/ WorkerCloses \/ WorkerDecides \/ WorkerBacksOff
             \/ WorkerNotifiesFault \/ WorkerFinishes \/ WorkerExits \/ WorkerLeaves
             \/ WorkerEnds
    BY <1>5 DEF WorkerLoops, WorkerConnects, EndsWith, WorkerDiscovers, FailsUnlessStopping,
       WorkerOpens, WorkerCommands, WorkerReceives, WorkerHandles, WorkerThrows, CallbackStops,
       CallbackStarts, CallbackDestroys, CallbackReturns, CallbackThrows, WorkerDelivers,
       WorkerCloses, CloseSession, TellToStop, WorkerDecides, WorkerBacksOff,
       WorkerNotifiesFault, WorkerFinishes, WorkerExits, WorkerLeaves, WorkerEnds,
       worker_leaves
  <1>6. CASE UNCHANGED vars
    BY <1>6 DEF vars
  <1> QED BY <1>1, <1>2, <1>3, <1>4, <1>5, <1>6
      DEF Next, Stop, Start, Run

\* The state is changed with the latch, or not while it is set.
LEMMA HealthStep ==
    ASSUME LatchShowsInHealth, LatchOK, OutcomeOK, LockOK, OneReceiver, StartOK, SavedOK,
           WorkerOK, LabelOK, [Next]_vars
    PROVE  LatchShowsInHealth'
  <1> USE LifecycleAssumption, Members DEF Goto, NotifyAndGoto, Sleep, WakeLabel, AfterStop,
      flags, handle, data, session, history, LatchShowsInHealth, LatchOK, Finishing, LockOK,
      LockLabel, SleepLabel, LabelOK, Usable, NotSelf, Gone, StopLabel, SelfStop, WorkerOK,
      Faulted
  <1>1. ASSUME NEW u \in Users, StartCreatesThread(u) PROVE LatchShowsInHealth'
    BY <1>1, UnderWayAlone DEF StartCreatesThread, UnderWay, SavedOK
  <1>2. ASSUME NEW u \in Users, StartRelatches(u) PROVE LatchShowsInHealth'
    BY <1>2, UnderWayAlone DEF StartRelatches, UnderWay, SavedOK
  <1>3. ASSUME NEW u \in Users, StartRestores(u) PROVE LatchShowsInHealth'
    BY <1>3 DEF StartRestores, UnderWay, SavedOK
  <1>4. ASSUME NEW u \in Users,
             \/ CallStop(u) \/ CallStart(u) \/ CallWait(u) \/ WaitReturns(u) \/ StartLock(u)
             \/ StartThrows(u) \/ StartSeesFault(u) \/ StartFaultSleeps(u)
             \/ StartFaultWakes(u) \/ StartReaps(u) \/ StartJoins(u) \/ StartJoined(u)
             \/ StartNotify(u) \/ StartResets(u) \/ StartFlags(u) \/ StartThreadFails(u)
        PROVE  LatchShowsInHealth'
    BY <1>4 DEF CallStop, CallStart, CallWait, WaitReturns, StartLock, StartThrows,
       StartSeesFault, StartFaultSleeps, StartFaultWakes, StartReaps, StartJoins, StartJoined,
       StartNotify, StartResets, StartFlags, StartThreadFails
  <1>5. ASSUME NEW t \in Threads, StopJoined(t) PROVE LatchShowsInHealth'
    BY <1>5 DEF StopJoined, UnderWay, StartOK, OneReceiver, Joiners, Reapers
  <1>6. ASSUME NEW t \in Threads,
             \/ StopLock(t) \/ StopCommand(t) \/ StopFromCallback(t) \/ StopWaitsForJoin(t)
             \/ StopWakes(t) \/ StopNothingToJoin(t) \/ StopTakesHandle(t) \/ StopJoins(t)
             \/ StopNotify(t) \/ Bias(t) \/ SpuriousWake(t)
        PROVE  LatchShowsInHealth'
    BY <1>6 DEF StopLock, StopCommand, TellToStop, StopFromCallback, StopWaitsForJoin,
       StopWakes, StopNothingToJoin, StopTakesHandle, StopJoins, StopNotify, Bias, SpuriousWake
  <1>7. CASE \/ WorkerLoops \/ WorkerConnects \/ WorkerDiscovers \/ WorkerOpens
             \/ WorkerCommands \/ WorkerReceives \/ WorkerHandles \/ WorkerThrows
             \/ CallbackStops \/ CallbackStarts \/ CallbackDestroys
             \/ CallbackReturns \/ CallbackThrows
             \/ WorkerDelivers \/ WorkerCloses \/ WorkerDecides \/ WorkerBacksOff
             \/ WorkerNotifiesFault \/ WorkerFinishes \/ WorkerExits \/ WorkerLeaves
             \/ WorkerEnds
    BY <1>7, UnderWayAlone DEF WorkerLoops, WorkerConnects, EndsWith, WorkerDiscovers,
       FailsUnlessStopping, WorkerOpens, WorkerCommands, WorkerReceives, WorkerHandles,
       WorkerThrows, CallbackStops, CallbackStarts, CallbackDestroys, CallbackReturns,
       CallbackThrows, WorkerDelivers, WorkerCloses, CloseSession, TellToStop, WorkerDecides,
       WorkerBacksOff, WorkerNotifiesFault, WorkerFinishes, WorkerExits, WorkerLeaves,
       WorkerEnds, worker_leaves, UnderWay, OutcomeOK
  <1>8. CASE UNCHANGED vars
    BY <1>8 DEF vars
  <1> QED BY <1>1, <1>2, <1>3, <1>4, <1>5, <1>6, <1>7, <1>8
      DEF Next, Stop, Start, Run

\* start() saves what is consistent, and nobody interferes before it has put it back.
LEMMA SavedStep ==
    ASSUME SavedOK, LatchShowsInHealth, LockOK, OneReceiver, StartOK, WorkerOK, DeliveredOK,
           DataOK, LabelOK, [Next]_vars
    PROVE  SavedOK'
  <1> USE LifecycleAssumption, Members DEF Goto, NotifyAndGoto, Sleep, WakeLabel, AfterStop,
      flags, handle, data, session, history, SavedOK, UnderWay, LockOK, LockLabel, SleepLabel,
      LabelOK, Usable, NotSelf, Faulted
  <1>1. ASSUME NEW u \in Users, StartResets(u) PROVE SavedOK'
    BY <1>1 DEF StartResets, LatchShowsInHealth, DeliveredOK, DataOK
  <1>2. ASSUME NEW u \in Users,
             \/ StartFlags(u) \/ StartThreadFails(u)
        PROVE  SavedOK'
    BY <1>2 DEF StartFlags, StartThreadFails
  <1>3. ASSUME NEW u \in Users, StartCreatesThread(u) PROVE SavedOK'
    <2>1. \A w \in Users : pc'[w] \notin UnderWay
      BY <1>3 DEF StartCreatesThread
    <2>2. saved'.latch = None /\ saved'.state = "Stopped" /\ saved'.generation = 0
      BY <1>3 DEF StartCreatesThread, NothingSaved
    <2> QED BY <2>1, <2>2
  <1>4. ASSUME NEW u \in Users,
             \/ StartRestores(u) \/ StartRelatches(u)
        PROVE  SavedOK'
    BY <1>4 DEF StartRestores, StartRelatches, NothingSaved, DataOK
  <1>5. ASSUME NEW u \in Users,
             \/ CallStop(u) \/ CallStart(u) \/ CallWait(u) \/ WaitReturns(u) \/ StartLock(u)
             \/ StartThrows(u) \/ StartSeesFault(u) \/ StartFaultSleeps(u)
             \/ StartFaultWakes(u) \/ StartReaps(u) \/ StartJoins(u) \/ StartJoined(u)
             \/ StartNotify(u)
        PROVE  SavedOK'
    BY <1>5 DEF CallStop, CallStart, CallWait, WaitReturns, StartLock, StartThrows,
       StartSeesFault, StartFaultSleeps, StartFaultWakes, StartReaps, StartJoins, StartJoined,
       StartNotify
  <1>6. ASSUME NEW t \in Threads, StopJoined(t) PROVE SavedOK'
    BY <1>6 DEF StopJoined, StartOK, OneReceiver, Joiners, Reapers
  <1>7. ASSUME NEW t \in Threads,
             \/ StopLock(t) \/ StopCommand(t) \/ StopFromCallback(t) \/ StopWaitsForJoin(t)
             \/ StopWakes(t) \/ StopNothingToJoin(t) \/ StopTakesHandle(t) \/ StopJoins(t)
             \/ StopNotify(t) \/ Bias(t) \/ SpuriousWake(t)
        PROVE  SavedOK'
    BY <1>7, UnderWayAlone DEF StopLock, StopCommand, TellToStop, StopFromCallback,
       StopWaitsForJoin,
       StopWakes, StopNothingToJoin, StopTakesHandle, StopJoins, StopNotify, Bias, SpuriousWake
  <1>8. CASE \/ WorkerLoops \/ WorkerConnects \/ WorkerDiscovers \/ WorkerOpens
             \/ WorkerCommands \/ WorkerReceives \/ WorkerHandles \/ WorkerThrows
             \/ CallbackStops \/ CallbackStarts \/ CallbackDestroys
             \/ CallbackReturns \/ CallbackThrows
             \/ WorkerDelivers \/ WorkerCloses \/ WorkerDecides \/ WorkerBacksOff
             \/ WorkerNotifiesFault \/ WorkerFinishes \/ WorkerExits \/ WorkerLeaves
             \/ WorkerEnds
    BY <1>8, UnderWayAlone DEF WorkerLoops, WorkerConnects, EndsWith, WorkerDiscovers,
       FailsUnlessStopping, WorkerOpens, WorkerCommands, WorkerReceives, WorkerHandles,
       WorkerThrows, CallbackStops, CallbackStarts, CallbackDestroys, CallbackReturns,
       CallbackThrows, WorkerDelivers, WorkerCloses, CloseSession, TellToStop, WorkerDecides,
       WorkerBacksOff, WorkerNotifiesFault, WorkerFinishes, WorkerExits, WorkerLeaves,
       WorkerEnds, worker_leaves
  <1>9. CASE UNCHANGED vars
    BY <1>9 DEF vars
  <1> QED BY <1>1, <1>2, <1>3, <1>4, <1>5, <1>6, <1>7, <1>8, <1>9
      DEF Next, Stop, Start, Run

\* A generation number that is reused by start() finds its own sample again.
LEMMA DeliveredStep ==
    ASSUME DeliveredOK, SavedOK, WorkerOK, LockOK, DataOK, LabelOK, [Next]_vars
    PROVE  DeliveredOK'
  <1> USE LifecycleAssumption, Members DEF Goto, NotifyAndGoto, Sleep, WakeLabel, AfterStop,
      flags, handle, data, session, history, DeliveredOK, UnderWay, LockOK, SleepLabel, LabelOK,
      Usable, DataOK
  <1>1. ASSUME NEW u \in Users, StartCreatesThread(u) PROVE DeliveredOK'
    BY <1>1 DEF StartCreatesThread, SavedOK
  <1>2. ASSUME NEW u \in Users, StartRestores(u) PROVE DeliveredOK'
    BY <1>2 DEF StartRestores, SavedOK
  <1>3. ASSUME NEW u \in Users, StartResets(u) PROVE DeliveredOK'
    BY <1>3 DEF StartResets
  <1>4. ASSUME NEW u \in Users,
             \/ CallStop(u) \/ CallStart(u) \/ CallWait(u) \/ WaitReturns(u) \/ StartLock(u)
             \/ StartThrows(u) \/ StartSeesFault(u) \/ StartFaultSleeps(u)
             \/ StartFaultWakes(u) \/ StartReaps(u) \/ StartJoins(u) \/ StartJoined(u)
             \/ StartNotify(u) \/ StartFlags(u) \/ StartThreadFails(u) \/ StartRelatches(u)
        PROVE  DeliveredOK'
    BY <1>4 DEF CallStop, CallStart, CallWait, WaitReturns, StartLock, StartThrows,
       StartSeesFault, StartFaultSleeps, StartFaultWakes, StartReaps, StartJoins, StartJoined,
       StartNotify, StartFlags, StartThreadFails, StartRelatches
  <1>5. ASSUME NEW t \in Threads,
             \/ StopLock(t) \/ StopCommand(t) \/ StopFromCallback(t) \/ StopWaitsForJoin(t)
             \/ StopWakes(t) \/ StopNothingToJoin(t) \/ StopTakesHandle(t) \/ StopJoins(t)
             \/ StopJoined(t) \/ StopNotify(t) \/ Bias(t) \/ SpuriousWake(t)
        PROVE  DeliveredOK'
    BY <1>5 DEF StopLock, StopCommand, TellToStop, StopFromCallback, StopWaitsForJoin,
       StopWakes, StopNothingToJoin, StopTakesHandle, StopJoins, StopJoined, StopNotify, Bias,
       SpuriousWake
  <1>6. CASE WorkerDelivers
    BY <1>6 DEF WorkerDelivers, worker_leaves, WorkerOK
  <1>7. CASE \/ WorkerLoops \/ WorkerConnects \/ WorkerDiscovers \/ WorkerOpens
             \/ WorkerCommands \/ WorkerReceives \/ WorkerHandles \/ WorkerThrows
             \/ CallbackStops \/ CallbackStarts \/ CallbackDestroys
             \/ CallbackReturns \/ CallbackThrows
             \/ WorkerCloses \/ WorkerDecides \/ WorkerBacksOff \/ WorkerNotifiesFault
             \/ WorkerFinishes \/ WorkerExits \/ WorkerLeaves \/ WorkerEnds
    BY <1>7 DEF WorkerLoops, WorkerConnects, EndsWith, WorkerDiscovers, FailsUnlessStopping,
       WorkerOpens, WorkerCommands, WorkerReceives, WorkerHandles, WorkerThrows, CallbackStops,
       CallbackStarts, CallbackDestroys, CallbackReturns, CallbackThrows, WorkerCloses,
       CloseSession, TellToStop, WorkerDecides, WorkerBacksOff, WorkerNotifiesFault,
       WorkerFinishes, WorkerExits, WorkerLeaves, WorkerEnds, worker_leaves
  <1>8. CASE UNCHANGED vars
    BY <1>8 DEF vars
  <1> QED BY <1>1, <1>2, <1>3, <1>4, <1>5, <1>6, <1>7, <1>8
      DEF Next, Stop, Start, Run

\* A destroyed client has no users and no receiver.
LEMMA DestroyStep ==
    ASSUME DestroyOK, OneReceiver, WorkerOK, LockOK, LabelOK, [Next]_vars
    PROVE  DestroyOK'
  <1> USE LifecycleAssumption, Members DEF Goto, NotifyAndGoto, Sleep, WakeLabel, AfterStop,
      flags, handle, data, session, history, DestroyOK, LockOK, SleepLabel, LabelOK, Usable,
      NotSelf, OneReceiver, Joiners, Reapers
  <1>1. ASSUME NEW u \in Users,
             \/ CallStop(u) \/ CallStart(u) \/ CallWait(u) \/ WaitReturns(u) \/ StartLock(u)
             \/ StartThrows(u) \/ StartSeesFault(u) \/ StartFaultSleeps(u)
             \/ StartFaultWakes(u) \/ StartReaps(u) \/ StartJoins(u) \/ StartJoined(u)
             \/ StartNotify(u) \/ StartResets(u) \/ StartFlags(u) \/ StartCreatesThread(u)
             \/ StartThreadFails(u) \/ StartRestores(u) \/ StartRelatches(u)
        PROVE  DestroyOK'
    BY <1>1 DEF CallStop, CallStart, CallWait, WaitReturns, StartLock, StartThrows,
       StartSeesFault, StartFaultSleeps, StartFaultWakes, StartReaps, StartJoins, StartJoined,
       StartNotify, StartResets, StartFlags, StartCreatesThread, StartThreadFails,
       StartRestores, StartRelatches
  <1>2. ASSUME NEW t \in Threads, StopNothingToJoin(t) PROVE DestroyOK'
    BY <1>2 DEF StopNothingToJoin
  <1>3. ASSUME NEW t \in Threads, StopJoined(t) PROVE DestroyOK'
    BY <1>3 DEF StopJoined
  <1>4. ASSUME NEW t \in Threads,
             \/ StopLock(t) \/ StopCommand(t) \/ StopFromCallback(t) \/ StopWaitsForJoin(t)
             \/ StopWakes(t) \/ StopTakesHandle(t) \/ StopJoins(t) \/ StopNotify(t) \/ Bias(t)
             \/ SpuriousWake(t)
        PROVE  DestroyOK'
    BY <1>4 DEF StopLock, StopCommand, TellToStop, StopFromCallback, StopWaitsForJoin,
       StopWakes, StopTakesHandle, StopJoins, StopNotify, Bias, SpuriousWake
  <1>5. CASE \/ WorkerLoops \/ WorkerConnects \/ WorkerDiscovers \/ WorkerOpens
             \/ WorkerCommands \/ WorkerReceives \/ WorkerHandles \/ WorkerThrows
             \/ CallbackStops \/ CallbackStarts \/ CallbackDestroys
             \/ CallbackReturns \/ CallbackThrows
             \/ WorkerDelivers \/ WorkerCloses \/ WorkerDecides \/ WorkerBacksOff
             \/ WorkerNotifiesFault \/ WorkerFinishes \/ WorkerExits \/ WorkerLeaves
             \/ WorkerEnds
    BY <1>5 DEF WorkerLoops, WorkerConnects, EndsWith, WorkerDiscovers, FailsUnlessStopping,
       WorkerOpens, WorkerCommands, WorkerReceives, WorkerHandles, WorkerThrows, CallbackStops,
       CallbackStarts, CallbackDestroys, CallbackReturns, CallbackThrows, WorkerDelivers,
       WorkerCloses, CloseSession, TellToStop, WorkerDecides, WorkerBacksOff,
       WorkerNotifiesFault, WorkerFinishes, WorkerExits, WorkerLeaves, WorkerEnds,
       worker_leaves
  <1>6. CASE UNCHANGED vars
    BY <1>6 DEF vars
  <1> QED BY <1>1, <1>2, <1>3, <1>4, <1>5, <1>6
      DEF Next, Stop, Start, Run

\* worker_exited_ is true before every start() and again once the receiver is past it.
LEMMA GoneStep ==
    ASSUME GoneOK, LockOK, OneReceiver, WorkerOK, StartOK, SavedOK, DataOK, LabelOK, [Next]_vars
    PROVE  GoneOK'
  <1> USE LifecycleAssumption, Members DEF Goto, NotifyAndGoto, Sleep, WakeLabel, AfterStop,
      flags, handle, data, session, history, GoneOK, Gone, LockOK, LockLabel,
      SleepLabel, WorkerOK, StopLabel, SelfStop, LabelOK, Usable, NotSelf, UnderWay, Faulted
  <1>1. ASSUME NEW u \in Users, StartFaultSleeps(u) PROVE GoneOK'
    BY <1>1 DEF StartFaultSleeps
  <1>2. ASSUME NEW u \in Users, StartCreatesThread(u) PROVE GoneOK'
    BY <1>2 DEF StartCreatesThread, NothingSaved
  <1>3. ASSUME NEW u \in Users,
             \/ CallStop(u) \/ CallStart(u) \/ CallWait(u) \/ WaitReturns(u) \/ StartLock(u)
             \/ StartThrows(u) \/ StartSeesFault(u) \/ StartFaultWakes(u) \/ StartReaps(u)
             \/ StartJoins(u) \/ StartJoined(u)
        PROVE  GoneOK'
    BY <1>3 DEF CallStop, CallStart, CallWait, WaitReturns, StartLock, StartThrows,
       StartSeesFault, StartFaultWakes, StartReaps, StartJoins, StartJoined
  <1>4. ASSUME NEW u \in Users, StartNotify(u) \/ StartFlags(u) \/ StartRestores(u)
        PROVE  GoneOK'
    BY <1>4 DEF StartNotify, StartFlags, StartRestores
  <1>5. ASSUME NEW u \in Users, StartResets(u) PROVE GoneOK'
    BY <1>5 DEF StartResets, OneReceiver, Joiners, StartOK
  <1>6. ASSUME NEW u \in Users, StartThreadFails(u) PROVE GoneOK'
    BY <1>6 DEF StartThreadFails
  <1>7. ASSUME NEW u \in Users, StartRelatches(u) PROVE GoneOK'
    BY <1>7 DEF StartRelatches, NothingSaved
  <1>8. ASSUME NEW t \in Threads,
             \/ StopLock(t) \/ StopCommand(t) \/ StopFromCallback(t) \/ StopWaitsForJoin(t)
             \/ StopWakes(t) \/ StopNothingToJoin(t) \/ StopTakesHandle(t) \/ StopJoins(t)
             \/ StopJoined(t) \/ StopNotify(t) \/ Bias(t) \/ SpuriousWake(t)
        PROVE  GoneOK'
    BY <1>8 DEF StopLock, StopCommand, TellToStop, StopFromCallback, StopWaitsForJoin,
       StopWakes, StopNothingToJoin, StopTakesHandle, StopJoins, StopJoined, StopNotify, Bias,
       SpuriousWake
  <1>9. CASE \/ WorkerLoops \/ WorkerConnects \/ WorkerDiscovers \/ WorkerOpens
             \/ WorkerCommands \/ WorkerReceives \/ WorkerHandles \/ WorkerThrows
             \/ CallbackStops \/ CallbackStarts \/ CallbackDestroys
             \/ CallbackReturns \/ CallbackThrows
             \/ WorkerDelivers \/ WorkerCloses \/ WorkerDecides \/ WorkerBacksOff
             \/ WorkerNotifiesFault \/ WorkerFinishes \/ WorkerExits \/ WorkerLeaves
             \/ WorkerEnds
    BY <1>9 DEF WorkerLoops, WorkerConnects, EndsWith, WorkerDiscovers, FailsUnlessStopping,
       WorkerOpens, WorkerCommands, WorkerReceives, WorkerHandles, WorkerThrows, CallbackStops,
       CallbackStarts, CallbackDestroys, CallbackReturns, CallbackThrows, WorkerDelivers,
       WorkerCloses, CloseSession, TellToStop, WorkerDecides, WorkerBacksOff,
       WorkerNotifiesFault, WorkerFinishes, WorkerExits, WorkerLeaves, WorkerEnds,
       worker_leaves
  <1>10. CASE UNCHANGED vars
    BY <1>10 DEF vars
  <1> QED BY <1>1, <1>2, <1>3, <1>4, <1>5, <1>6, <1>7, <1>8, <1>9, <1>10
      DEF Next, Stop, Start, Run

\* A notification follows every change that a sleeper waits for, except the exit.
LEMMA WakeStep ==
    ASSUME WakeOK, GoneOK, LockOK, OneReceiver, WorkerOK, StartOK, SavedOK, LatchOK,
           LabelOK, [Next]_vars
    PROVE  WakeOK'
  <1> USE LifecycleAssumption, Members DEF Goto, NotifyAndGoto, Sleep, WakeLabel, AfterStop,
      flags, handle, data, session, history, WakeOK, LockOK, LockLabel,
      SleepLabel, WorkerOK, StopLabel, SelfStop, Gone, LabelOK, Usable, NotSelf, UnderWay
  <1>1. ASSUME NEW u \in Users, StartFaultSleeps(u) PROVE WakeOK'
    BY <1>1 DEF StartFaultSleeps, GoneOK, LatchOK, Finishing
  <1>2. ASSUME NEW u \in Users, StartCreatesThread(u) PROVE WakeOK'
    BY <1>2 DEF StartCreatesThread
  <1>3. ASSUME NEW u \in Users,
             \/ CallStop(u) \/ CallStart(u) \/ CallWait(u) \/ WaitReturns(u) \/ StartLock(u)
             \/ StartThrows(u) \/ StartSeesFault(u) \/ StartFaultWakes(u) \/ StartReaps(u)
             \/ StartJoins(u) \/ StartJoined(u)
        PROVE  WakeOK'
    BY <1>3 DEF CallStop, CallStart, CallWait, WaitReturns, StartLock, StartThrows,
       StartSeesFault, StartFaultWakes, StartReaps, StartJoins, StartJoined
  <1>4. ASSUME NEW u \in Users, StartNotify(u) \/ StartFlags(u) \/ StartRestores(u)
        PROVE  WakeOK'
    BY <1>4 DEF StartNotify, StartFlags, StartRestores
  <1>5. ASSUME NEW u \in Users, StartResets(u) PROVE WakeOK'
    BY <1>5 DEF StartResets, OneReceiver, Joiners, StartOK
  <1>6. ASSUME NEW u \in Users, StartThreadFails(u) PROVE WakeOK'
    BY <1>6 DEF StartThreadFails, GoneOK
  <1>7. ASSUME NEW u \in Users, StartRelatches(u) PROVE WakeOK'
    BY <1>7 DEF StartRelatches, NothingSaved
  <1>8. ASSUME NEW t \in Threads,
             \/ StopLock(t) \/ StopCommand(t) \/ StopFromCallback(t) \/ StopWaitsForJoin(t)
             \/ StopWakes(t) \/ StopNothingToJoin(t) \/ StopTakesHandle(t) \/ StopJoins(t)
             \/ StopJoined(t) \/ StopNotify(t) \/ Bias(t) \/ SpuriousWake(t)
        PROVE  WakeOK'
    BY <1>8 DEF StopLock, StopCommand, TellToStop, StopFromCallback, StopWaitsForJoin,
       StopWakes, StopNothingToJoin, StopTakesHandle, StopJoins, StopJoined, StopNotify, Bias,
       SpuriousWake
  <1>9. CASE \/ WorkerLoops \/ WorkerConnects \/ WorkerDiscovers \/ WorkerOpens
             \/ WorkerCommands \/ WorkerReceives \/ WorkerHandles \/ WorkerThrows
             \/ CallbackStops \/ CallbackStarts \/ CallbackDestroys
             \/ CallbackReturns \/ CallbackThrows
             \/ WorkerDelivers \/ WorkerCloses \/ WorkerDecides \/ WorkerBacksOff
             \/ WorkerNotifiesFault \/ WorkerFinishes \/ WorkerExits \/ WorkerLeaves
             \/ WorkerEnds
    BY <1>9 DEF WorkerLoops, WorkerConnects, EndsWith, WorkerDiscovers, FailsUnlessStopping,
       WorkerOpens, WorkerCommands, WorkerReceives, WorkerHandles, WorkerThrows, CallbackStops,
       CallbackStarts, CallbackDestroys, CallbackReturns, CallbackThrows, WorkerDelivers,
       WorkerCloses, CloseSession, TellToStop, WorkerDecides, WorkerBacksOff,
       WorkerNotifiesFault, WorkerFinishes, WorkerExits, WorkerLeaves, WorkerEnds,
       worker_leaves
  <1>10. CASE UNCHANGED vars
    BY <1>10 DEF vars
  <1> QED BY <1>1, <1>2, <1>3, <1>4, <1>5, <1>6, <1>7, <1>8, <1>9, <1>10
      DEF Next, Stop, Start, Run

\* Every step keeps the inductive invariant.
LEMMA NextIInv == IInv /\ [Next]_vars => IInv'
  BY LabelStep, FlagStep, DataStep, LockStep, ReceiverStep, WorkerStep, StartStep, StreamStep,
     QuietStep, OutcomeStep, LatchStep, HealthStep, SavedStep, DeliveredStep, DestroyStep,
     GoneStep, WakeStep
     DEF IInv

\* The inductive invariant holds in every reachable state.
LEMMA Invariance == Spec => []IInv
  <1>1. Init => IInv
    BY InitIInv
  <1>2. IInv /\ [Next]_vars => IInv'
    BY NextIInv
  <1> QED BY <1>1, <1>2, PTL DEF Spec
-----------------------------------------------------------------------------
(* Safety *)

\* For any number of callers every value has its type, and each thread is at a place that
\* its own code has (client_impl.cpp).
THEOREM LifecycleTypes == Spec => []TypeOK
  <1>1. IInv => TypeOK
    BY TypeParts DEF IInv
  <1> QED BY <1>1, Invariance, PTL

\* For any number of callers of start() and stop() at once there is one receiver thread at
\* most, one owner of it, and joining_ tells (client_impl.cpp, start() and stop()).
THEOREM ReceiverIsOne == Spec => []OneReceiver
  <1>1. IInv => OneReceiver
    BY DEF IInv
  <1> QED BY <1>1, Invariance, PTL

\* For any number of callers nobody holds lifecycle_mutex_ while it sleeps or joins, the
\* receiver never waits for its own join, and whoever sleeps on lifecycle_cv_ has somebody
\* who will notify it, up to the exit of a faulted receiver that start() may miss.
THEOREM NobodyIsForgotten == Spec => []NobodyWaitsInVain
  <1>1. IInv => NobodyWaitsInVain
    <2> SUFFICES ASSUME IInv PROVE NobodyWaitsInVain
      OBVIOUS
    <2> USE Members DEF IInv
    <2>1. lock # None => pc[lock] \in LockLabel
      BY DEF LockOK, DataOK
    <2>2. Joiners # {} => pc[Worker] \notin {"none", "stopAsleep", "stopWoken", "stopJoin"}
      BY DEF OneReceiver, WorkerOK, StopLabel, SelfStop
    <2> QED BY <2>1, <2>2 DEF NobodyWaitsInVain, WakeOK, LockLabel
  <1> QED BY <1>1, Invariance, PTL

\* Whatever the receiver and bias() are doing when stop() runs, from stop()'s command until
\* the next start() the client does not ask the sensor to stream again; whether
\* StopStreaming could be sent is another matter, since stop() swallows that error.
THEOREM StopIsQuiet == Spec => []QuietAfterStop
  <1>1. IInv => QuietAfterStop
    BY DEF IInv
  <1> QED BY <1>1, Invariance, PTL

\* The stored health_.state is Faulted exactly when a fault is latched, up to the one step
\* in which a failed start() restores both (fault_latch.cpp), whatever stop() and the
\* receiver's last steps write into it.
THEOREM HealthShowsLatch == Spec => []LatchShowsInHealth
  <1>1. IInv => LatchShowsInHealth
    BY DEF IInv
  <1> QED BY <1>1, Invariance, PTL

\* A client destroyed by its own callback is freed without a receiver, without a lock held
\* and without a caller inside (client.cpp, DeferredDestroyer).
THEOREM DestroyedSafely == Spec => []DestructionIsSafe
  <1>1. IInv => DestructionIsSafe
    <2> SUFFICES ASSUME IInv, pc[Destroyer] = "destroyed"
                 PROVE  /\ pc[Worker] = "none" /\ lock = None
                        /\ \A u \in Users : pc[u] = "idle"
      BY DEF DestructionIsSafe
    <2>1. /\ ~ joinable /\ ~ joining /\ \A u \in Users : pc[u] = "idle"
      BY DEF IInv, DestroyOK
    <2>2. pc[Worker] = "none"
      BY <2>1 DEF IInv, OneReceiver
    <2>3. \A t \in Threads : pc[t] \notin LockLabel
      BY <2>1, <2>2 DEF Threads, LockLabel
    <2> QED BY <2>1, <2>2, <2>3 DEF IInv, LockOK, DataOK
  <1> QED BY <1>1, Invariance, PTL

\* Only start() itself leaves the last step of its rollback.
LEMMA RelatchesAlone ==
    ASSUME IInv, Next, NEW w \in Users, pc[w] = "startRelatches", pc'[w] = "idle"
    PROVE  StartRelatches(w)
  <1> SUFFICES ASSUME ~ StartRelatches(w) PROVE FALSE
    OBVIOUS
  <1> USE LifecycleAssumption, Members DEF Goto, NotifyAndGoto, Sleep, WakeLabel, AfterStop,
      IInv, LabelOK, LockOK, LockLabel, SleepLabel
  <1>1. ASSUME NEW u \in Users,
             \/ CallStop(u) \/ CallStart(u) \/ CallWait(u) \/ WaitReturns(u) \/ StartLock(u)
             \/ StartThrows(u) \/ StartSeesFault(u) \/ StartFaultSleeps(u)
             \/ StartFaultWakes(u) \/ StartReaps(u) \/ StartJoins(u) \/ StartJoined(u)
             \/ StartNotify(u) \/ StartResets(u) \/ StartFlags(u) \/ StartCreatesThread(u)
             \/ StartThreadFails(u) \/ StartRestores(u) \/ StartRelatches(u)
        PROVE  FALSE
    BY <1>1 DEF CallStop, CallStart, CallWait, WaitReturns, StartLock, StartThrows,
       StartSeesFault, StartFaultSleeps, StartFaultWakes, StartReaps, StartJoins, StartJoined,
       StartNotify, StartResets, StartFlags, StartCreatesThread, StartThreadFails,
       StartRestores, StartRelatches
  <1>2. ASSUME NEW t \in Threads,
             \/ StopLock(t) \/ StopCommand(t) \/ StopFromCallback(t) \/ StopWaitsForJoin(t)
             \/ StopWakes(t) \/ StopNothingToJoin(t) \/ StopTakesHandle(t) \/ StopJoins(t)
             \/ StopJoined(t) \/ StopNotify(t) \/ Bias(t) \/ SpuriousWake(t)
        PROVE  FALSE
    BY <1>2 DEF StopLock, StopCommand, TellToStop, StopFromCallback, StopWaitsForJoin,
       StopWakes, StopNothingToJoin, StopTakesHandle, StopJoins, StopJoined, StopNotify, Bias,
       SpuriousWake
  <1>3. ASSUME \/ WorkerLoops \/ WorkerConnects \/ WorkerDiscovers \/ WorkerOpens
               \/ WorkerCommands \/ WorkerReceives \/ WorkerHandles \/ WorkerThrows
               \/ CallbackStops \/ CallbackStarts \/ CallbackDestroys
               \/ CallbackReturns \/ CallbackThrows
               \/ WorkerDelivers \/ WorkerCloses \/ WorkerDecides \/ WorkerBacksOff
               \/ WorkerNotifiesFault \/ WorkerFinishes \/ WorkerExits \/ WorkerLeaves
               \/ WorkerEnds
        PROVE  FALSE
    BY <1>3 DEF WorkerLoops, WorkerConnects, EndsWith, WorkerDiscovers, FailsUnlessStopping,
       WorkerOpens, WorkerCommands, WorkerReceives, WorkerHandles, WorkerThrows, CallbackStops,
       CallbackStarts, CallbackDestroys, CallbackReturns, CallbackThrows, WorkerDelivers,
       WorkerCloses, CloseSession, TellToStop, WorkerDecides, WorkerBacksOff,
       WorkerNotifiesFault, WorkerFinishes, WorkerExits, WorkerLeaves, WorkerEnds,
       worker_leaves
  <1> QED BY <1>1, <1>2, <1>3 DEF Next, Stop, Start, Run

\* A start() whose thread cannot be created puts everything back, whoever calls meanwhile:
\* flags, data and latch are restored in three steps, under lifecycle_mutex_.
THEOREM FailedStartIsUndone == Spec => FailedStartLeavesNoTrace
  <1> DEFINE Undone == \A u \in Users : pc[u] = "startRelatches" /\ pc'[u] = "idle" =>
               saved = [stopping |-> stopping', exited |-> exited', latch |-> latch',
                        state |-> state', generation |-> generation', delivered |-> delivered',
                        latest |-> latest']
  <1>1. IInv /\ [Next]_vars => [Undone]_vars
    <2> SUFFICES ASSUME IInv, Next, NEW u \in Users, pc[u] = "startRelatches", pc'[u] = "idle"
                 PROVE  saved = [stopping |-> stopping', exited |-> exited', latch |-> latch',
                                 state |-> state', generation |-> generation',
                                 delivered |-> delivered', latest |-> latest']
      OBVIOUS
    <2>1. StartRelatches(u)
      BY LifecycleAssumption, RelatchesAlone
    <2>2. /\ saved.stopping = stopping' /\ saved.exited = exited' /\ saved.latch = latch'
          /\ saved.state = state' /\ saved.generation = generation'
          /\ saved.delivered = delivered' /\ saved.latest = latest'
      BY <2>1 DEF StartRelatches, flags, IInv, SavedOK
    <2> QED BY <2>2 DEF IInv, DataOK
  <1> QED BY <1>1, Invariance, PTL DEF Spec, FailedStartLeavesNoTrace

\* wait_for_first_sample() answers true only for a sample of the newest receiver, for any
\* number of waiters, starts, stops and failed starts.
THEOREM WaitIsTrue == Spec => WaitNeverLies
  <1> DEFINE Honest == \A u \in Users : pc[u] = "waiting" /\ pc'[u] = "idle" /\ WaitAnswer(u)
                         => run > 0 /\ latest = run
  <1>1. IInv => Honest
    BY DEF IInv, DeliveredOK, WaitAnswer
  <1>2. IInv /\ [Next]_vars => [Honest]_vars
    BY <1>1
  <1> QED BY <1>2, Invariance, PTL DEF Spec, WaitNeverLies
-----------------------------------------------------------------------------
(* Refinement *)

\* The receiver is not acquiring, and what Client's variables stand for.
Quiet == pc[Worker] \in {"none", "ended"}
PhaseBar == IF StartUnderWay THEN "Starting" ELSE IF Quiet THEN "Stopped" ELSE "Acquiring"
StopBar == IF StartUnderWay THEN saved.stopping ELSE stopping
BeforeBar == IF StartUnderWay THEN [fault |-> saved.latch, fresh |-> FreshIn(saved.latest)]
             ELSE [fault |-> None, fresh |-> FALSE]

\* A step that moves no thread across a phase and keeps what start() has saved leaves the
\* phase, the stop request and the saved values as they are for the owner.
LEMMA SamePhase ==
    ASSUME StartUnderWay' <=> StartUnderWay, Quiet' <=> Quiet, UNCHANGED <<saved, run>>,
           StartUnderWay \/ UNCHANGED stopping
    PROVE  UNCHANGED <<PhaseBar, StopBar, BeforeBar>>
  BY DEF PhaseBar, StopBar, BeforeBar, FreshIn

\* The abstract variables.
LEMMA Bars ==
    Promise!cvars = <<PhaseBar, StopBar, latch, commanded, FreshIn(latest), BeforeBar>>
  BY DEF Promise!cvars, PhaseBar, StopBar, BeforeBar, Quiet

\* What the owner cannot see, of the callers' steps, ...
LEMMA UserStutters ==
    ASSUME LockOK, LabelOK, OneReceiver, WorkerOK, StartOK, NEW u \in Users,
           \/ CallStop(u) \/ CallStart(u) \/ CallWait(u) \/ WaitReturns(u) \/ StartLock(u)
           \/ StartThrows(u) \/ StartSeesFault(u) \/ StartFaultSleeps(u) \/ StartFaultWakes(u)
           \/ StartReaps(u) \/ StartJoins(u) \/ StartJoined(u) \/ StartNotify(u)
           \/ StartFlags(u) \/ StartThreadFails(u)
    PROVE  /\ (StartUnderWay' <=> StartUnderWay) /\ (Quiet' <=> Quiet)
           /\ UNCHANGED <<saved, run, latch, commanded, latest>>
           /\ StartUnderWay \/ UNCHANGED stopping
  BY LifecycleAssumption, Members DEF Goto, NotifyAndGoto, Sleep, WakeLabel, AfterStop, flags,
     handle, data, session, history, StartUnderWay, Quiet, LockOK, SleepLabel, LockLabel,
     LabelOK, Usable, NotSelf, WorkerOK, Gone, SelfStop, StopLabel, CallStop, CallStart,
     CallWait, WaitReturns, StartLock, StartThrows, StartSeesFault, StartFaultSleeps,
     StartFaultWakes, StartReaps, StartJoins, StartJoined, StartNotify, StartFlags,
     StartThreadFails

\* ... of the steps of stop(), ...
LEMMA StopStutters ==
    ASSUME LockOK, LabelOK, OneReceiver, WorkerOK, StartOK, NEW t \in Threads,
           \/ StopFromCallback(t) \/ StopWaitsForJoin(t) \/ StopWakes(t)
           \/ StopNothingToJoin(t) \/ StopTakesHandle(t) \/ StopJoins(t) \/ StopJoined(t)
           \/ StopNotify(t) \/ SpuriousWake(t)
    PROVE  /\ (StartUnderWay' <=> StartUnderWay) /\ (Quiet' <=> Quiet)
           /\ UNCHANGED <<saved, run, latch, commanded, latest>>
           /\ StartUnderWay \/ UNCHANGED stopping
  BY LifecycleAssumption, Members DEF Goto, NotifyAndGoto, Sleep, WakeLabel, AfterStop, flags,
     handle, data, session, history, StartUnderWay, Quiet, LockOK, SleepLabel, LockLabel,
     LabelOK, Usable, NotSelf, WorkerOK, Gone, SelfStop, StopLabel, StopFromCallback,
     StopWaitsForJoin, StopWakes, StopNothingToJoin, StopTakesHandle, StopJoins, StopJoined,
     StopNotify, SpuriousWake

\* ... and of the receiver.
LEMMA WorkerStutters ==
    ASSUME LockOK, LabelOK, OneReceiver, WorkerOK, StartOK,
           \/ WorkerLoops \/ WorkerConnects \/ WorkerDiscovers \/ WorkerOpens
           \/ WorkerReceives \/ WorkerHandles
           \/ CallbackStops \/ CallbackStarts \/ CallbackDestroys
           \/ CallbackReturns \/ CallbackThrows \/ WorkerBacksOff \/ WorkerNotifiesFault
           \/ WorkerExits \/ WorkerLeaves
    PROVE  /\ (StartUnderWay' <=> StartUnderWay) /\ (Quiet' <=> Quiet)
           /\ UNCHANGED <<saved, run, latch, commanded, latest>>
           /\ StartUnderWay \/ UNCHANGED stopping
  BY LifecycleAssumption, Members DEF Goto, NotifyAndGoto, Sleep, WakeLabel, AfterStop, flags,
     handle, data, session, history, StartUnderWay, Quiet, LockOK, SleepLabel, LockLabel,
     LabelOK, Usable, NotSelf, WorkerOK, Gone, SelfStop, StopLabel, WorkerLoops,
     WorkerConnects, EndsWith, WorkerDiscovers, FailsUnlessStopping, WorkerOpens,
     WorkerReceives, WorkerHandles, CallbackStops, CallbackStarts, CallbackDestroys,
     CallbackReturns, CallbackThrows, WorkerBacksOff, WorkerNotifiesFault, WorkerExits,
     WorkerLeaves, worker_leaves


\* Every step is one of Client's or invisible.
LEMMA StepSimulation ==
    ASSUME IInv, [Next]_vars
    PROVE  [Promise!CNext]_(Promise!cvars)
  <1>p. /\ LockOK /\ OneReceiver /\ WorkerOK /\ StartOK /\ StreamOK /\ OutcomeOK /\ LatchOK
        /\ SavedOK /\ LabelOK /\ FlagOK /\ DataOK
    BY DEF IInv
  <1>q. \A u \in Users : pc[u] \in UnderWay => Quiet
    BY <1>p, UnderWayAlone DEF Quiet
  <1> USE LifecycleAssumption, Members
      DEF Goto, NotifyAndGoto, Sleep, WakeLabel, AfterStop, flags, handle, data, session,
          history, LabelOK
  <1>1. CASE UNCHANGED <<PhaseBar, StopBar, latch, commanded, latest, run, BeforeBar>>
    BY <1>1, Bars DEF Promise!cvars, PhaseBar, StopBar, BeforeBar, Quiet, FreshIn
  <1>2. ASSUME NEW u \in Users, StartResets(u) PROVE Promise!BeginStart
    <2>1. ~ StartUnderWay /\ StartUnderWay' /\ Quiet
      <3>1. ~ joinable /\ ~ joining
        BY <1>2, <1>p DEF StartResets, StartOK
      <3> QED BY <1>2, <1>p, <3>1 DEF StartResets, StartUnderWay, LockOK, LockLabel, Quiet,
                 OneReceiver
    <2>2. /\ saved'.stopping = stopping /\ saved'.latch = latch /\ saved'.latest = latest
          /\ latch' = None /\ latest' = 0 /\ UNCHANGED <<run, commanded>>
      BY <1>2 DEF StartResets
    <2> QED BY <2>1, <2>2 DEF Promise!BeginStart, FreshIn, Quiet
  <1>3. ASSUME NEW u \in Users, StartCreatesThread(u) PROVE Promise!Started
    <2>1. StartUnderWay /\ ~ StartUnderWay' /\ ~ Quiet'
      BY <1>3, <1>p DEF StartCreatesThread, StartUnderWay, LockOK, LockLabel, SleepLabel, Quiet
    <2>2. /\ ~ stopping' /\ latest = 0 /\ UNCHANGED <<latch, commanded, latest>>
      BY <1>3, <1>p DEF StartCreatesThread, SavedOK
    <2> QED BY <2>1, <2>2 DEF Promise!Started, Promise!Nothing, FreshIn, Quiet, FlagOK
  <1>4. ASSUME NEW u \in Users, StartRestores(u) PROVE Promise!StartUndone
    <2>1. StartUnderWay /\ StartUnderWay'
      BY <1>4, <1>p DEF StartRestores, StartUnderWay
    <2>2. latest' = saved.latest /\ UNCHANGED <<latch, commanded, saved, run>>
      BY <1>4 DEF StartRestores
    <2> QED BY <2>1, <2>2 DEF Promise!StartUndone, FreshIn
  <1>5. ASSUME NEW u \in Users, StartRelatches(u) PROVE Promise!StartUndone
    <2>1. StartUnderWay /\ ~ StartUnderWay' /\ Quiet'
      BY <1>5, <1>p, <1>q DEF StartRelatches, StartUnderWay, LockOK, LockLabel, SleepLabel,
         Quiet, UnderWay
    <2>2. /\ latest = saved.latest /\ latch' = saved.latch /\ stopping' = saved.stopping
          /\ UNCHANGED <<commanded, latest, run>>
      BY <1>5, <1>p DEF StartRelatches, SavedOK
    <2> QED BY <2>1, <2>2 DEF Promise!StartUndone, Promise!Nothing, FreshIn, Quiet
  <1>6. ASSUME NEW t \in Threads, StopLock(t) PROVE Promise!RequestStop
    <2>1. ~ StartUnderWay /\ ~ StartUnderWay' /\ (Quiet' <=> Quiet)
      BY <1>6, <1>p DEF StopLock, StartUnderWay, LockOK, LockLabel, SleepLabel, Quiet
    <2>2. stopping' = TRUE /\ UNCHANGED <<latch, commanded, latest, run>>
      BY <1>6 DEF StopLock
    <2> QED BY <2>1, <2>2 DEF Promise!RequestStop, FreshIn, Quiet
  <1>7. ASSUME \/ \E t \in Threads : StopCommand(t)
               \/ WorkerCloses \/ WorkerFinishes
        PROVE  [Promise!CNext]_(Promise!cvars)
    <2>1. (StartUnderWay' <=> StartUnderWay) /\ (Quiet' <=> Quiet)
      BY <1>7, <1>p, <1>q DEF StopCommand, TellToStop, WorkerCloses, WorkerFinishes,
         StartUnderWay, Quiet,
         UnderWay
    <2>2. \/ UNCHANGED commanded
          \/ commanded = "Start" /\ commanded' \in {"Stop", "Lost"}
      BY <1>7, <1>p DEF StopCommand, TellToStop, WorkerCloses, WorkerFinishes, CloseSession,
         StreamOK
    <2>3. UNCHANGED <<latch, latest, run, saved, stopping>>
      BY <1>7 DEF StopCommand, TellToStop, WorkerCloses, WorkerFinishes, worker_leaves
    <2>4. UNCHANGED <<PhaseBar, StopBar, BeforeBar>>
      BY <2>1, <2>3, SamePhase
    <2>5. CASE UNCHANGED commanded
      BY <1>1, <2>3, <2>4, <2>5
    <2>6. CASE commanded = "Start" /\ commanded' \in {"Stop", "Lost"}
      <3>1. Promise!Silence
        BY <2>3, <2>4, <2>6 DEF Promise!Silence, FreshIn, PhaseBar, StopBar, BeforeBar, Quiet
      <3> QED BY <3>1 DEF Promise!CNext
    <2> QED BY <2>2, <2>5, <2>6
  <1>8. CASE WorkerEnds
    <2>1. ~ StartUnderWay /\ ~ StartUnderWay' /\ ~ Quiet /\ Quiet'
      BY <1>8, <1>p, <1>q DEF WorkerEnds, StartUnderWay, Quiet, UnderWay, LockOK, SleepLabel
    <2>2. /\ stopping \/ latch # None
          /\ commanded # "Start" /\ UNCHANGED <<latch, latest, run, stopping, commanded>>
      BY <1>8, <1>p DEF WorkerEnds, OutcomeOK, Finishing, StreamOK, Streams, SelfStop
    <2>3. Promise!End
      BY <2>1, <2>2 DEF Promise!End, FreshIn, Quiet
    <2> QED BY <2>3 DEF Promise!CNext
  <1>9. CASE WorkerDelivers
    <2>1. ~ StartUnderWay /\ ~ StartUnderWay' /\ ~ Quiet /\ ~ Quiet'
      BY <1>9, <1>p, <1>q DEF WorkerDelivers, StartUnderWay, Quiet, UnderWay, LockOK,
         SleepLabel
    <2>2. latest' = run /\ run > 0 /\ UNCHANGED <<latch, run, stopping, commanded>>
      BY <1>9, <1>p DEF WorkerDelivers, WorkerOK
    <2>3. Promise!Deliver
      BY <2>1, <2>2 DEF Promise!Deliver, FreshIn, Quiet
    <2> QED BY <2>3 DEF Promise!CNext
  <1>10. CASE WorkerThrows \/ WorkerDecides
    <2>1. ~ StartUnderWay /\ ~ StartUnderWay' /\ ~ Quiet /\ ~ Quiet'
      BY <1>10, <1>p, <1>q DEF WorkerThrows, WorkerDecides, StartUnderWay, Quiet, UnderWay
    <2>2. UNCHANGED <<latest, run, stopping, saved, commanded>>
      BY <1>10 DEF WorkerThrows, WorkerDecides, worker_leaves
    <2>3. latch = None
      BY <1>10, <1>p DEF WorkerThrows, WorkerDecides, LatchOK, Finishing
    <2>4. latch' \in FaultCode \cup {None}
      BY <1>10, <1>p, <2>3 DEF WorkerThrows, WorkerDecides, Faulted, DataOK
    <2>5. CASE latch' = None
      BY <1>1, <2>1, <2>2, <2>3, <2>5, SamePhase
    <2>6. CASE latch' \in FaultCode
      <3>1. Promise!Fail
        BY <2>1, <2>2, <2>3, <2>6 DEF Promise!Fail, FreshIn, Quiet
      <3> QED BY <3>1 DEF Promise!CNext
    <2> QED BY <2>4, <2>5, <2>6
  <1>11. CASE WorkerCommands \/ \E t \in Threads : Bias(t)
    <2>1. ~ StartUnderWay /\ ~ StartUnderWay' /\ ~ Quiet /\ ~ Quiet'
      BY <1>11, <1>p, <1>q DEF WorkerCommands, Bias, EndsWith, StartUnderWay, Quiet, UnderWay,
         StreamOK, Streams, SelfStop
    <2>2. UNCHANGED <<latch, latest, run, stopping, saved>>
      BY <1>11 DEF WorkerCommands, Bias, worker_leaves
    <2>3. latch = None
      BY <1>11, <1>p DEF WorkerCommands, Bias, Faulted, LatchOK, Finishing
    <2>4. commanded' = commanded \/ (commanded' = "Start" /\ ~ stopping)
      BY <1>11 DEF WorkerCommands, Bias
    <2>5. CASE commanded' = commanded
      BY <1>1, <2>1, <2>2, <2>5, SamePhase
    <2>6. CASE commanded' = "Start" /\ ~ stopping
      <3>1. Promise!Stream
        BY <2>1, <2>2, <2>3, <2>6 DEF Promise!Stream, FreshIn, Quiet
      <3> QED BY <3>1 DEF Promise!CNext
    <2> QED BY <2>4, <2>5, <2>6
  <1>12. CASE UNCHANGED vars
    BY <1>1, <1>12, SamePhase DEF vars, StartUnderWay, Quiet
  <1>13. ASSUME NEW u \in Users,
             \/ CallStop(u) \/ CallStart(u) \/ CallWait(u) \/ WaitReturns(u) \/ StartLock(u)
             \/ StartThrows(u) \/ StartSeesFault(u) \/ StartFaultSleeps(u)
             \/ StartFaultWakes(u) \/ StartReaps(u) \/ StartJoins(u) \/ StartJoined(u)
             \/ StartNotify(u) \/ StartFlags(u) \/ StartThreadFails(u)
        PROVE  [Promise!CNext]_(Promise!cvars)
    BY <1>1, <1>13, <1>p, UserStutters, SamePhase
  <1>14. ASSUME NEW t \in Threads,
             \/ StopFromCallback(t) \/ StopWaitsForJoin(t) \/ StopWakes(t)
             \/ StopNothingToJoin(t) \/ StopTakesHandle(t) \/ StopJoins(t) \/ StopJoined(t)
             \/ StopNotify(t) \/ SpuriousWake(t)
        PROVE  [Promise!CNext]_(Promise!cvars)
    BY <1>1, <1>14, <1>p, StopStutters, SamePhase
  <1>15. CASE \/ WorkerLoops \/ WorkerConnects \/ WorkerDiscovers \/ WorkerOpens
              \/ WorkerReceives \/ WorkerHandles
              \/ CallbackStops \/ CallbackStarts \/ CallbackDestroys
              \/ CallbackReturns \/ CallbackThrows \/ WorkerBacksOff \/ WorkerNotifiesFault
              \/ WorkerExits \/ WorkerLeaves
    BY <1>1, <1>15, <1>p, WorkerStutters, SamePhase
  <1> QED
    BY <1>2, <1>3, <1>4, <1>5, <1>6, <1>7, <1>8, <1>9, <1>10, <1>11, <1>12, <1>13, <1>14, <1>15
       DEF Next, Stop, Start, Run, Promise!CNext

\* The threads implement Client, for any number of callers: the sensor is told to stream
\* only by a healthy acquisition that nobody has stopped, an acquisition ends only on a
\* stop or a fault and after it has sent StopStreaming or tried to, and a failed start()
\* changes nothing.
THEOREM LifecycleImplementsClient == Spec => ImplementsClient
  <1>1. Init => Promise!CInit
    BY Members DEF Init, Promise!CInit, Promise!Nothing, StartUnderWay, FreshIn
  <1>2. IInv /\ [Next]_vars => [Promise!CNext]_(Promise!cvars)
    BY StepSimulation DEF IInv
  <1> QED BY <1>1, <1>2, Invariance, PTL DEF Spec, ImplementsClient, Promise!CSpec

\* What Client promises lets nothing but an acquisition ask the sensor to stream.
LEMMA PromiseIsQuiet ==
    /\ Promise!CInit => Promise!OnlyAcquisitionStreams
    /\ Promise!OnlyAcquisitionStreams /\ [Promise!CNext]_(Promise!cvars)
         => Promise!OnlyAcquisitionStreams'
  <1>1. Promise!CInit => Promise!OnlyAcquisitionStreams
    BY DEF Promise!CInit, Promise!OnlyAcquisitionStreams
  <1>2. ASSUME Promise!OnlyAcquisitionStreams, [Promise!CNext]_(Promise!cvars)
        PROVE  Promise!OnlyAcquisitionStreams'
    <2>1. CASE Promise!BeginStart
      BY <1>2, <2>1 DEF Promise!OnlyAcquisitionStreams, Promise!BeginStart
    <2>2. CASE Promise!Started
      BY <1>2, <2>2 DEF Promise!OnlyAcquisitionStreams, Promise!Started
    <2>3. CASE Promise!StartUndone
      BY <1>2, <2>3 DEF Promise!OnlyAcquisitionStreams, Promise!StartUndone
    <2>4. CASE Promise!RequestStop
      BY <1>2, <2>4 DEF Promise!OnlyAcquisitionStreams, Promise!RequestStop
    <2>5. CASE Promise!Stream
      BY <1>2, <2>5 DEF Promise!OnlyAcquisitionStreams, Promise!Stream
    <2>6. CASE Promise!Silence
      BY <1>2, <2>6 DEF Promise!OnlyAcquisitionStreams, Promise!Silence
    <2>7. CASE Promise!Deliver
      BY <1>2, <2>7 DEF Promise!OnlyAcquisitionStreams, Promise!Deliver
    <2>8. CASE Promise!Fail
      BY <1>2, <2>8 DEF Promise!OnlyAcquisitionStreams, Promise!Fail
    <2>9. CASE Promise!End
      BY <1>2, <2>9 DEF Promise!OnlyAcquisitionStreams, Promise!End
    <2>10. CASE UNCHANGED Promise!cvars
      BY <1>2, <2>10 DEF Promise!OnlyAcquisitionStreams, Promise!cvars
    <2> QED BY <1>2, <2>1, <2>2, <2>3, <2>4, <2>5, <2>6, <2>7, <2>8, <2>9, <2>10
        DEF Promise!CNext
  <1> QED BY <1>1, <1>2

\* Whatever the callers, the receiver and the destructor do, StartRealtime is the last
\* thing the client asked of the sensor only between a start() that succeeded and the
\* end of its receiver.  (When StopStreaming could not be sent, the sensor was asked,
\* and may stream on: the code swallows that error.)
THEOREM StreamsOnlyWhileAcquiring == Spec => []Promise!OnlyAcquisitionStreams
  BY LifecycleImplementsClient, PromiseIsQuiet, PTL DEF ImplementsClient, Promise!CSpec

\* latch_fault() keeps the first cause: no stop(), no later failure of the session and
\* no failed start() changes what fault_code() shows, until a start() begins again.
THEOREM FirstFaultIsKept == Spec => Promise!FirstFaultStays
  <1>1. Promise!OnlyAcquisitionStreams /\ [Promise!CNext]_(Promise!cvars) =>
            [latch # None =>
                \/ latch' = latch
                \/ /\ (IF StartUnderWay THEN "Starting"
                       ELSE IF pc[Worker] \in {"none", "ended"} THEN "Stopped"
                       ELSE "Acquiring") = "Stopped"
                   /\ (IF StartUnderWay THEN "Starting"
                       ELSE IF pc[Worker] \in {"none", "ended"} THEN "Stopped"
                       ELSE "Acquiring")' = "Starting"]_(Promise!cvars)
    BY DEF Promise!OnlyAcquisitionStreams, Promise!CNext, Promise!cvars,
       Promise!BeginStart, Promise!Started, Promise!StartUndone, Promise!RequestStop,
       Promise!Stream, Promise!Silence, Promise!Deliver, Promise!Fail, Promise!End
  <1> QED BY <1>1, LifecycleImplementsClient, StreamsOnlyWhileAcquiring, PTL
      DEF ImplementsClient, Promise!CSpec, Promise!FirstFaultStays
=============================================================================
