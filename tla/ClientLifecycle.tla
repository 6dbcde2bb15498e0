-------------------------- MODULE ClientLifecycle --------------------------
(***************************************************************************)
(* The threads of netft::Client: callers of start(), stop(), bias() and    *)
(* wait_for_first_sample(), the receiver thread with its callback, and the *)
(* deferred destroyer (core/src/client.cpp, core/src/detail/client_impl.cpp*)
(* and fault_latch.cpp).                                                   *)
(*                                                                         *)
(* lifecycle_mutex_ is held across several steps and is modelled as a lock.*)
(* The command, record and data mutexes are taken in that order, and no    *)
(* thread blocks while it holds one, so each such section is one step.  An *)
(* atomic that is read or written outside of them is a step of its own.    *)
(* What is in a record, and which fault it causes, is in RecordPath.       *)
(***************************************************************************)
EXTENDS Naturals, FiniteSets

CONSTANTS
    Users,          \* threads that call the client
    Worker,         \* the receiver thread
    Destroyer,      \* the thread of DeferredDestroyer
    FaultCode,      \* codes a session may fail with
    None,           \* no thread, no fault
    Policies,       \* recovery_policy: the settings to start with
    MaxCalls,       \* bound: calls of start, stop and wait_for_first_sample
    MaxGeneration   \* bound: attempts to start

ASSUME LifecycleAssumption ==
    /\ Worker \notin Users /\ Destroyer \notin Users /\ Worker # Destroyer
    /\ None \notin Users \cup {Worker, Destroyer} /\ None \notin FaultCode
    /\ "Stopped" \notin FaultCode \cup {None}
    /\ Policies \subseteq {"FailStop", "Reconnect"}
    /\ MaxCalls \in Nat /\ MaxGeneration \in Nat

Threads == Users \cup {Worker, Destroyer}

VARIABLES
    pc,             \* where each thread is
    lock,           \* owner of lifecycle_mutex_
    sleeping,       \* threads blocked on lifecycle_cv_
    stopping,       \* stopping_
    exited,         \* worker_exited_
    joinable,       \* worker_.joinable()
    joining,        \* joining_
    active,         \* active_worker_id_ names the worker
    latch,          \* fault_latch_
    state,          \* health_.state
    generation,     \* generation_
    delivered,      \* delivered_generation_
    latest,         \* latest_: the run it was received in, 0 for none
    started,        \* session_started_
    socket,         \* transport_: closed, open, or shut down
    commanded,      \* "Start": StartRealtime was the last command sent; "Stop": it was
                    \* followed by StopStreaming, or nothing was sent; "Lost": sending
                    \* StopStreaming failed
    outcome,        \* the worker's SessionOutcome or pending handle_record outcome
    captured,       \* generation captured by each waiting user
    saved,          \* start()'s copies for the rollback
    run,            \* history: number of receiver threads created
    calls,          \* history: what the bounds count
    policy          \* config_.recovery_policy, which never changes

vars == <<pc, lock, sleeping, stopping, exited, joinable, joining, active, latch, state,
          generation, delivered, latest, started, socket, commanded, outcome, captured,
          saved, run, calls, policy>>

ClientState == {"Stopped", "Connecting", "Streaming", "Backoff", "Faulted"}

flags == <<stopping, exited>>
handle == <<joinable, joining, active>>
data == <<latch, state, generation, delivered, latest>>
session == <<started, socket, commanded>>
history == <<captured, saved, run, calls, policy>>

Goto(t, label) == pc' = [pc EXCEPT ![t] = label]

\* notify_all on lifecycle_cv_: the sleepers go back to their predicate.
WakeLabel(label) == CASE label = "startAsleep" -> "startLock"
                      [] label = "startFaultAsleep" -> "startFaultLock"
                      [] label = "stopAsleep" -> "stopWoken"
                      [] OTHER -> label

\* Thread t moves to label and wakes every sleeper on lifecycle_cv_.  Notifying
\* first_sample_cv_ needs no state: its waiters also have deadlines.
NotifyAndGoto(t, label) ==
    /\ pc' = [u \in Threads |-> IF u = t THEN label
                                ELSE IF u \in sleeping THEN WakeLabel(pc[u]) ELSE pc[u]]
    /\ sleeping' = {}

Sleep(t, label) ==
    /\ Goto(t, label)
    /\ sleeping' = sleeping \cup {t}
    /\ lock' = None

\* Where stop() returns to.
AfterStop(t) == CASE t = Worker -> "callbackReturns"
                  [] t = Destroyer -> "destroyed"
                  [] OTHER -> "idle"

Faulted == latch # None

\* The copies of a start() that is not under way.
NothingSaved == [stopping |-> FALSE, exited |-> TRUE, latch |-> None, state |-> "Stopped",
                 generation |-> 0, delivered |-> 0, latest |-> 0]

Init ==
    /\ pc = [t \in Threads |-> IF t = Worker THEN "none" ELSE "idle"]
    /\ lock = None /\ sleeping = {}
    /\ stopping = FALSE /\ exited = TRUE
    /\ joinable = FALSE /\ joining = FALSE /\ active = FALSE
    /\ latch = None /\ state = "Stopped" /\ generation = 0 /\ delivered = 0 /\ latest = 0
    /\ started = FALSE /\ socket = "closed" /\ commanded = "Stop"
    /\ outcome = None
    /\ captured = [u \in Users |-> 0]
    /\ saved = NothingSaved
    /\ run = 0 /\ calls = 0
    /\ policy \in Policies

\* Nobody uses a client whose callback has begun to destroy it.
Usable == pc[Destroyer] = "idle"

-----------------------------------------------------------------------------
(* stop() *)

CallStop(u) ==
    /\ pc[u] = "idle" /\ Usable /\ calls < MaxCalls
    /\ Goto(u, "stopLock") /\ calls' = calls + 1
    /\ UNCHANGED <<lock, sleeping, flags, handle, data, session, outcome,
                   captured, saved, run, policy>>

\* Take lifecycle_mutex_, announce the stop, wake everybody.
StopLock(t) ==
    /\ pc[t] = "stopLock" /\ lock = None
    /\ lock' = t
    /\ stopping' = TRUE
    /\ NotifyAndGoto(t, "stopCommand")
    /\ UNCHANGED <<exited, handle, data, session, outcome, history>>

\* Under command_mutex_: a session is told to stop streaming, once; if the command
\* cannot be sent, the exception is swallowed and the session still counts as ended.
TellToStop ==
    /\ commanded' \in IF started THEN {"Stop", "Lost"} ELSE {commanded}
    /\ started' = FALSE

\* End the stream and wake the blocked receive.
StopCommand(t) ==
    /\ pc[t] = "stopCommand"
    /\ TellToStop
    /\ socket' = IF socket = "open" THEN "shut" ELSE socket
    /\ Goto(t, "stopCheck")
    /\ UNCHANGED <<lock, sleeping, flags, handle, data, outcome, history>>

\* Mutants: the callback frees the client itself; it forgets the hand-over.
StopFromCallbackFrees(t) ==
    /\ pc[t] = "stopCheck" /\ ~ exited /\ active /\ t = Worker
    /\ lock' = None
    /\ pc' = [pc EXCEPT ![t] = AfterStop(t),
                        ![Destroyer] = IF @ = "pending" THEN "destroyed" ELSE @]
    /\ UNCHANGED <<sleeping, flags, handle, data, session, outcome, history>>

StopFromCallbackForgets(t) ==
    /\ pc[t] = "stopCheck" /\ ~ exited /\ active /\ t = Worker
    /\ lock' = None
    /\ Goto(t, AfterStop(t))
    /\ UNCHANGED <<sleeping, flags, handle, data, session, outcome, history>>

\* The receiver thread itself, stopping from its callback, cannot join.  If
\* the callback is destroying the client, ~Client hands it to the destroyer.
StopFromCallback(t) ==
    /\ pc[t] = "stopCheck" /\ ~ exited /\ active /\ t = Worker
    /\ lock' = None
    /\ pc' = [pc EXCEPT ![t] = AfterStop(t),
                        ![Destroyer] = IF @ = "pending" THEN "stopLock" ELSE @]
    /\ UNCHANGED <<sleeping, flags, handle, data, session, outcome, history>>

\* Mutant: the receiver is not told from other threads.
NotSelfForgotten(t) == TRUE

NotSelf(t) == exited \/ ~ active \/ t # Worker

\* Another thread is joining: wait for it and start over.
StopWaitsForJoin(t) ==
    /\ pc[t] = "stopCheck" /\ NotSelf(t) /\ joining
    /\ Sleep(t, "stopAsleep")
    /\ UNCHANGED <<flags, handle, data, session, outcome, history>>

\* Woken: still joining means sleep again, otherwise release and start over.
StopWakes(t) ==
    /\ pc[t] = "stopWoken" /\ lock = None
    /\ IF joining THEN Sleep(t, "stopAsleep")
                  ELSE Goto(t, "stopLock") /\ UNCHANGED <<lock, sleeping>>
    /\ UNCHANGED <<flags, handle, data, session, outcome, history>>

StopNothingToJoin(t) ==
    /\ pc[t] = "stopCheck" /\ NotSelf(t) /\ ~ joining /\ ~ joinable
    /\ state' = IF Faulted THEN state ELSE "Stopped"
    /\ lock' = None
    /\ Goto(t, AfterStop(t))
    /\ UNCHANGED <<sleeping, flags, handle, latch, generation, delivered, latest,
                   session, outcome, history>>

\* Mutants: joining_ is not set; lifecycle_mutex_ is held while joining.
StopTakesHandleSilently(t) ==
    /\ pc[t] = "stopCheck" /\ NotSelf(t) /\ ~ joining /\ joinable
    /\ joinable' = FALSE /\ lock' = None
    /\ Goto(t, "stopJoin")
    /\ UNCHANGED <<sleeping, flags, joining, active, data, session, outcome, history>>

\* Take the thread handle and release lifecycle_mutex_ before joining.
StopTakesHandle(t) ==
    /\ pc[t] = "stopCheck" /\ NotSelf(t) /\ ~ joining /\ joinable
    /\ joining' = TRUE /\ joinable' = FALSE
    /\ lock' = None
    /\ Goto(t, "stopJoin")
    /\ UNCHANGED <<sleeping, flags, active, data, session, outcome, history>>

\* join() returns once the receiver thread has ended.
StopJoins(t) ==
    /\ pc[t] = "stopJoin" /\ pc[Worker] = "ended"
    /\ pc' = [pc EXCEPT ![t] = "stopJoined", ![Worker] = "none"]
    /\ UNCHANGED <<lock, sleeping, flags, handle, data, session, outcome, history>>

\* Mutant: nobody is told that the join is over.
StopJoinedSilently(t) ==
    /\ pc[t] = "stopJoined" /\ lock = None
    /\ state' = IF Faulted THEN state ELSE "Stopped"
    /\ active' = FALSE /\ joining' = FALSE
    /\ Goto(t, AfterStop(t))
    /\ UNCHANGED <<lock, sleeping, flags, joinable, latch, generation, delivered, latest,
                   session, outcome, history>>

StopJoined(t) ==
    /\ pc[t] = "stopJoined" /\ lock = None
    /\ state' = IF Faulted THEN state ELSE "Stopped"
    /\ active' = FALSE /\ joining' = FALSE
    /\ Goto(t, "stopNotify")
    /\ UNCHANGED <<lock, sleeping, flags, joinable, latch, generation, delivered, latest,
                   session, outcome, history>>

StopNotify(t) ==
    /\ pc[t] = "stopNotify"
    /\ NotifyAndGoto(t, AfterStop(t))
    /\ UNCHANGED <<lock, flags, handle, data, session, outcome, history>>

Stop(t) ==
    \/ StopLock(t) \/ StopCommand(t) \/ StopFromCallback(t) \/ StopWaitsForJoin(t)
    \/ StopWakes(t) \/ StopNothingToJoin(t) \/ StopTakesHandle(t) \/ StopJoins(t) \/ StopJoined(t)
    \/ StopNotify(t)

-----------------------------------------------------------------------------
(* start() *)

CallStart(u) ==
    /\ pc[u] = "idle" /\ Usable /\ calls < MaxCalls /\ generation < MaxGeneration
    /\ Goto(u, "startLock") /\ calls' = calls + 1
    /\ UNCHANGED <<lock, sleeping, flags, handle, data, session, outcome,
                   captured, saved, run, policy>>

\* Take lifecycle_mutex_; while somebody joins, sleep on lifecycle_cv_.
StartLock(u) ==
    /\ pc[u] = "startLock" /\ lock = None
    /\ IF joining THEN Sleep(u, "startAsleep")
                  ELSE lock' = u /\ Goto(u, "startCheck") /\ UNCHANGED sleeping
    /\ UNCHANGED <<flags, handle, data, session, outcome, history>>

\* A running, healthy client: std::logic_error.
StartThrows(u) ==
    /\ pc[u] = "startCheck" /\ joinable /\ ~ exited /\ ~ Faulted
    /\ lock' = None
    /\ Goto(u, "idle")
    /\ UNCHANGED <<sleeping, flags, handle, data, session, outcome, history>>

\* A faulted receiver that has not exited: wait for it.  The predicate is
\* evaluated here; the thread blocks one step later (StartFaultSleeps).
StartSeesFault(u) ==
    /\ pc[u] = "startCheck" /\ joinable /\ ~ exited /\ Faulted
    /\ Goto(u, "startFaultWait")
    /\ UNCHANGED <<lock, sleeping, flags, handle, data, session, outcome, history>>

\* worker_exited_ is stored and lifecycle_cv_ notified without lifecycle_mutex_,
\* so both may fall between the predicate and this step.
StartFaultSleeps(u) ==
    /\ pc[u] = "startFaultWait"
    /\ Sleep(u, "startFaultAsleep")
    /\ UNCHANGED <<flags, handle, data, session, outcome, history>>

\* Woken: evaluate the predicate again; true means once more round the loop.
StartFaultWakes(u) ==
    /\ pc[u] = "startFaultLock" /\ lock = None
    /\ IF exited \/ ~ Faulted THEN Goto(u, "startLock") /\ UNCHANGED lock
                              ELSE Goto(u, "startFaultWait") /\ lock' = u
    /\ UNCHANGED <<sleeping, flags, handle, data, session, outcome, history>>

\* A receiver that has exited is reaped first.
StartReaps(u) ==
    /\ pc[u] = "startCheck" /\ joinable /\ exited
    /\ joining' = TRUE /\ joinable' = FALSE
    /\ lock' = None
    /\ Goto(u, "startJoin")
    /\ UNCHANGED <<sleeping, flags, active, data, session, outcome, history>>

StartJoins(u) ==
    /\ pc[u] = "startJoin" /\ pc[Worker] = "ended"
    /\ pc' = [pc EXCEPT ![u] = "startJoined", ![Worker] = "none"]
    /\ UNCHANGED <<lock, sleeping, flags, handle, data, session, outcome, history>>

StartJoined(u) ==
    /\ pc[u] = "startJoined" /\ lock = None
    /\ active' = FALSE /\ joining' = FALSE
    /\ Goto(u, "startNotify")
    /\ UNCHANGED <<lock, sleeping, flags, joinable, data, session, outcome, history>>

StartNotify(u) ==
    /\ pc[u] = "startNotify"
    /\ NotifyAndGoto(u, "startLock")
    /\ UNCHANGED <<lock, flags, handle, data, session, outcome, history>>

\* No receiver: save everything, then reset it under data_mutex_.
StartResets(u) ==
    /\ pc[u] = "startCheck" /\ ~ joinable
    /\ saved' = [stopping |-> stopping, exited |-> exited, latch |-> latch, state |-> state,
                 generation |-> generation, delivered |-> delivered, latest |-> latest]
    /\ latch' = None /\ state' = "Connecting"
    /\ generation' = generation + 1 /\ delivered' = 0 /\ latest' = 0
    /\ Goto(u, "startFlags")
    /\ UNCHANGED <<lock, sleeping, flags, handle, session, outcome, captured, run, calls,
                   policy>>

StartFlags(u) ==
    /\ pc[u] = "startFlags"
    /\ stopping' = FALSE /\ exited' = FALSE
    /\ Goto(u, "startThread")
    /\ UNCHANGED <<lock, sleeping, handle, data, session, outcome, history>>

\* The receiver thread exists; its handle and id are known before the mutex
\* is released.
StartCreatesThread(u) ==
    /\ pc[u] = "startThread"
    /\ pc' = [t \in Threads |-> CASE t = u -> "idle"
                                  [] t = Worker -> "loop"
                                  [] t \in sleeping -> WakeLabel(pc[t])
                                  [] OTHER -> pc[t]]
    /\ sleeping' = {}
    /\ joinable' = TRUE /\ active' = TRUE
    /\ lock' = None
    /\ run' = run + 1 /\ saved' = NothingSaved
    /\ UNCHANGED <<flags, joining, data, session, outcome, captured, calls, policy>>

\* std::thread throws: restore the flags, ...
StartThreadFails(u) ==
    /\ pc[u] = "startThread"
    /\ stopping' = saved.stopping /\ exited' = saved.exited
    /\ Goto(u, "startRestores")
    /\ UNCHANGED <<lock, sleeping, handle, data, session, outcome, history>>

\* Mutant: the generation is not restored.
StartRestoresPartly(u) ==
    /\ pc[u] = "startRestores"
    /\ state' = saved.state /\ delivered' = saved.delivered /\ latest' = saved.latest
    /\ Goto(u, "startRelatches")
    /\ UNCHANGED <<lock, sleeping, flags, handle, latch, generation, session, outcome, history>>

\* ... then the data under data_mutex_, ...
StartRestores(u) ==
    /\ pc[u] = "startRestores"
    /\ state' = saved.state /\ generation' = saved.generation
    /\ delivered' = saved.delivered /\ latest' = saved.latest
    /\ Goto(u, "startRelatches")
    /\ UNCHANGED <<lock, sleeping, flags, handle, latch, session, outcome, history>>

\* ... then the latch, and rethrow.
StartRelatches(u) ==
    /\ pc[u] = "startRelatches"
    /\ latch' = saved.latch
    /\ state' = IF saved.latch # None THEN "Faulted" ELSE state
    /\ lock' = None
    /\ NotifyAndGoto(u, "idle")
    /\ saved' = NothingSaved
    /\ UNCHANGED <<flags, handle, generation, delivered, latest, session, outcome,
                   captured, run, calls, policy>>

Start(u) ==
    \/ StartLock(u) \/ StartThrows(u) \/ StartSeesFault(u) \/ StartFaultSleeps(u)
    \/ StartFaultWakes(u) \/ StartReaps(u) \/ StartJoins(u) \/ StartJoined(u)
    \/ StartNotify(u) \/ StartResets(u) \/ StartFlags(u) \/ StartCreatesThread(u)
    \/ StartThreadFails(u) \/ StartRestores(u) \/ StartRelatches(u)

-----------------------------------------------------------------------------
(* The receiver thread: run(), receive_session(), handle_record() *)

worker_leaves == <<lock, sleeping, flags, handle>>

\* receive_session() returns: run() goes on to close the session.
EndsWith(result) == outcome' = result /\ Goto(Worker, "closing")

\* An operation fails: a stop that is under way takes precedence.
FailsUnlessStopping ==
    \E code \in FaultCode : EndsWith(IF stopping THEN "Stopped" ELSE code)

WorkerLoops ==
    /\ pc[Worker] = "loop"
    /\ Goto(Worker, IF stopping \/ Faulted THEN "finishing" ELSE "connecting")
    /\ UNCHANGED <<worker_leaves, data, session, outcome, history>>

WorkerConnects ==
    /\ pc[Worker] = "connecting"
    /\ state' = "Connecting"
    /\ IF stopping THEN EndsWith("Stopped")
                   ELSE Goto(Worker, "discovering") /\ UNCHANGED outcome
    /\ UNCHANGED <<worker_leaves, latch, generation, delivered, latest, session, history>>

\* HTTP discovery, or the configured override, then the check for a stop.
WorkerDiscovers ==
    /\ pc[Worker] = "discovering"
    /\ \/ FailsUnlessStopping
       \/ IF stopping THEN EndsWith("Stopped")
                      ELSE Goto(Worker, "opening") /\ UNCHANGED outcome
    /\ UNCHANGED <<worker_leaves, data, session, history>>

\* transport_.connect(): a new socket, which forgets an earlier shutdown().
WorkerOpens ==
    /\ pc[Worker] = "opening"
    /\ \/ FailsUnlessStopping /\ UNCHANGED socket
       \/ socket' = "open" /\ Goto(Worker, "commanding") /\ UNCHANGED outcome
    /\ UNCHANGED <<worker_leaves, data, started, commanded, history>>

\* Mutant: stopping_ is not checked again under command_mutex_.
WorkerCommandsUnchecked ==
    /\ pc[Worker] = "commanding"
    /\ started' = TRUE /\ commanded' = "Start"
    /\ Goto(Worker, "receiving")
    /\ UNCHANGED <<worker_leaves, data, socket, outcome, history>>

\* Under command_mutex_: StartRealtime, unless a stop came first.
WorkerCommands ==
    /\ pc[Worker] = "commanding"
    /\ \/ /\ stopping
          /\ EndsWith("Stopped") /\ UNCHANGED <<started, commanded>>
       \/ /\ ~ stopping
          /\ started' = TRUE /\ commanded' = "Start"
          /\ Goto(Worker, "receiving") /\ UNCHANGED outcome
       \/ /\ ~ stopping
          /\ \E code \in FaultCode : EndsWith(code)
          /\ UNCHANGED <<started, commanded>>
    /\ UNCHANGED <<worker_leaves, data, socket, history>>

\* One round of the receive loop: a stop, a timeout, an error or a malformed
\* storm ends it, a record is handled.
WorkerReceives ==
    /\ pc[Worker] = "receiving"
    /\ \/ stopping /\ EndsWith("Stopped")
       \/ ~ stopping /\ \E code \in FaultCode : EndsWith(code)
       \/ ~ stopping /\ socket = "open" /\ Goto(Worker, "handling") /\ UNCHANGED outcome
    /\ UNCHANGED <<worker_leaves, data, session, history>>

\* handle_record() up to the release of record_mutex_.  result is the outcome
\* so far; the record is dropped, or its callback is called.
WorkerHandles ==
    /\ pc[Worker] = "handling"
    /\ state' = "Streaming"
    /\ \E result \in FaultCode \cup {None} :
        /\ outcome' = result
        /\ \/ Goto(Worker, IF result = None THEN "receiving" ELSE "closing")
           \/ Goto(Worker, "callback")
    /\ UNCHANGED <<worker_leaves, latch, generation, delivered, latest, session, history>>

\* An exception escapes receive_session() (no memory): run() catches it.
WorkerThrows ==
    /\ pc[Worker] = "handling"
    /\ \/ /\ stopping
          /\ Goto(Worker, "finishing") /\ UNCHANGED <<latch, state>>
       \/ /\ ~ stopping
          /\ \E code \in FaultCode : latch' = IF Faulted THEN latch ELSE code
          /\ state' = IF Faulted THEN state ELSE "Faulted"
          /\ Goto(Worker, "faultNotify")
    /\ UNCHANGED <<worker_leaves, generation, delivered, latest, session, outcome, history>>

\* The callback calls stop().
CallbackStops ==
    /\ pc[Worker] = "callback"
    /\ Goto(Worker, "stopLock")
    /\ UNCHANGED <<worker_leaves, data, session, outcome, history>>

\* The callback destroys the client, which nobody else is using.
CallbackDestroys ==
    /\ pc[Worker] = "callback" /\ Usable
    /\ \A u \in Users : pc[u] = "idle"
    /\ pc' = [pc EXCEPT ![Worker] = "stopLock", ![Destroyer] = "pending"]
    /\ UNCHANGED <<worker_leaves, data, session, outcome, history>>

\* The callback calls start(): std::logic_error, before it looks at anything else.
CallbackStarts ==
    /\ pc[Worker] = "callback" /\ lock = None /\ ~ exited /\ active
    /\ Goto(Worker, "callbackReturns")
    /\ UNCHANGED <<worker_leaves, data, session, outcome, history>>

CallbackReturns ==
    /\ pc[Worker] \in {"callback", "callbackReturns"}
    /\ Goto(Worker, "delivering")
    /\ UNCHANGED <<worker_leaves, data, session, outcome, history>>

\* Mutant: the delivery is recorded although the callback failed.
CallbackThrowsRecorded ==
    /\ pc[Worker] \in {"callback", "callbackReturns"}
    /\ delivered' = generation
    /\ \E result \in IF outcome # None \/ policy = "Reconnect" THEN {outcome} ELSE FaultCode :
        /\ outcome' = result
        /\ Goto(Worker, IF result = None THEN "receiving" ELSE "closing")
    /\ UNCHANGED <<worker_leaves, latch, state, generation, latest, session, history>>

\* record_callback_error and callback_failure_outcome.
CallbackThrows ==
    /\ pc[Worker] \in {"callback", "callbackReturns"}
    /\ \E result \in IF outcome # None \/ policy = "Reconnect" THEN {outcome} ELSE FaultCode :
        /\ outcome' = result
        /\ Goto(Worker, IF result = None THEN "receiving" ELSE "closing")
    /\ UNCHANGED <<worker_leaves, data, session, history>>

\* Publish the sample under record_mutex_ and data_mutex_, then notify.
WorkerDelivers ==
    /\ pc[Worker] = "delivering"
    /\ latest' = run /\ delivered' = generation
    /\ NotifyAndGoto(Worker, IF outcome = None THEN "receiving" ELSE "closing")
    /\ UNCHANGED <<lock, flags, handle, latch, state, generation, session, outcome, history>>

\* close_session() under command_mutex_.
CloseSession == TellToStop /\ socket' = "closed"

WorkerCloses ==
    /\ pc[Worker] = "closing"
    /\ CloseSession
    /\ Goto(Worker, "deciding")
    /\ UNCHANGED <<worker_leaves, data, outcome, history>>

\* run(): FailStop latches any failure; a stop ends the loop; else back off.
WorkerDecides ==
    /\ pc[Worker] = "deciding" /\ outcome' = None
    /\ \/ /\ outcome # "Stopped" /\ policy = "FailStop"
          /\ latch' = IF Faulted THEN latch ELSE outcome
          /\ state' = IF Faulted THEN state ELSE "Faulted"
          /\ Goto(Worker, "faultNotify")
       \/ /\ outcome = "Stopped" \/ (policy = "Reconnect" /\ stopping)
          /\ Goto(Worker, "finishing") /\ UNCHANGED <<latch, state>>
       \/ /\ outcome # "Stopped" /\ policy = "Reconnect" /\ ~ stopping
          /\ state' = "Backoff"
          /\ Goto(Worker, "backoff") /\ UNCHANGED latch
    /\ UNCHANGED <<worker_leaves, generation, delivered, latest, session, history>>

\* The backoff's deadline passes or a stop wakes it.
WorkerBacksOff ==
    /\ pc[Worker] = "backoff"
    /\ Goto(Worker, "loop")
    /\ UNCHANGED <<worker_leaves, data, session, outcome, history>>

WorkerNotifiesFault ==
    /\ pc[Worker] = "faultNotify"
    /\ NotifyAndGoto(Worker, "finishing")
    /\ UNCHANGED <<lock, flags, handle, data, session, outcome, history>>

\* Mutant: finish_session() leaves the session open.
WorkerFinishesOpen ==
    /\ pc[Worker] = "finishing"
    /\ Goto(Worker, "exiting")
    /\ UNCHANGED <<worker_leaves, data, session, outcome, history>>

\* finish_session(): close, store worker_exited_, set the state, notify, all
\* without lifecycle_mutex_.
WorkerFinishes ==
    /\ pc[Worker] = "finishing"
    /\ CloseSession
    /\ Goto(Worker, "exiting")
    /\ UNCHANGED <<worker_leaves, data, outcome, history>>

WorkerExits ==
    /\ pc[Worker] = "exiting"
    /\ exited' = TRUE
    /\ Goto(Worker, "leaving")
    /\ UNCHANGED <<lock, sleeping, stopping, handle, data, session, outcome, history>>

\* Mutant: the state is overwritten although a fault is latched.
WorkerLeavesStopped ==
    /\ pc[Worker] = "leaving"
    /\ state' = "Stopped"
    /\ Goto(Worker, "lastNotify")
    /\ UNCHANGED <<worker_leaves, latch, generation, delivered, latest, session, outcome, history>>

WorkerLeaves ==
    /\ pc[Worker] = "leaving"
    /\ state' = IF Faulted THEN state ELSE "Stopped"
    /\ Goto(Worker, "lastNotify")
    /\ UNCHANGED <<worker_leaves, latch, generation, delivered, latest, session, outcome, history>>

WorkerEnds ==
    /\ pc[Worker] = "lastNotify"
    /\ NotifyAndGoto(Worker, "ended")
    /\ UNCHANGED <<lock, flags, handle, data, session, outcome, history>>

Run ==
    \/ WorkerLoops \/ WorkerConnects \/ WorkerDiscovers \/ WorkerOpens \/ WorkerCommands
    \/ WorkerReceives \/ WorkerHandles \/ WorkerThrows
    \/ CallbackStops \/ CallbackStarts \/ CallbackDestroys \/ CallbackReturns \/ CallbackThrows
    \/ WorkerDelivers \/ WorkerCloses \/ WorkerDecides \/ WorkerBacksOff
    \/ WorkerNotifiesFault \/ WorkerFinishes \/ WorkerExits \/ WorkerLeaves \/ WorkerEnds

-----------------------------------------------------------------------------
(* bias() and wait_for_first_sample() *)

\* Under command, record and data mutex: both commands, if streaming.
Bias(t) ==
    /\ pc[t] \in {"idle", "callback"} /\ Usable
    /\ ~ stopping /\ started /\ ~ Faulted /\ state = "Streaming"
    /\ commanded' = "Start"
    /\ UNCHANGED <<pc, lock, sleeping, flags, handle, data, started, socket, outcome, history>>

\* Capture the generation (before the first start() the call returns at once).
CallWait(u) ==
    /\ pc[u] = "idle" /\ Usable /\ calls < MaxCalls /\ generation > 0
    /\ captured' = [captured EXCEPT ![u] = generation] /\ calls' = calls + 1
    /\ Goto(u, "waiting")
    /\ UNCHANGED <<lock, sleeping, flags, handle, data, session, outcome, saved, run, policy>>

\* What wait_for_first_sample() returns.
WaitAnswer(u) == generation = captured[u] /\ delivered = captured[u]

\* The predicate holds or the deadline passes, which it may at any time.
WaitReturns(u) ==
    /\ pc[u] = "waiting"
    /\ captured' = [captured EXCEPT ![u] = 0]
    /\ Goto(u, "idle")
    /\ UNCHANGED <<lock, sleeping, flags, handle, data, session, outcome, saved, run, calls,
                   policy>>

\* A condition variable may wake without being notified.
SpuriousWake(t) ==
    /\ t \in sleeping
    /\ Goto(t, WakeLabel(pc[t]))
    /\ sleeping' = sleeping \ {t}
    /\ UNCHANGED <<lock, flags, handle, data, session, outcome, history>>

-----------------------------------------------------------------------------
Next ==
    \/ \E u \in Users : CallStop(u) \/ CallStart(u) \/ Start(u) \/ CallWait(u) \/ WaitReturns(u)
    \/ \E t \in Threads : Stop(t) \/ Bias(t) \/ SpuriousWake(t)
    \/ Run

Spec == Init /\ [][Next]_vars

\* Every thread that can go on goes on.  The receiver's deadlines pass, its
\* callback returns, and mutexes are handed over; nobody has to call anything,
\* and no condition variable has to wake without a notification.
Fairness ==
    /\ \A t \in Threads : WF_vars(Stop(t))
    /\ \A u \in Users : WF_vars(Start(u)) /\ WF_vars(WaitReturns(u))
    /\ WF_vars(Run)

FairSpec == Spec /\ Fairness

-----------------------------------------------------------------------------
(* Properties *)

StopLabel == {"stopLock", "stopCommand", "stopCheck", "stopAsleep", "stopWoken",
              "stopJoin", "stopJoined", "stopNotify"}
StartLabel == {"startLock", "startAsleep", "startCheck", "startFaultWait", "startFaultAsleep",
               "startFaultLock", "startJoin", "startJoined", "startNotify", "startFlags",
               "startThread", "startRestores", "startRelatches"}
UserLabel == {"idle", "waiting"} \cup StopLabel \cup StartLabel
WorkerLabel == {"none", "loop", "connecting", "discovering", "opening", "commanding",
                "receiving", "handling", "callback", "callbackReturns", "delivering",
                "closing", "deciding", "backoff", "faultNotify", "finishing", "exiting",
                "leaving", "lastNotify", "ended"} \cup StopLabel
DestroyerLabel == {"idle", "pending", "destroyed"} \cup StopLabel

\* Every value has its type; each thread is at a place its own code has.
TypeOK ==
    /\ pc \in [Threads -> UserLabel \cup WorkerLabel \cup DestroyerLabel]
    /\ \A u \in Users : pc[u] \in UserLabel
    /\ pc[Worker] \in WorkerLabel
    /\ pc[Destroyer] \in DestroyerLabel
    /\ lock \in Threads \cup {None} /\ sleeping \in SUBSET Threads
    /\ stopping \in BOOLEAN /\ exited \in BOOLEAN
    /\ joinable \in BOOLEAN /\ joining \in BOOLEAN /\ active \in BOOLEAN
    /\ latch \in FaultCode \cup {None} /\ state \in ClientState
    /\ generation \in Nat /\ delivered \in Nat /\ latest \in Nat /\ run \in Nat
    /\ started \in BOOLEAN /\ socket \in {"closed", "open", "shut"}
    /\ commanded \in {"Stop", "Start", "Lost"}
    /\ outcome \in FaultCode \cup {"Stopped", None}
    /\ captured \in [Users -> Nat] /\ calls \in Nat
    /\ policy \in Policies
    /\ saved \in [stopping : BOOLEAN, exited : BOOLEAN, latch : FaultCode \cup {None},
                  state : ClientState, generation : Nat, delivered : Nat, latest : Nat]

\* Once stop() has passed its command, StartRealtime is not the last thing the client
\* asked of the sensor, until the next start(): neither a receiver caught between
\* connect() and StartRealtime nor a concurrent bias() restarts the stream.  Nothing
\* more is promised when StopStreaming cannot be sent ("Lost").
QuietAfterStop ==
    stopping /\ (\A t \in Threads : pc[t] # "stopCommand") => ~ started /\ commanded # "Start"

Joiners == {t \in Threads : pc[t] \in {"stopJoin", "startJoin"}}
Reapers == {t \in Threads : pc[t] \in {"stopJoined", "startJoined"}}

\* There is at most one receiver thread, exactly one party owns it - the handle
\* worker_ or one thread in join() - and joining_ says so.
OneReceiver ==
    /\ joinable => joining = FALSE
    /\ joining <=> Joiners \cup Reapers # {}
    /\ \A s, t \in Joiners \cup Reapers : s = t
    /\ pc[Worker] # "none" <=> joinable \/ Joiners # {}

\* The stored health_.state agrees with the latch: Faulted as long as a fault is
\* latched, whoever writes the state afterwards, and only then, except while a failed
\* start() puts the latch back.  bias() decides by the stored state; health() would
\* hide a stale one, because it reads the latch again.
LatchShowsInHealth ==
    /\ latch # None => state = "Faulted"
    /\ state = "Faulted" /\ latch = None => \E u \in Users : pc[u] = "startRelatches"

\* A start() that cannot create its thread leaves the client as it found it.
FailedStartLeavesNoTrace ==
    [][\A u \in Users : pc[u] = "startRelatches" /\ pc'[u] = "idle" =>
         saved = [stopping |-> stopping', exited |-> exited', latch |-> latch', state |-> state',
                  generation |-> generation', delivered |-> delivered', latest |-> latest']]_vars

\* wait_for_first_sample() returns true only when the newest receiver thread has
\* delivered a sample, although a failed start() reuses its generation number.
WaitNeverLies ==
    [][\A u \in Users : pc[u] = "waiting" /\ pc'[u] = "idle" /\ WaitAnswer(u)
         => run > 0 /\ latest = run]_vars

\* The client is freed only when its receiver has ended and nobody is inside.
DestructionIsSafe ==
    pc[Destroyer] = "destroyed" =>
        /\ pc[Worker] = "none" /\ lock = None
        /\ \A u \in Users : pc[u] = "idle"

\* Nobody waits in vain, whatever the order of the callers: lifecycle_mutex_ is not
\* held by a thread that sleeps or joins, the receiver that is joined does not wait
\* for a join itself, and whoever sleeps until a join is over has somebody still
\* joining or about to notify.  A start() asleep for a faulted receiver will be
\* notified by it or by the start() that replaces it, or has missed that it exited.
NobodyWaitsInVain ==
    /\ lock # None => pc[lock] \notin {"startAsleep", "startFaultAsleep", "stopAsleep",
                                       "startJoin", "stopJoin"}
    /\ Joiners # {} => pc[Worker] \notin {"none", "stopAsleep", "stopWoken", "stopJoin"}
    /\ (\E t \in Threads : pc[t] \in {"startAsleep", "stopAsleep"}) =>
            joining \/ \E t \in Threads : pc[t] \in {"startNotify", "stopNotify"}
    /\ \A u \in Users : pc[u] = "startFaultAsleep" =>
            \/ exited \/ pc[Worker] \in {"faultNotify", "finishing", "exiting"}
            \/ \E v \in Users : pc[v] = "startThread"

\* A client destroyed by its own callback is eventually freed.
DestroyCompletes == pc[Destroyer] = "pending" ~> pc[Destroyer] = "destroyed"

\* start() always returns, except that it may sleep on for a faulted receiver whose
\* exit it missed: worker_exited_ is set and announced without lifecycle_mutex_.
StartReturns ==
    \A u \in Users : pc[u] = "startLock" ~>
        pc[u] = "idle" \/ (pc[u] = "startFaultAsleep" /\ exited)

-----------------------------------------------------------------------------
(* What the client promises *)

StartUnderWay == \E u \in Users :
    pc[u] \in {"startFlags", "startThread", "startRestores", "startRelatches"}

FreshIn(sample) == sample # 0 /\ sample = run

Promise == INSTANCE Client WITH
    phase <- IF StartUnderWay THEN "Starting"
             ELSE IF pc[Worker] \in {"none", "ended"} THEN "Stopped" ELSE "Acquiring",
    stop <- IF StartUnderWay THEN saved.stopping ELSE stopping,
    fault <- latch,
    command <- commanded,
    fresh <- FreshIn(latest),
    before <- IF StartUnderWay THEN [fault |-> saved.latch, fresh |-> FreshIn(saved.latest)]
              ELSE [fault |-> None, fresh |-> FALSE]

\* The threads together do what Client promises: whatever the interleaving, the
\* sensor is told to stream only by a healthy acquisition nobody has stopped, an
\* acquisition ends only on a stop or a fault and after trying to silence the sensor,
\* a fault comes up once per acquisition, and a start() that fails changes nothing.
ImplementsClient == Promise!CSpec

\* stop() always returns to a caller, and a stop request ends the acquisition,
\* whoever makes it, the callback and the destructor included, and whatever the
\* receiver is doing: in a session, in its callback or in its backoff.
StopReturns ==
    /\ \A u \in Users : pc[u] = "stopLock" ~> pc[u] = "idle"
    /\ Promise!StopEndsAcquisition

\* A latched fault ends the acquisition, and the receiver has sent StopStreaming, or
\* tried to, by then.
FaultEndsAcquisition == Promise!FaultEndsAcquisition
=============================================================================
