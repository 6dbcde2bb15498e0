---------------------------- MODULE ControlPlugin ----------------------------
(***************************************************************************)
(* The ros2_control plugin (netft_hardware_interface.cpp): three threads   *)
(* share one NetFTHardwareInterface.  The controller manager calls the     *)
(* lifecycle callbacks and read(), one at a time; the receiver thread of   *)
(* the FailStop client runs the sample callback; the auxiliary thread      *)
(* publishes diagnostics and serves the bias request.                      *)
(*                                                                         *)
(* The client is reduced to what the plugin sees of it (ClientLifecycle    *)
(* and RecordPath have the rest): whether it exists, its receiver, its     *)
(* latch.  Only members that several threads touch make separate steps.    *)
(***************************************************************************)
EXTENDS Naturals, Sequences, FiniteSets

CONSTANTS
    Axes,           \* the exported state interfaces
    Builds,         \* values of modern to start with
    ClientFault,    \* faults the client latches by itself
    None,           \* no fault, no client, no entry point
    NaN,            \* the value of an invalid interface
    Timeout,        \* receive_timeout
    MaxNow,         \* bound: the clock
    MaxSamples,     \* bound: samples of one activation
    MaxConfigure,   \* bound: calls of on_configure
    MaxActivate     \* bound: calls of on_activate

ASSUME ControlPluginAssumption ==
    /\ Axes # {} /\ IsFiniteSet(Axes)
    /\ Builds \subseteq BOOLEAN
    /\ None \notin ClientFault \cup {"SensorConfiguration", "Timeout", "Callback"}
    /\ None \notin {"stopped", "running", "OK", "ERROR", "configure", "activate", "deactivate",
                    "error", "cleanup", "shutdown", "destructor", "read", "giveUp", "fail"}
    /\ {Timeout, MaxNow, MaxSamples, MaxConfigure, MaxActivate} \subseteq Nat

VARIABLES
    modern,         \* built with set_state() on handles, which may refuse a value
    lifecycle,      \* state of the component, kept by the controller manager
    entry,          \* entry point the manager is in
    todo,           \* what is left of it
    client,         \* client_: None, "stopped" or "running"
    clientFault,    \* its latch
    stopping,       \* its stopping_
    delivered,      \* it delivered a sample since start()
    worker,         \* its receiver thread, and where in the callback it is
    aux,            \* auxiliary_thread_ and where it is
    auxStopping,    \* auxiliary_stopping_
    fatal,          \* fatal_fault_
    writeFault,     \* interface_write_fault_
    generation,     \* sample_generation_
    buffer,         \* sample_buffer_: both halves, and new_data_available
    incoming,       \* the sample the callback was given
    held,           \* the sample read() looks at
    axes,           \* the exported values
    refused,        \* history: axes that hold a number because the handle refused NaN
    snapshot,       \* the client's fault as publish_diagnostics() saw it
    now,            \* steady clock
    report,         \* history: the report just published
    result,         \* history: what the last read() returned, until the next call
    errored,        \* history: a read() failed since on_configure
    first,          \* history: the first fault since on_configure
    count           \* history: what the bounds count

component == <<modern, lifecycle>>
clientVars == <<client, clientFault, stopping, delivered, worker, incoming>>
auxVars == <<aux, auxStopping, snapshot, report>>
exported == <<axes, refused>>
readVars == <<held, result, errored>>
vars == <<component, entry, todo, clientVars, auxVars, fatal, writeFault, generation, buffer,
          exported, now, readVars, first, count>>

\* A sample with the time it was received and the configuration it belongs to.
Sample == [at : Nat, conf : Nat]
InitialSample == [at |-> 0, conf |-> 0]
FaultCode == ClientFault \cup {"SensorConfiguration", "Timeout", "Callback"}

Invalid == [a \in Axes |-> NaN]
NoReport == [error |-> FALSE, fault |-> None, late |-> FALSE]

Init ==
    /\ modern \in Builds
    /\ lifecycle = "Unconfigured" /\ entry = None /\ todo = <<>>
    /\ client = None /\ clientFault = None /\ stopping = FALSE /\ delivered = FALSE
    /\ worker = "none" /\ aux = "none" /\ auxStopping = FALSE
    /\ fatal = None /\ writeFault = FALSE /\ generation = 0
    /\ buffer = [rt |-> InitialSample, nonrt |-> InitialSample, fresh |-> FALSE]
    /\ incoming = None /\ held = None
    /\ axes = Invalid /\ refused = {} /\ snapshot = None /\ now = 1
    /\ report = NoReport
    /\ result = None /\ errored = FALSE /\ first = None
    /\ count = [configure |-> 0, activate |-> 0]

-----------------------------------------------------------------------------
(* Entry points: what each does, in order *)

\* stop_and_invalidate() waits for the receiver, stop_auxiliary() for the thread.
StepName == {"stopClient", "joinClient", "stopAuxiliary", "joinAuxiliary", "destroy", "clear",
             "create", "prepare", "start", "wait", "reset", "invalidate", "fetch",
             "check", "finish"}

\* Mutant: the client is destroyed before the auxiliary thread is gone.
TeardownFreesEarly == <<"stopClient", "joinClient", "reset", "destroy",
                        "stopAuxiliary", "joinAuxiliary">>

\* on_cleanup(), on_shutdown()
Teardown == <<"stopClient", "joinClient", "reset",
              "stopAuxiliary", "joinAuxiliary", "destroy">>

\* Mutant: a failed activation leaves the client running.
GiveUpKeepsRunning == <<"invalidate">>

\* The end of an on_activate() that saw no healthy sample.
GiveUp == <<"stopClient", "joinClient", "invalidate">>

Script(e) ==
    CASE e = "configure"  -> <<"stopAuxiliary", "joinAuxiliary", "stopClient", "joinClient",
                               "destroy", "clear", "create">>
      [] e = "activate"   -> <<"prepare", "start", "wait">>
      [] e \in {"deactivate", "error"} -> <<"stopClient", "joinClient", "reset">>
      [] e \in {"cleanup", "shutdown"} -> Teardown
      [] e = "destructor" -> <<"stopAuxiliary", "joinAuxiliary", "stopClient", "joinClient",
                               "destroy">>
      [] e = "read"       -> <<"fetch", "check", "finish">>

\* When the controller manager calls what (external).  A failed callback is
\* followed by on_error; a failed read() may be, sooner or later.
MayEnter(e) ==
    CASE e = "configure"  -> lifecycle = "Unconfigured" /\ count.configure < MaxConfigure
      [] e = "activate"   -> lifecycle = "Inactive" /\ count.activate < MaxActivate
      [] e = "deactivate" -> lifecycle = "Active"
      [] e = "error"      -> lifecycle = "Failed" \/ (lifecycle = "Active" /\ result = "ERROR")
      [] e = "cleanup"    -> lifecycle = "Inactive"
      [] e = "shutdown"   -> lifecycle \in {"Unconfigured", "Inactive", "Active"}
      [] e = "destructor" -> lifecycle # "Destroyed"
      [] e = "read"       -> lifecycle = "Active"

Enter ==
    /\ entry = None
    /\ \E e \in {"configure", "activate", "deactivate", "error", "cleanup", "shutdown",
                 "destructor", "read"} :
        /\ MayEnter(e)
        /\ entry' = e /\ todo' = Script(e)
        /\ count' = [count EXCEPT !.configure = IF e = "configure" THEN @ + 1 ELSE @,
                                  !.activate = IF e = "activate" THEN @ + 1 ELSE @]
    /\ result' = None
    /\ UNCHANGED <<component, clientVars, auxVars, fatal, writeFault, generation, buffer,
                   exported, now, held, errored, first>>

\* The entry point returns; the component's state follows (external).
Leave ==
    /\ entry # None /\ todo = <<>>
    /\ entry' = None
    /\ lifecycle' = CASE entry \in {"configure", "deactivate"} -> "Inactive"
                      [] entry = "activate" -> "Active"
                      [] entry \in {"error", "cleanup"} -> "Unconfigured"
                      [] entry = "shutdown" -> "Finalized"
                      [] entry = "destructor" -> "Destroyed"
                      [] entry \in {"giveUp", "fail"} -> "Failed"
                      [] OTHER -> lifecycle
    /\ UNCHANGED <<modern, todo, clientVars, auxVars, fatal, writeFault, generation, buffer,
                   exported, now, readVars, first, count>>

Step(name) == entry # None /\ todo # <<>> /\ Head(todo) = name /\ todo' = Tail(todo)

-----------------------------------------------------------------------------
(* Steps of the lifecycle callbacks *)

\* stop_auxiliary(): raise the flag, cancel the executor, join, drop the node.
StopsAuxiliary ==
    /\ Step("stopAuxiliary")
    /\ auxStopping' = TRUE
    /\ UNCHANGED <<component, entry, clientVars, aux, snapshot, report, fatal, writeFault,
                   generation, buffer, exported, now, readVars, first, count>>

JoinsAuxiliary ==
    /\ Step("joinAuxiliary") /\ aux \in {"none", "ended"}
    /\ aux' = "none"
    /\ UNCHANGED <<component, entry, clientVars, auxStopping, snapshot, report, fatal,
                   writeFault, generation, buffer, exported, now, readVars, first, count>>

\* client_->stop(), if there is a client: it returns after its receiver ended.
StopsClient ==
    /\ Step("stopClient")
    /\ stopping' = TRUE
    /\ UNCHANGED <<component, entry, client, clientFault, delivered, worker, incoming, auxVars,
                   fatal, writeFault, generation, buffer, exported, now, readVars, first, count>>

JoinsClient ==
    /\ Step("joinClient") /\ worker \in {"none", "ended"}
    /\ worker' = "none"
    /\ client' = IF client = None THEN None ELSE "stopped"
    /\ UNCHANGED <<component, entry, clientFault, stopping, delivered, incoming, auxVars, fatal,
                   writeFault, generation, buffer, exported, now, readVars, first, count>>

\* client_.reset()
DestroysClient ==
    /\ Step("destroy")
    /\ client' = None /\ clientFault' = None /\ stopping' = FALSE /\ delivered' = FALSE
    /\ UNCHANGED <<component, entry, worker, incoming, auxVars, fatal,
                   writeFault, generation, buffer, exported, now, readVars, first, count>>

\* invalidate_interfaces(): NaN everywhere; a handle that refuses keeps its value.
Invalidates(values) ==
    \E refusing \in IF modern THEN SUBSET Axes ELSE {{}} :
        /\ axes' = [a \in Axes |-> IF a \in refusing THEN values[a] ELSE NaN]
        /\ refused' = {a \in refusing : values[a] # NaN}

\* Mutant: the sample buffer is kept.
ClearsKeepingBuffer ==
    /\ Step("clear")
    /\ generation' = 0 /\ writeFault' = FALSE /\ fatal' = None
    /\ Invalidates(axes)
    /\ errored' = FALSE /\ first' = None
    /\ UNCHANGED <<component, entry, clientVars, auxVars, buffer, now, held, result, count>>

\* on_configure() forgets the faults, the samples and the exported values.
Clears ==
    /\ Step("clear")
    /\ generation' = 0 /\ writeFault' = FALSE /\ fatal' = None
    /\ buffer' = [rt |-> InitialSample, nonrt |-> InitialSample, fresh |-> FALSE]
    /\ Invalidates(axes)
    /\ errored' = FALSE /\ first' = None
    /\ UNCHANGED <<component, entry, clientVars, auxVars, now, held, result, count>>

\* The client and start_auxiliary(), or on_configure() undoes both and fails.
Creates ==
    /\ Step("create")
    /\ stopping' = FALSE /\ delivered' = FALSE
    /\ \/ /\ client' = "stopped" /\ aux' = "spinning" /\ auxStopping' = FALSE
          /\ UNCHANGED entry
       \/ /\ entry' = "fail" /\ auxStopping' = TRUE
          /\ UNCHANGED <<client, aux>>
    /\ UNCHANGED <<component, clientFault, worker, incoming, snapshot, report, fatal, writeFault,
                   generation, buffer, exported, now, readVars, first, count>>

\* Mutant: the exported values are kept.
ResetsKeepingValues ==
    /\ Step("prepare") \/ Step("reset")
    /\ generation' = 0
    /\ UNCHANGED <<component, entry, clientVars, auxVars, fatal, writeFault, buffer, exported, now,
                   readVars, first, count>>

\* What on_activate() begins and stop_and_invalidate() ends with.
Resets ==
    /\ Step("prepare") \/ Step("reset")
    /\ generation' = 0
    /\ Invalidates(axes)
    /\ UNCHANGED <<component, entry, clientVars, auxVars, fatal, writeFault, buffer, now,
                   readVars, first, count>>

\* on_activate(): client_->start() also clears the client's latch.
Starts ==
    /\ Step("start")
    /\ client' = "running" /\ worker' = "receiving" /\ stopping' = FALSE
    /\ clientFault' = None /\ delivered' = FALSE
    /\ UNCHANGED <<component, entry, incoming, auxVars, fatal, writeFault, generation, buffer,
                   exported, now, readVars, first, count>>

\* start() failed or an interface has no handle: on_activate() fails at once.
RefusesToStart ==
    /\ entry = "activate" /\ todo # <<>> /\ Head(todo) = "start"
    /\ entry' = "fail" /\ todo' = <<>>
    /\ Invalidates(axes)
    /\ UNCHANGED <<component, clientVars, auxVars, fatal, writeFault, generation, buffer,
                   now, readVars, first, count>>

\* wait_for_first_sample() and the checks after it; without a sample, or with
\* a fault, the client is stopped and the activation fails.
Waits ==
    /\ entry = "activate" /\ todo # <<>> /\ Head(todo) = "wait"
    /\ \/ /\ delivered /\ clientFault = None /\ generation # 0
          /\ todo' = <<>> /\ UNCHANGED entry
       \/ /\ ~ (delivered /\ clientFault = None /\ generation # 0)
          /\ entry' = "giveUp" /\ todo' = GiveUp
    /\ UNCHANGED <<component, clientVars, auxVars, fatal, writeFault, generation, buffer,
                   exported, now, readVars, first, count>>

GivesUp ==
    /\ Step("invalidate")
    /\ Invalidates(axes)
    /\ UNCHANGED <<component, entry, clientVars, auxVars, fatal, writeFault, generation, buffer,
                   now, readVars, first, count>>

-----------------------------------------------------------------------------
(* Faults *)

\* latch_fatal_fault(): only the first fault is kept.
LatchFatalFault(code) ==
    /\ fatal' = IF fatal = None THEN code ELSE fatal
    /\ first' = IF first = None THEN code ELSE first

-----------------------------------------------------------------------------
(* read() *)

Fails ==
    /\ todo' = <<>> /\ result' = "ERROR" /\ errored' = TRUE /\ held' = None
    /\ UNCHANGED <<component, entry, clientVars, auxVars, generation, buffer, now, count>>

\* readFromRT() (external): swap in new data, unless the writer holds the mutex.
ReadFetches ==
    /\ Step("fetch")
    /\ \/ /\ buffer.fresh
          /\ held' = buffer.nonrt
          /\ buffer' = [rt |-> buffer.nonrt, nonrt |-> buffer.rt, fresh |-> FALSE]
       \/ /\ ~ buffer.fresh \/ worker = "callback"
          /\ held' = buffer.rt /\ UNCHANGED buffer
    /\ UNCHANGED <<component, entry, clientVars, auxVars, fatal, writeFault, generation, exported,
                   now, result, errored, first, count>>

\* fault_latched(): the client's fault becomes the plugin's.
FaultSeen == fatal' = IF fatal = None THEN clientFault ELSE fatal

ReadChecks ==
    /\ entry = "read" /\ todo # <<>> /\ Head(todo) = "check"
    /\ FaultSeen
    /\ IF fatal # None \/ clientFault # None \/ writeFault
       THEN Fails /\ Invalidates(axes)
       ELSE /\ todo' = Tail(todo)
            /\ UNCHANGED <<component, entry, clientVars, auxVars, generation, buffer, now,
                           exported, readVars, count>>
    /\ UNCHANGED <<writeFault, first>>

\* sample_is_stale()
Stale(s) == s.at = 0 \/ now - s.at > Timeout

\* A stale sample latches a timeout.
ReadIsStale ==
    /\ entry = "read" /\ todo # <<>> /\ Head(todo) = "finish"
    /\ Stale(held)
    /\ LatchFatalFault("Timeout")
    /\ Fails /\ Invalidates(axes)
    /\ UNCHANGED writeFault

\* write_axes() succeeds.  (Every sample in the buffer is finite: to_si_sample
\* rejects the others, so that branch of read() is never taken.)
ReadSucceeds ==
    /\ Step("finish") /\ ~ Stale(held)
    /\ axes' = [a \in Axes |-> held] /\ refused' = {}
    /\ result' = "OK" /\ held' = None
    /\ UNCHANGED <<component, entry, clientVars, auxVars, fatal, writeFault, generation, buffer,
                   now, errored, first, count>>

\* Mutant: the fault is not remembered.
ReadCannotWriteForgets ==
    /\ modern /\ entry = "read" /\ todo # <<>> /\ Head(todo) = "finish" /\ ~ Stale(held)
    /\ \E written \in SUBSET Axes \ {Axes} :
        Invalidates([a \in Axes |-> IF a \in written THEN held ELSE axes[a]])
    /\ Fails
    /\ UNCHANGED <<fatal, writeFault, first>>

\* A handle refuses its value after others took theirs.
ReadCannotWrite ==
    /\ modern /\ entry = "read" /\ todo # <<>> /\ Head(todo) = "finish" /\ ~ Stale(held)
    /\ writeFault' = TRUE
    /\ \E written \in SUBSET Axes \ {Axes} :
        Invalidates([a \in Axes |-> IF a \in written THEN held ELSE axes[a]])
    /\ Fails
    /\ UNCHANGED <<fatal, first>>

-----------------------------------------------------------------------------
(* The receiver thread *)

ClientReceives ==
    /\ worker = "receiving" /\ ~ stopping /\ generation < MaxSamples
    /\ worker' = "callback" /\ incoming' = [at |-> now, conf |-> count.configure]
    /\ UNCHANGED <<component, entry, todo, client, clientFault, stopping, delivered, auxVars,
                   fatal, writeFault, generation, buffer, exported, now, readVars, first, count>>

\* The callback: convert to SI and store; then count.
CallbackStores ==
    /\ worker = "callback"
    /\ buffer' = [buffer EXCEPT !.nonrt = incoming, !.fresh = TRUE]
    /\ worker' = "stored" /\ incoming' = None
    /\ UNCHANGED <<component, entry, todo, client, clientFault, stopping, delivered, auxVars,
                   fatal, writeFault, generation, exported, now, readVars, first, count>>

\* The measurement has no SI representation: latch and rethrow.
CallbackOverflows ==
    /\ worker = "callback"
    /\ LatchFatalFault("SensorConfiguration")
    /\ worker' = "threw" /\ incoming' = None
    /\ UNCHANGED <<component, entry, todo, client, clientFault, stopping, delivered, auxVars,
                   writeFault, generation, buffer, exported, now, readVars, count>>

CallbackCounts ==
    /\ worker = "stored"
    /\ generation' = generation + 1 /\ worker' = "counted"
    /\ UNCHANGED <<component, entry, todo, client, clientFault, stopping, delivered, incoming,
                   auxVars, fatal, writeFault, buffer, exported, now, readVars, first, count>>

ClientDelivers ==
    /\ worker = "counted"
    /\ delivered' = TRUE /\ worker' = "receiving"
    /\ UNCHANGED <<component, entry, todo, client, clientFault, stopping, incoming, auxVars,
                   fatal, writeFault, generation, buffer, exported, now, readVars, first, count>>

\* The FailStop client latches what ended its session, a throwing callback too.
ClientFails ==
    /\ \/ worker = "threw" /\ clientFault' = "Callback"
       \/ worker = "receiving" /\ ~ stopping /\ clientFault' \in ClientFault
    /\ worker' = "ended"
    /\ first' = IF first = None THEN clientFault' ELSE first
    /\ UNCHANGED <<component, entry, todo, client, stopping, delivered, incoming, auxVars,
                   fatal, writeFault, generation, buffer, exported, now, readVars, count>>

ClientStops ==
    /\ worker = "receiving" /\ stopping
    /\ worker' = "ended"
    /\ UNCHANGED <<component, entry, todo, client, clientFault, stopping, delivered, incoming,
                   auxVars, fatal, writeFault, generation, buffer, exported, now, readVars, first,
                   count>>

-----------------------------------------------------------------------------
(* The auxiliary thread *)

\* publish_diagnostics(): client_->health(), then fatal_fault_ and the report.
AuxTakesHealth ==
    /\ aux = "spinning"
    /\ aux' = "reporting"
    /\ snapshot' = [fault |-> clientFault, stopped |-> client = "stopped", late |-> errored]
    /\ UNCHANGED <<component, entry, todo, clientVars, auxStopping, report, fatal, writeFault,
                   generation, buffer, exported, now, readVars, first, count>>

\* Mutant: the plugin's own fault is left out.
ReportedFaultOfClient == snapshot.fault

\* The client's fault if it has one, else the plugin's.
ReportedFault == IF snapshot.fault # None THEN snapshot.fault ELSE fatal

\* DiagnosticEvaluator (see Diagnostics): a fault or a stopped client is an
\* error, a streaming client may be anything.
AuxPublishes ==
    /\ aux = "reporting"
    /\ aux' = "reported"
    /\ \E error \in IF ReportedFault # None \/ snapshot.stopped THEN {TRUE} ELSE BOOLEAN :
        report' = [error |-> error, fault |-> ReportedFault, late |-> snapshot.late]
    /\ snapshot' = None
    /\ UNCHANGED <<component, entry, todo, clientVars, auxStopping, fatal, writeFault,
                   generation, buffer, exported, now, readVars, first, count>>

AuxReturns ==
    /\ aux = "reported"
    /\ aux' = "spinning" /\ report' = NoReport
    /\ UNCHANGED <<component, entry, todo, clientVars, auxStopping, snapshot, fatal,
                   writeFault, generation, buffer, exported, now, readVars, first, count>>

\* The bias service calls client_->bias(), which changes nothing here.
AuxServesBias ==
    /\ \/ aux = "spinning" /\ aux' = "biasing"
       \/ aux = "biasing" /\ aux' = "spinning"
    /\ UNCHANGED <<component, entry, todo, clientVars, auxStopping, snapshot, report, fatal,
                   writeFault, generation, buffer, exported, now, readVars, first, count>>

\* The executor throws, which is a fault unless the thread was to stop anyway.
AuxFails ==
    /\ aux = "spinning"
    /\ aux' = "ended"
    /\ IF auxStopping THEN UNCHANGED <<fatal, first>> ELSE LatchFatalFault("Callback")
    /\ UNCHANGED <<component, entry, todo, clientVars, auxStopping, snapshot, report,
                   writeFault, generation, buffer, exported, now, readVars, count>>

AuxEnds ==
    /\ aux = "spinning" /\ auxStopping
    /\ aux' = "ended"
    /\ UNCHANGED <<component, entry, todo, clientVars, auxStopping, snapshot, report, fatal,
                   writeFault, generation, buffer, exported, now, readVars, first, count>>

\* Time is only ever compared with the time of a sample.
Tick ==
    /\ now < MaxNow
    /\ incoming # None \/ buffer.rt.at # 0 \/ buffer.nonrt.at # 0
    /\ now' = now + 1
    /\ UNCHANGED <<component, entry, todo, clientVars, auxVars, fatal, writeFault, generation,
                   buffer, exported, readVars, first, count>>

Next ==
    \/ Enter \/ Leave
    \/ StopsAuxiliary \/ JoinsAuxiliary \/ StopsClient \/ JoinsClient \/ DestroysClient
    \/ Clears \/ Creates \/ Resets \/ Starts \/ RefusesToStart \/ Waits \/ GivesUp
    \/ ReadFetches \/ ReadChecks \/ ReadIsStale \/ ReadSucceeds \/ ReadCannotWrite
    \/ ClientReceives \/ CallbackStores \/ CallbackOverflows \/ CallbackCounts
    \/ ClientDelivers \/ ClientFails \/ ClientStops
    \/ AuxTakesHealth \/ AuxPublishes \/ AuxReturns \/ AuxServesBias \/ AuxFails \/ AuxEnds
    \/ Tick

Spec == Init /\ [][Next]_vars

-----------------------------------------------------------------------------
(* Properties *)

\* Every value has its type; a buffer of samples never holds anything else.
TypeOK ==
    /\ lifecycle \in {"Unconfigured", "Inactive", "Active", "Failed", "Finalized", "Destroyed"}
    /\ todo \in Seq(StepName)
    /\ client \in {None, "stopped", "running"} /\ clientFault \in FaultCode \cup {None}
    /\ stopping \in BOOLEAN /\ delivered \in BOOLEAN
    /\ worker \in {"none", "receiving", "callback", "stored", "counted", "threw", "ended"}
    /\ aux \in {"none", "spinning", "reporting", "reported", "biasing", "ended"}
    /\ auxStopping \in BOOLEAN
    /\ fatal \in FaultCode \cup {None} /\ writeFault \in BOOLEAN /\ generation \in Nat
    /\ buffer \in [rt : Sample, nonrt : Sample, fresh : BOOLEAN]
    /\ incoming \in Sample \cup {None} /\ held \in Sample \cup {None}
    /\ axes \in [Axes -> Sample \cup {NaN}] /\ refused \in SUBSET Axes /\ now \in Nat

\* Between calls, a controller sees a number only after a read() that returned OK in
\* the current activation: every failed read(), failed activation, deactivation and
\* error leaves NaN on each interface, except on one whose handle refused the NaN,
\* which none does in the build without handles.
FailSafe ==
    /\ entry = None /\ lifecycle # "Destroyed" /\ ~ (lifecycle = "Active" /\ result = "OK") =>
            \A a \in Axes : axes[a] = NaN \/ a \in refused
    /\ refused # {} => modern

\* A controller never sees a sample from before the last on_configure(), nor the
\* buffer's initial content, whichever half of the buffer readFromRT() returns, except
\* on an interface whose handle refused NaN and keeps its value until a read() succeeds.
OnlyThisConfiguration ==
    \A a \in Axes : axes[a] # NaN /\ a \notin refused => axes[a].conf = count.configure

\* Once a read() has failed, no read() succeeds before the next on_configure(),
\* although deactivation and activation clear the client's own latch.
FailureIsFinal == errored => result # "OK"

\* docs/architecture.md on faults: a report that was begun after a failed read()
\* is an error report.
ErrorIsReported == report.late => report.error

\* So it is, when read() failed for a fault and not for a handle that refused.
FaultIsReported == writeFault \/ ErrorIsReported

\* The auxiliary thread and the receiver never outlive the client they use.
NoUseAfterFree ==
    aux \in {"reporting", "reported", "biasing"} \/ worker # "none" => client # None

\* When no call is under way, only an active component has a receiver thread:
\* no sample callback runs after deactivation, error or a failed activation.
QuietUnlessActive == entry = None /\ lifecycle # "Active" => worker = "none"

\* docs/architecture.md on faults: the first fatal cause remains visible in
\* diagnostics until lifecycle recovery.
ReportNamesFirstCause == report.fault # None /\ first # None => report.fault = first
=============================================================================
