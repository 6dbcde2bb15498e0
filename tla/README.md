# TLA+ models of ros-netft

`netft` reads force/torque records from an ATI Net F/T sensor over UDP (the RDT
protocol), converts them and hands them to ROS, either through stand-alone nodes
or through a `ros2_control` hardware plugin. These modules model the parts of it
in which threads, datagrams and recovery meet, check them with TLC on small
instances and prove their safety properties for every instance with TLAPS. Paths below
are relative to the repository; `PROJECT.json` maps every definition to lines.

## 1. The system

| Part | State it keeps | Operations | What is hard about it |
|---|---|---|---|
| Sequence trackers, `src/core/src/detail/sequence.*` | last accepted counter; restart candidate | `observe`, `reset`, `begin_session` | 32-bit wrap; loss, duplication and reordering at once; restart versus late record |
| Sessions and records, `detail/client_impl.cpp` (`run`, `receive_session`, `handle_record`) | trackers, health counters, malformed run, configuration revision, backoff delay | open a session, handle a datagram, end a session, back off, bias | every error path under two recovery policies; state that outlives a session |
| Client threads, `client.cpp`, `detail/client_impl.cpp` | thread handle, `stopping_`, `worker_exited_`, `joining_`, generations, transport | `start`, `stop`, `bias`, `wait_for_first_sample`, destruction from the callback | four mutexes, two condition variables, unlocked atomics, joins |
| Fault latch, `detail/fault_latch.*` | first fault | `publish`, `reset`, `faulted`, `code` | written under the data mutex, read lock-free |
| UDP transport, `detail/udp_transport_*.cpp` | socket, shutdown request | `connect`, `send`, `receive`, `shutdown`, `close` | a shutdown that races a blocked receive; a descriptor used outside of the mutex |
| Discovery, `discovery.cpp`, `xml_config.cpp` | none | fetch and parse the sensor's configuration | broken transfers, split and misplaced fields |
| `ros2_control` plugin, `src/netft_hardware_interface.cpp` | client, auxiliary thread, realtime sample buffer, `fatal_fault_`, exported values | lifecycle callbacks, `read`, sample callback, diagnostics, bias service | manager, receiver and auxiliary thread; two latches; fail-safe values |
| Diagnostics, `src/ros/diagnostics.cpp` | copies of the cumulative counters | `evaluate` | each report consumes the deltas of all conditions |
| Status, protocol, units, validation | none | pure functions | bit and byte layout, floating point |
| Stand-alone nodes, `src/ros1_node.cpp`, `src/ros2_node.cpp` | client, evaluator, publishers, timer | construct from parameters, publish, diagnose, stop | order of construction and destruction; exceptions out of `spin()` |
| `netft_check`, `src/check_main.cpp` | sample slot, report, output file | acquire for a bounded time, report, replace a file | interrupts, crashes, two instances, unwinding beside the receiver |
| Launch files, URDF, tooling | none | configuration | - |

Interaction: a client's receiver thread runs `run()`, which opens sessions through
discovery and transport, gives each record to the trackers, and calls the user's
callback without holding a lock. The plugin's callback stores the sample in a
`RealtimeBuffer` which `read()` fetches; an auxiliary thread turns
`Client::health()` and the plugin's own latch into reports with the diagnostic
evaluator. All faults go through a latch that keeps the first one.

What makes the parts correct: within one stream of the sensor losses are counted exactly, and no
sample is delivered after a newer one; a FailStop client never takes a restart for progress; once
`stop()` has returned the client does not ask the sensor to stream, one thread at most is the receiver, nobody joins
himself and everybody returns; the client is freed only when its receiver is gone;
a shutdown wakes the receiver and is no failure; a calibration is
what the sensor's document says; controllers see NaN unless `read()` said OK (or their handle refuses
the NaN), and a failure is final until the plugin is configured again; no diagnostic event is swallowed; nothing is published or
stored into an object that is gone; an output file is an old or a new report, whole.

## 2. Modules

| Module | Models | Kind |
|---|---|---|
| `Sequence` | both trackers over a counter of any even modulus | operators |
| `RdtSession` (extends `Sequence`) | sensor, network, RDT tracker and RDT counters over several sessions, with `bias()` | specification |
| `RecordPath` (extends `Sequence`) | the receiver's decisions: sessions, records, policies, backoff, bias | specification |
| `Client` | what a client promises its owner, without threads | abstract specification |
| `ClientLifecycle` | the threads of one client; implements `Client` | specification |
| `UdpTransport` | the transports of both platforms, beside `stop()` and the rest of the process | specification |
| `Discovery` | options, transfer and parser of the sensor's configuration | specification |
| `ControlPlugin` | the threads of the plugin | specification |
| `Diagnostics` | the diagnostic evaluator | specification |
| `Node` (extends `Diagnostics`) | a stand-alone node: its main thread, receiver and evaluator | composition |
| `CheckTool` | instances of `netft_check` and the file they write | specification |
| `X_proof` | inductive invariant, lemmas and theorems about `X`, for each specification above (`Node_proof` has those of `Diagnostics`, `ClientLifecycle_proof` the refinement) | proofs |
| `MC*` | symmetry sets and configuration values for TLC | instances |

A definition whose comment begins with *Mutant* is a wrong variant of the definition
below it. It is not part of any specification; it documents which slip a property
would notice.

### Sequence and RdtSession

`Half` stands for 2^31 and `RestartLowMax` for 0xffff. `Delta` is the unsigned
subtraction of the code. A datagram of `RdtSession` carries its stream and its true position in
addition to the wrapped counter, so that the properties compare what the client
concluded with what happened. `Send`, `Lose` and `Receive` (which may leave a copy)
are the sensor and the network; `BeginSession` is a reconnect: a new socket, a new
numbering, `rdt_sequence_.reset()` and cumulative counters that stay.

`Bias` is `bias()` on a streaming client: it resets the tracker at once, while the network keeps what
is in flight and the sensor goes on with its old numbers until it hears the command
(`pending`, `SensorRestarts`; a command that is lost is never heard). So the record that
becomes the new baseline may be one of the old stream. `origin` is the stream of the baseline,
`counted` the total at the last reset, and `mixed` says that records of two streams were
accepted since: their counters are not comparable, and no tracker could count losses across
them. The three properties of the run therefore speak of one stream at a time. `LossIsExact` holds between
two resets as long as the accepted records are of one stream, `AcceptedInOrder` and `DropsOnlyOld` compare a record with a
baseline of its own stream. That the order of *deliveries* survives `bias()` is due to
the FT tracker and is `FreshDelivery` of `RecordPath`. `WithinWindow` is the one
assumption about the environment: no datagram and no silence spans half of the
number space, which at 7 kHz is more than three days.

### RecordPath

One state is what `run()` and `receive_session()` know between two datagrams.
`ReceiveRecord` is all of `handle_record()`: the malformed run is reset, both
trackers observe, a serious status precedes FT progress, FT discontinuities count
only in FailStop, old, faulty and rate-limited records are not delivered, and the delivery may
end normally, with a value that is not finite, or with a throwing callback.
`EndSession` is `close_session()` and the policy switch of `run()` together, as no
datagram is handled between them. `Raise` is the two catch handlers of `run()`: whatever is thrown
while a session is opened (`ConnectRaises`) or received (`SessionRaises`) closes
the session and latches a fault under either policy. The configuration of the client is chosen in
`Init` and never changes, as `config_` in the code. The sensor (counters that stall,
reboots, lost commands) and the network are external. Only one thing is a bound and
not behaviour: the number of records, sessions and disturbances. Two assumptions are made about
the environment: a record is less than half of the FT number space older than the sensor's next one, and a
reboot lasts longer than a datagram is on its way (`SensorReboots` empties the network).

`rate limit` is a free choice: time is not modelled, only that a wanted record may
be dropped. The record's bytes are abstracted to its form (record, garbled, empty).

### ClientLifecycle

Each thread has a program counter. `lifecycle_mutex_` is held over several steps and
is a lock with an owner; the command, record and data mutexes are always taken in
this order and nobody blocks while holding one, so each of their sections is one
step; an atomic that is touched outside of them is a step of its own. Both condition
variables may wake spuriously. The waiters of `first_sample_cv_` have deadlines, so
they may return at any time. The thread created by a failed `start()` does not exist
and everything is put back in the order of the code. A callback may stop or destroy
its client; the latter hands it to `DeferredDestroyer`. It may also call `start()`, which
takes and leaves `lifecycle_mutex_` and throws (`CallbackStarts`). `Init` chooses the recovery
policy.

`commanded` is the last command to the sensor that was sent, or `Lost`: `stop()` and
`close_session()` swallow a StopStreaming that cannot be sent and treat the session as stopped
(`TellToStop`), and the documentation promises the command only "when possible"
(`docs/architecture.md:64`). A sensor may thus go on streaming to a closed socket. What is
claimed is what the client does: after `stop()` StartRealtime is not the last command
it has sent or tried to send (`QuietAfterStop`), and so at the end of every acquisition, a
faulted one included (`ImplementsClient`). A datagram with a command that is lost on the
way is a command sent; the client cannot tell. `LatchShowsInHealth` is about the stored `health_.state`;
`health()` additionally derives `Faulted` from the latch (`client_impl.cpp:337`), so a
caller would not see a stored state that lags.

### Client, and that ClientLifecycle implements it

`Client` knows a phase (stopped, starting, acquiring), a stop request, the fault, the
last command to the sensor and whether the latest sample is of this acquisition. Its
actions say when each may change: the sensor is told to stream only by an acquisition
that is neither stopped nor faulted, an acquisition ends only on a stop or a fault and
after StopStreaming was sent or could not be, a start that fails brings everything back. In
`ClientLifecycle`, `Promise == INSTANCE Client WITH ...` maps the phase to the threads
(a `start()` between its reset and its thread; a receiver that has not ended), the
fault to the latch, `command` to `commanded`, and what a failing start owes to
its locals. `ImplementsClient` (`Promise!CSpec`) is the safety part of the refinement;
`OnlyAcquisitionStreams` and `FirstFaultStays` are what an owner may conclude from it,
and are proved from it. Its liveness is stated on the abstract variables and checked under the fairness of the
threads: `FaultEndsAcquisition`, and `StopEndsAcquisition` as a part of `StopReturns`.

### UdpTransport

The descriptors of the process are a table in which a number is free, an open or shut
down socket of the transport, or foreign. Each section under `mutex_` is one step;
the poll and the read, which run outside of it on a copy of the descriptor, are steps
of their own. `platform` selects the translation unit: `poll()` wakes for a socket that
is shut down, `WSAPoll()` may not, and checks the request between two slices. The
client is reduced to its sessions, `stopping_` and the classification of a result.
`result` remembers why `receive()` returned, which its caller cannot see. `send()` is
part of `Command`; that it may also be called by `stop()` and `bias()` is why `NoForeignRead`
includes that `socket_` never names a closed descriptor.

### Discovery

The body is a sequence of tokens, one for each pass of the parser's loop (an opening,
closing or empty tag, text or CDATA, something skipped, something refused), and each
pass is a step. `SensorServes` makes the documents: those of `Standards` with up to
`MaxEdits` tokens removed, added or replaced. A field's text is a sequence of pieces,
since comments and CDATA split it. The meaning of a document is defined on the whole of
it from depths and partners, without stack or flags: `WellNested`, the `Content` between
a tag and its partner, what an element `States`, and which documents are `Sound`.
`ConfigurationIsTheDocuments` says that the parser accepts exactly the sound ones and
takes the values they state. Characters inside a tag, and of a number, are abstracted: a number is usable,
unusable, or too small for the raw counts.

### ControlPlugin

Each entry point of the controller manager is a script of steps, since the manager
calls them one at a time. Steps are split where another thread can see the
difference. The client is reduced to its receiver, latch and delivery flag. `readFromRT()`
(external) returns the other half of its buffer while the writer holds the mutex.
`Init` selects the build: the API with state handles, which can refuse a value, or plain
doubles, which cannot. `refused` remembers the axes that still hold a number because their handle refused the NaN:
`invalidate_interfaces()` does not look at that answer, so `FailSafe` and `OnlyThisConfiguration` say of each axis that it is NaN
(or current) or in `refused`, which stays empty with plain doubles. The controller manager's lifecycle is external.

### Diagnostics and Node

`Conditions` is the ladder of `evaluate()` in its order; `Consumed` is the update of
the copies, which a fault skips. Numbers are formatted nowhere in the model.
`FaultLogThrottle` is not modelled: no adapter calls it.

`Node` adds the life of a node around it: refused parameters end it before anything
exists (`RefuseParameters`), otherwise client, evaluator, publishers and timer are made
(`Construct`), the receiver publishes beside the main thread, `spin()` evaluates one report at a time. `Caught` is where the two
`main()` functions differ: ROS 2 still holds the node and stops it, ROS 1 has
destroyed it on the way to the handler. Destruction runs backwards, publishers before
the client.

### CheckTool

Each instance has a place in `main()` and a receiver thread in its client. A loop's
pass that only waits is a stutter; the others are steps. `Unwind` is the scope guard,
the client's and the slot's destruction. `Kill` leaves whatever is on disk. A rename
puts the instance's report in place of the file, with the verdict it belongs to; the
scope guard's `remove()` that follows in the same step finds the temporary name gone (that another
instance's `mkstemp()` has drawn the same name in between is left out).
`age` and `interrupted` are reset when nobody looks at them any more.

## 3. Runs

| Run | Expect | Shows |
|---|---|---|
| `rdt_session` | pass | `LossIsExact`, `AcceptedInOrder`, `DropsOnlyOld` over a whole turn of a counter of six values, from every start, with loss, duplication, reordering, a reconnect and a `bias()` with records in flight |
| `record_path` | pass | `FreshDelivery`, `RevisionNamesCalibration`, `StormIsConsecutive`, `BackoffIsExponential`, `FailStopNeverConfirmsRestart` for both policies, with exceptions out of a session |
| `lifecycle` | pass | `QuietAfterStop`, `OneReceiver`, `LatchShowsInHealth`, `FailedStartLeavesNoTrace`, `WaitNeverLies`, `DestructionIsSafe`, `NobodyWaitsInVain` for two callers and the callback under both policies, with StopStreaming commands that cannot be sent, and `ImplementsClient` |
| `lifecycle_live` | pass | `StopReturns` (with the end of the acquisition), `StartReturns`, `FaultEndsAcquisition`, `DestroyCompletes` |
| `transport` | pass | `NoForeignRead`, `NoDescriptorLeak`, `ShutdownIsNotAFailure`, `StopWakesReceive` on both platforms |
| `discovery` | pass | `ConfigurationIsTheDocuments` (of a whole response only), `ValidConfigIsDiscoverable` |
| `plugin` | pass | `FailSafe`, `OnlyThisConfiguration`, `FailureIsFinal`, `FaultIsReported`, `NoUseAfterFree`, `QuietUnlessActive` in both builds |
| `node` | pass | `NothingMissed`, `AlarmsEnd` of the evaluator in a running node; `PublisherOutlivesReceiver` |
| `check_tool` | pass | `FileIsWhole` (and no temporary file stays behind, short of a kill), `ReportIsFinal`, `SlotOutlivesReceiver`, `Bounded` for two instances |
| `old_records`, `first_cause`, `write_fault_silent` | violation | see section 6 |

Bounds. Counters have six values and a low window of two, so that the half window,
the wrap and the window's boundary are within reach; the classification depends on
distances only, and what it does at every width is proved. Sessions (three) and
disturbances (two) suffice for what survives one session to hurt the next. Two
callers and the callback make every pairing of `start`, `stop`, `bias`, `wait` and
destruction; a third caller would only be another waiter. Two start attempts are the
least in which a generation number can be reused. The plugin runs allow a
configuration after a configuration, two activations, and a clock that can make a
sample stale. `StormThreshold` is 2 where the code has 10: it must be reachable
within and across sessions. The transport has three descriptors (its own, one being
tried, one for the others), two addresses and three sessions, so that a number can be
reused within and between sessions. Two edits make a document in which one defect
hides another; a response of thirteen tokens is one that two insertions into the longer
standard document no longer fit. `MaxLong`, `MaxDeadline` and `Timeouts` are
scaled down together, with each limit below, at and above the other. One tick is
enough for both deadlines of `netft_check`, since only before and after are told apart.

Deadlock is not checked where the bounds or the end of the program let the system
stop; `transport`, where something can always happen, checks it.

No run checks `TypeOK`: each module that has one has it proved, as a part of `IInv` or (for
`Discovery`) from it.

Symmetry is used for calibrations, callers and axes in safety runs only.

Fairness. `FairSpec` asks that a thread which can go on goes on: `Stop`, `Start`,
`WaitReturns` and `Run` are weakly fair. That stands for the scheduler, for receive,
discovery and backoff deadlines, which all are finite and validated, and for a
callback that returns. It does not ask that anybody calls anything, that a mutex is
handed to a particular thread, or that a condition variable wakes unnotified.
`UdpTransport` asks less: the receiver and `stop()` go on, but no deadline passes and no
datagram comes, so that `StopWakesReceive` is due to the shutdown alone. `CheckTool` asks that
the main thread goes on, time passes and an entered callback returns, and nothing of the
sensor.

## 4. Proofs

Every safety property that a passing run checks is also a theorem, for every value of the
constants. Each `X_proof` has the same shape: the inductive invariant `IInv` as a conjunction of named
parts, `InitIInv`, one lemma per action or per part, `NextIInv`, and short theorems
`Spec => []P`. The bounds appear in guards only and no proof depends on their values:
the theorems are about any number of records, sessions, calls, callers, descriptors,
instances and tokens, and any counter width.

| Module | Theorems (property) |
|---|---|
| `RdtSession_proof` | `TypeCorrect`, `LossExact` (`LossIsExact`), `InOrder` (`AcceptedInOrder`), `DropsAreOld` (`DropsOnlyOld`) |
| `RecordPath_proof` | `RecordTypes`, `FailStopHasNoRestart` (`FailStopNeverConfirmsRestart`), `StormsAreReal` (`StormIsConsecutive`), `RevisionsAreNames` (`RevisionNamesCalibration`), `DelaysDouble` (`BackoffIsExponential`), `DeliveriesAreFresh` (`FreshDelivery`), `RebootIsFollowed` |
| `ClientLifecycle_proof` | `LifecycleTypes`, `ReceiverIsOne` (`OneReceiver`), `StopIsQuiet` (`QuietAfterStop`), `HealthShowsLatch` (`LatchShowsInHealth`), `DestroyedSafely` (`DestructionIsSafe`), `FailedStartIsUndone` (`FailedStartLeavesNoTrace`), `WaitIsTrue` (`WaitNeverLies`), `NobodyIsForgotten` (`NobodyWaitsInVain`), `LifecycleImplementsClient` (`ImplementsClient`), `StreamsOnlyWhileAcquiring` and `FirstFaultIsKept` (of `Client`) |
| `UdpTransport_proof` | `ReadsOwnSocket` (`NoForeignRead`), `ClosesEverySocket` (`NoDescriptorLeak`), `ShutdownIsStop` (`ShutdownIsNotAFailure`) |
| `ControlPlugin_proof` | `PluginTypes`, `ClientOutlivesThreads` (`NoUseAfterFree`), `InactiveIsQuiet` (`QuietUnlessActive`), `ReadFailureIsFinal` (`FailureIsFinal`), `FaultsAreReported` (`FaultIsReported`), `SamplesAreCurrent` (`OnlyThisConfiguration`), `InterfacesFailSafe` (`FailSafe`) |
| `Node_proof` | `NoEventIsMasked` (`NothingMissed`), `AlarmsDoEnd` (`AlarmsEnd`), `PublisherIsSafe` (`PublisherOutlivesReceiver`) |
| `CheckTool_proof` | `OutputIsWhole` (`FileIsWhole`), `VerdictIsFinal` (`ReportIsFinal`), `SlotIsSafe` (`SlotOutlivesReceiver`) |
| `Discovery_proof` | `DiscoveryTypes`, `CalibrationIsWhole`, `ConfigurationIsWhatIsWritten` (`ConfigurationIsTheDocuments`), `ValidIsDiscoverable` (`ValidConfigIsDiscoverable`) |

Assumptions. They are the ASSUMEs of the specifications, which TLC evaluates on every
run: the bounds are natural numbers, thresholds and delays are as `validate(Config)` demands
(a positive threshold, an initial delay between 1 and the maximum), `SequenceAssumption`
(a nonempty half space, a low window inside it), and that `None` and the names of threads
and of outcomes differ from each other, which in the code are values of different types
(`NoneAssumption`, `LifecycleAssumption`, `TransportAssumption`, `ControlPluginAssumption`).
`DiscoveryAssumption` says that documents are sequences of tokens.

The arguments, and why the invariants need what they have:

- **RdtSession.** `LossIsExact` is not inductive: a received counter says nothing about
  positions unless counters and positions of one stream agree for every record in flight and for
  the baseline (`InFlightAgree`, `BaselineAgrees`). `Classification` is the central lemma:
  under that agreement the tracker calls a record of the baseline's stream a gap, contiguous or old exactly when its
  position says so, with a gap of the right size. Of a record of another stream nothing is known; if
  it is accepted, it is the new baseline and the count is `mixed`.
- **RecordPath.** `FailStopNeverConfirmsRestart` needs that a FailStop session that is open
  has no restart candidate (`NoCandidate`); `StormIsConsecutive` that the malformed run is the tail
  of what was received, also over a session's end (`RunIsTail`); `RevisionNamesCalibration`
  that the current configuration has the highest revision used (`RevisionIsCurrent`).
  `BackoffIsExponential` is inductive by `PowerDoubles`, 2^(n+1) = 2 * 2^n, which no solver knows: it
  is proved by counting the subsets of 1..n+1 with the library's theorems on finite sets.
  `FreshDelivery` needs `OrderInv`: births and FT counters are in the same order for all
  records in flight (`FlightInOrder`), and there is a birth behind which the baseline leaves
  everything in flight and everything delivered (`BaselineInOrder`). `RebootIsFollowed` is
  about the tracker alone: its heuristic never fails to notice a reboot once two records
  of the low window arrive in order in one session (that it may also see a reboot where there is none
  is in section 5).
- **ClientLifecycle.** Seventeen parts: who holds `lifecycle_mutex_` at which place (`LockOK`),
  who owns the receiver (`OneReceiver`), which flags a receiver at a place may find
  (`WorkerOK`, `StreamOK`, `OutcomeOK`), what a start under way has saved (`SavedOK`), that a
  delivery mark names the run it came from (`DeliveredOK`), and what a pending destruction
  excludes (`DestroyOK`). `NobodyIsForgotten` is the safety half of the absence of deadlock, for
  any number of callers: who sleeps on `lifecycle_cv_` has a thread that will notify it
  (`WakeOK`). It needs that `worker_exited_` is true whenever there is no receiver, except between
  the store of a `start()` and the thread it makes (`GoneOK`): so a `start()` that waits for a faulted
  receiver waits for one that has its notification still before it, or has exited. The refinement is proved action by action: each step of a thread is
  a step of `Client` or a stutter under the mapping of section 2.
- **UdpTransport.** `socket_` is set exactly between `connect()` and `close()`
  (`SocketIsPlaced`), and inside a session a shutdown request comes from a `stop()` that has
  set `stopping_` before (`ShutdownMeansStop`).
- **ControlPlugin.** `Progress` says that what is left of a call is the end of its
  script, so that the number of steps left tells which are done. On that rest who has joined
  whom (`WorkerOK`, `AuxOK`), from which step on the interfaces are NaN or have refused it (`Cleared`,
  `AxesOK`), that the buffer holds samples of this configuration outside of the part of
  `on_configure()` that empties it (`SampleOK`), that what made a `read()` fail is kept
  (`FaultKept`), and that a report under way finds it: `on_configure()` forgets faults only after it
  has joined the auxiliary thread (`ReportOK`).
- **Node.** The evaluator's copies lag behind the last report and differ from it
  only after a fault (`CopiesLag`); the receiver lives within the node (`ReceiverWithinNode`).
  `ConditionsShape` and the lemmas after it turn the ladder of sixteen conditions into one
  fact per event.
- **CheckTool.** The receiver lives within `run_check()` (`ReceiverWithinRun`), what is
  judged is a final snapshot (`SnapshotIsFinal`), a temporary file is in the hand of its
  writer (`TemporaryInHand`), and the file belongs to an instance that has only its verdict
  left to return (`WriterIsDone`).
- **Discovery.** The scanner itself does the induction over the document: the invariant
  says what its state means for the tokens read so far, and each step extends that by one
  token. `ScanOK`: `seen` is what those tokens open, and no calibration field twice.
  `StackOK`: the stack holds the names of the elements still open, each at its depth, and
  every closed one was closed under its own name, so that at the end an empty stack is
  `WellNested`. `FieldsAreLeaves`: only the innermost open element can be a field, hence
  text read while a field is on top is the text within it. `BuffersOK`: a field's buffer is
  the sequence of the text tokens within its element, in the order of the document.
  The lemmas before it are about depths and partners: a depth moves by one
  tag at a time (`CountStep`), and the tag that closes the top of the stack is the partner
  of the tag that opened it. `ConfigurationIsWhatIsWritten` then compares the parser's last
  checks with `Sound` and `States`. `CalibrationIsWhole` is its structural part on its own.

A proof attempt corrected the model once. `FreshDelivery` used to except only the record
that confirms a restart. Its invariant could not be established, and TLC found why with
a larger number space (`Half = 5`, eight records, three in flight): after reordering near the
low window has been taken for a restart, a later record may be older than one delivered before. The property
now excepts the first delivery after a confirmed restart (`doubted`), and a reboot is assumed to
outlast the datagrams of before.

Only model-checked: liveness (`StopReturns`, `StartReturns`, `FaultEndsAcquisition`,
`DestroyCompletes`, `StopWakesReceive`, `Bounded`), since liveness under fairness and ENABLED are
out of this prover's reach; and the three counterexamples of section 6.

## 5. Hazards

`PROJECT.json` lists the hazards by line. Those that a property excepts or does not
reach:

- **A lost wakeup in `start()`** (`client_impl.cpp:127`). On a faulted client whose
  receiver has not exited, `start()` waits for `worker_exited_`, which
  `finish_session()` stores and notifies without `lifecycle_mutex_`. Both can fall
  between the predicate and the block. `StartFaultSleeps` is that step; `StartReturns`
  shows that it is the only place where `start()` can stay, and `NobodyWaitsInVain` that
  everybody else who sleeps will be notified. Any later notification
  helps, and a caller that calls `stop()` first, as the plugin does, never takes the path.
- **A ROS 1 node whose `spin()` throws** (`ros1_node.cpp:147`) is destroyed without being
  stopped: the publishers go while the receiver may be publishing.
  `PublisherOutlivesReceiver` excepts this path and holds on every other one.
- **A StopStreaming that cannot be sent** (`client_impl.cpp:248` and `:715`) is swallowed, and the
  sensor may stream on. `QuietAfterStop` and `ImplementsClient` count it as an attempt.
- **A record in flight during `bias()`** (`client_impl.cpp:302`) becomes the new RDT baseline:
  losses are then counted across two numberings (`LossIsExact` excepts it by `mixed`), and records of
  the restarted stream may be dropped as old (`DropsOnlyOld` excepts a baseline of another stream).
- **An empty datagram** (`client_impl.cpp:492`) is taken for a receive timeout and ends the session
  (`ReceiveEmpty`).
- **A handle that refuses NaN** (`netft_hardware_interface.cpp:663`) keeps its number after
  `read()` returned ERROR. `FailSafe` and `OnlyThisConfiguration` except that axis, and no other.
- **A restart confirmed by reordering** (`sequence.cpp:52`): a baseline just above
  the low window followed by two reordered older records inside it. The baseline then
  goes back, and `FreshDelivery` says nothing until the next delivery. FailStop is not
  exposed (`FailStopNeverConfirmsRestart`).
- **Half a turn of the FT counter during an outage**, outside of the model's window.

One more that no run states: an SI overflow of the last sample makes `netft_check`
report `invalid_arguments`, since `to_si_sample()` throws what the option parser throws.

## 6. Disagreements between the documentation and the code

Three are the counterexample of a run; `PROJECT.json` quotes the sentences.

- `old_records`: duplicates and out-of-order records are said to be dropped, but in
  FailStop their repeated or lower FT count is latched as `FtStall` or `FtBackward`.
- `first_cause`: the first fatal cause is said to stay visible, but the client's
  later `Callback` fault replaces the plugin's `SensorConfiguration` in reports.
- `write_fault_silent`: a failed `read()` is said to come with an ERROR diagnostic,
  but a failure to write the interfaces is not seen by `publish_diagnostics()`.

Four more are plain from one step of a model and have no run:

- `docs/architecture.md:170` says that isolated malformed datagrams are dropped. An empty one is
  taken for a receive timeout and ends the session (`ReceiveEmpty`).
- `docs/architecture.md:134` says that after a latched fault `read()` writes NaN to every interface.
  `invalidate_interfaces()` does not notice a handle that refuses it, and the number stays; the
  controller still gets ERROR.
- `docs/architecture.md:163` says that `bias()` begins a new RDT session baseline after the restart
  command. It does reset the tracker after *sending* it, but the record that becomes the
  baseline may be a late one of the old stream.
- `docs/architecture.md:64` says that shutdown closes the socket to wake a blocked receive.
  `shutdown()` only shuts it down; the receiver itself closes it, in `close_session()`. The code
  is right: with a close in `shutdown()` the receiver could poll or read a descriptor that
  has been reused, which is the mutant that `NoForeignRead` detects.

## 7. Not modelled

The characters of text and the layout of bytes (tags, numbers, RDT records, status
tables, formatting), floating point (unit conversion, rates, tolerances), libcurl's
protocol, the kernel's sockets below the calls, memory order below the mutexes and
atomics named above, launch files, URDF, build and packaging. `on_init()` of the plugin
(`netft_hardware_interface.cpp` 85-172 and 378-487) turns strings into a configuration or
refuses them before anything exists; it has no step that another could disturb. The
range checks of `types.cpp` and `adapter_config.hpp` that nothing repeats appear as
ASSUMEs.

## 8. Plan

The models are complete to the extent of section 7, and every safety property that a
passing run checks is proved. What could follow:

1. Composition: `RecordPath` as the receiver of `ClientLifecycle`, in place of its free choice
   of outcomes. Both agree on the interface (a session ends with a fault, a stop or not at
   all), so that today each is proved under the weakest assumption about the other.
2. `ControlPlugin`, `Node` and `CheckTool` on top of `Client` instead of their own reduced
   clients, with `LifecycleImplementsClient` as the link.
3. Liveness, should the prover learn ENABLED: `NobodyWaitsInVain` is the invariant that
   a proof of `StopReturns` and `StartReturns` would start from.
