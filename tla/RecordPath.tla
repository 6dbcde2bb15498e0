----------------------------- MODULE RecordPath -----------------------------
(***************************************************************************)
(* What the receiver thread does with what arrives: the sessions of run()  *)
(* and receive_session(), the decisions of handle_record() and the         *)
(* recovery policies, against a sensor that may stall, fail or reboot and  *)
(* a network that loses, duplicates, reorders and garbles datagrams        *)
(* (core/src/detail/client_impl.cpp).  Threads are in ClientLifecycle; one *)
(* record is handled in one step here, because bias() and the bookkeeping  *)
(* of handle_record() exclude each other through record_mutex_.            *)
(***************************************************************************)
EXTENDS Sequence, FiniteSets, Sequences

CONSTANTS
    Configs,            \* the Config a client may be created with
    StormThreshold,     \* kMalformedStormThreshold (10)
    Calibrations,       \* the calibrations the sensor may report
    Overflowing,        \* those under which a count may scale to no finite value; validate()
                        \* lets none pass, and handle_record() checks all the same
    InitialDelay,       \* reconnect_initial_delay
    MaxDelay,           \* reconnect_max_delay
    None,               \* no value
    MaxBorn,            \* bound: records the sensor measures
    MaxInFlight,        \* bound: datagrams in the network
    MaxSession,         \* bound: sessions opened or attempted
    MaxDisturbance      \* bound: reboots, stalls, garbled and duplicated datagrams, biases

ASSUME RecordPathAssumption ==
    /\ Configs \subseteq [policy : {"FailStop", "Reconnect"},
                           deliverOnError : BOOLEAN, rateLimited : BOOLEAN]
    /\ StormThreshold \in Nat \ {0}
    /\ Overflowing \subseteq Calibrations /\ None \notin Calibrations
    /\ InitialDelay \in Nat \ {0} /\ MaxDelay \in Nat /\ InitialDelay <= MaxDelay
    /\ {MaxBorn, MaxInFlight, MaxSession, MaxDisturbance} \subseteq Nat

VARIABLES
    config,         \* config_: never assigned after the construction
    sensor,         \* the sensor: streaming or not, its counters, its age
    network,        \* datagrams on the way to the current socket
    rdt, ft,        \* rdt_sequence_, ft_sequence_
    phase,          \* where run() is: Connecting, Open, Backoff, Faulted
    valid,          \* received_valid_record of the session
    fault,          \* code of the fault latch, None when not latched
    malformed,      \* consecutive_malformed_
    configuration,  \* health_.sensor_configuration, None before the first
    backoff,        \* run()'s delay
    delivery,       \* latest_ with its history: the sample last delivered
    event,          \* history: how the datagram of this step was classified
    recent,         \* history: validity of the last StormThreshold datagrams
    used,           \* history: revisions and calibrations of delivered samples
    doubted,        \* history: a restart was confirmed since that delivery
    fruitless,      \* history: failed sessions since the last valid record
    count           \* history: what the bounds count

vars == <<config, sensor, network, rdt, ft, phase, valid, fault, malformed, configuration,
          backoff, delivery, event, recent, used, doubted, fruitless, count>>

client == <<rdt, ft, phase, valid, fault, malformed, configuration, backoff,
            delivery, recent, used, doubted, fruitless>>

Policy == config.policy                    \* recovery_policy
DeliverOnError == config.deliverOnError    \* deliver_samples_with_error_status
RateLimited == config.rateLimited          \* sample_rate_limit_hz > 0

\* classify_status of the record's status word: only "Error" makes a difference
\* to the client, so that "Ok" stands for "Warn" as well.
Status == {"Ok", "Error"}

Result == {"SensorConfiguration", "Timeout", "Socket", "SeriousStatus", "FtStall",
           "FtBackward", "MalformedStorm", "Callback"}
Phase == {"Connecting", "Open", "Backoff", "Faulted"}

\* born is the truth about a record, which the client cannot see: the number of
\* records measured before it.
Datagram == [born : Nat, rdt : Counter, ft : Counter,
             status : Status, form : {"record", "garbled", "empty"}]

\* "No value" is none of the values.
ASSUME NoneAssumption ==
    /\ None \notin Result \cup RdtKind \cup FtKind
    /\ None \notin [calibration : Calibrations, revision : Nat]
    /\ None \notin [born : Nat, revision : Nat]

NoEvent == [rdt |-> None, ft |-> None]

\* No datagram is received in this step.
NoDatagram == event' = NoEvent /\ UNCHANGED config

DisturbanceLeft == count.disturbance < MaxDisturbance
Disturb == count' = [count EXCEPT !.disturbance = @ + 1]

-----------------------------------------------------------------------------
(* The sensor and the network (external) *)

Init ==
    /\ config \in Configs
    /\ sensor = [streaming |-> FALSE, rdt |-> 0, ft |-> 0, born |-> 0]
    /\ network = {}
    /\ rdt = RdtInit /\ ft = FtInit
    /\ phase = "Connecting" /\ valid = FALSE /\ fault = None /\ malformed = 0
    /\ configuration = None /\ backoff = InitialDelay
    /\ delivery = None /\ event = NoEvent /\ recent = <<>> /\ used = {} /\ doubted = FALSE
    /\ fruitless = 0
    /\ count = [session |-> 0, disturbance |-> 0]

\* A streaming sensor sends a record; advance = FALSE is a sensor whose
\* measurements stall.  Records older than half of a counter are not in flight.
SensorSends ==
    /\ NoDatagram
    /\ sensor.streaming /\ sensor.born < MaxBorn
    /\ Cardinality(network) < MaxInFlight
    /\ \A d \in network : sensor.born - d.born < Half - 1
    /\ \E status \in Status, advance \in BOOLEAN :
        /\ status # "Ok" \/ ~ advance => DisturbanceLeft
        /\ IF status # "Ok" \/ ~ advance THEN Disturb ELSE UNCHANGED count
        /\ network' = network \cup
             {[born |-> sensor.born,
               rdt |-> sensor.rdt, ft |-> sensor.ft, status |-> status, form |-> "record"]}
        /\ sensor' = [sensor EXCEPT !.born = @ + 1, !.rdt = Succ(@),
                                    !.ft = IF advance THEN Succ(@) ELSE @]
    /\ UNCHANGED client

\* The sensor measures on while nobody listens.
SensorIdles ==
    /\ NoDatagram
    /\ ~ sensor.streaming /\ sensor.born < MaxBorn
    /\ sensor' = [sensor EXCEPT !.born = @ + 1, !.ft = Succ(@)]
    /\ UNCHANGED <<client, network, count>>

\* The sensor reboots: its stream ends and its FT counter starts over.  A reboot
\* lasts longer than any datagram is on its way.
SensorReboots ==
    /\ NoDatagram
    /\ DisturbanceLeft /\ Disturb
    /\ sensor' = [sensor EXCEPT !.streaming = FALSE, !.rdt = 0, !.ft = 0]
    /\ network' = {}
    /\ UNCHANGED client

NetworkLoses ==
    /\ NoDatagram
    /\ \E d \in network : network' = network \ {d}
    /\ UNCHANGED <<client, sensor, count>>

NetworkGarbles ==
    /\ NoDatagram
    /\ DisturbanceLeft /\ Disturb
    /\ \E d \in network, form \in {"garbled", "empty"} :
        /\ d.form = "record"
        /\ network' = (network \ {d}) \cup {[d EXCEPT !.form = form]}
    /\ UNCHANGED <<client, sensor>>

-----------------------------------------------------------------------------
(* The end of a session *)

\* Mutant: a valid record does not start the delays over.
NextDelayKept(delay, received) == delay

\* run(): the delay after the one just waited, or the initial one if the
\* session received a valid record.
NextDelay(delay, received) == IF received THEN InitialDelay ELSE delay

\* close_session() stops the stream and closes the socket.  If StopStreaming does
\* not get through, the sensor goes on streaming to a port that nobody listens on.
CloseSession ==
    /\ sensor' = [sensor EXCEPT !.streaming = FALSE, !.rdt = 0]
    /\ network' = {}

\* receive_session() returns a result: the session is closed, and run() latches
\* the fault (FailStop) or enters backoff (Reconnect).
EndSession(result, received) ==
    /\ CloseSession
    /\ valid' = received
    /\ IF Policy = "FailStop"
       THEN /\ phase' = "Faulted" /\ fault' = result
            /\ UNCHANGED <<backoff, fruitless>>
       ELSE /\ phase' = "Backoff"
            /\ backoff' = NextDelay(backoff, received)
            /\ fruitless' = IF received THEN 0 ELSE fruitless
            /\ UNCHANGED fault

\* An exception that receive_session() does not handle, such as one for lack of
\* memory, leaves it for the handlers of run(): they latch Socket under either
\* policy, and the receiver thread ends.
Raise ==
    /\ CloseSession
    /\ phase' = "Faulted" /\ fault' = "Socket"
    /\ UNCHANGED <<valid, backoff, fruitless>>

Doubled(delay) == IF 2 * delay < MaxDelay THEN 2 * delay ELSE MaxDelay

\* The delay is over: it doubles, up to the configured maximum.
BackoffExpires ==
    /\ NoDatagram
    /\ phase = "Backoff"
    /\ phase' = "Connecting"
    /\ backoff' = Doubled(backoff)
    /\ fruitless' = fruitless + 1
    /\ UNCHANGED <<sensor, network, rdt, ft, valid, fault, malformed, configuration,
                   delivery, recent, used, doubted, count>>

\* The user restarts a faulted client with start(): the latch, the sample and
\* the malformed count are cleared; FT tracking and configuration persist.
Restart ==
    /\ NoDatagram
    /\ phase = "Faulted"
    /\ phase' = "Connecting" /\ fault' = None /\ malformed' = 0 /\ delivery' = None
    /\ backoff' = InitialDelay /\ fruitless' = 0 /\ recent' = <<>>
    /\ UNCHANGED <<sensor, network, rdt, ft, valid, configuration, used, doubted,
                   count>>

-----------------------------------------------------------------------------
(* The beginning of a session *)

\* Mutant: the revision is kept when the calibration changes.
ApplyConfigurationKeepsRevision(calibration) ==
    configuration' = [calibration |-> calibration,
                      revision |-> IF configuration = None THEN 1 ELSE configuration.revision]

\* apply_configuration(): the revision changes exactly when the calibration does.
ApplyConfiguration(calibration) ==
    configuration' =
        [calibration |-> calibration,
         revision |-> CASE configuration = None -> 1
                        [] configuration # None /\ configuration.calibration = calibration
                             -> configuration.revision
                        [] OTHER -> configuration.revision + 1]

Attempt == count.session < MaxSession /\ count' = [count EXCEPT !.session = @ + 1]

DiscoveryFails ==
    /\ NoDatagram
    /\ phase = "Connecting" /\ Attempt
    /\ EndSession("SensorConfiguration", FALSE)
    /\ UNCHANGED <<rdt, ft, malformed, configuration, delivery, recent, used, doubted>>

\* The configuration is discovered, then connect() or the first send() fails.
ConnectFails ==
    /\ NoDatagram
    /\ phase = "Connecting" /\ Attempt
    /\ \E c \in Calibrations : ApplyConfiguration(c)
    /\ EndSession("Socket", FALSE)
    /\ UNCHANGED <<rdt, ft, malformed, delivery, recent, used, doubted>>

\* An exception before or after the new configuration is applied.
ConnectRaises ==
    /\ NoDatagram
    /\ phase = "Connecting" /\ Attempt
    /\ UNCHANGED configuration \/ \E c \in Calibrations : ApplyConfiguration(c)
    /\ Raise
    /\ UNCHANGED <<rdt, ft, malformed, delivery, recent, used, doubted>>

\* What StartRealtime does to the sensor (external): it starts a new stream,
\* numbered from zero, unless the command is lost on the way.
StreamStarts ==
    \E heard \in BOOLEAN :
        sensor' = IF heard
                  THEN [sensor EXCEPT !.streaming = TRUE, !.rdt = 0]
                  ELSE [sensor EXCEPT !.streaming = FALSE, !.rdt = 0]

\* The session opens on a new socket: StartRealtime is sent, the RDT baseline
\* is reset and the FT restart candidate dropped.
OpenSession ==
    /\ NoDatagram
    /\ phase = "Connecting" /\ Attempt
    /\ \E c \in Calibrations : ApplyConfiguration(c)
    /\ phase' = "Open" /\ valid' = FALSE
    /\ StreamStarts
    /\ network' = {}
    /\ rdt' = RdtReset(rdt)
    /\ ft' = FtBeginSession(ft)
    /\ UNCHANGED <<fault, malformed, backoff, delivery, recent, used, doubted, fruitless>>

-----------------------------------------------------------------------------
(* Datagrams *)

\* receive() returns datagram d; a duplicating network keeps a copy.
Arrives(d, duplicated) ==
    /\ d \in network
    /\ duplicated => DisturbanceLeft
    /\ IF duplicated THEN Disturb ELSE UNCHANGED count

\* The network after d was received, when the session goes on.
Rest(d, duplicated) == IF duplicated THEN network ELSE network \ {d}

Remember(received) ==
    recent' = IF Len(recent) < StormThreshold THEN Append(recent, received)
                                              ELSE Append(Tail(recent), received)

\* Mutant: a valid record does not end the run.
MalformedRunGoesOn(received) == IF received = "valid" THEN malformed ELSE malformed + 1

\* consecutive_malformed_ after a datagram.
MalformedRun(received) == IF received = "valid" THEN 0 ELSE malformed + 1

\* decode_record() throws: a run of StormThreshold such datagrams ends the
\* session.  The run is not interrupted by a new session.
ReceiveMalformed ==
    \E d \in network, duplicated \in BOOLEAN :
        /\ phase = "Open" /\ d.form = "garbled" /\ Arrives(d, duplicated)
        /\ malformed' = MalformedRun("malformed")
        /\ Remember("malformed")
        /\ event' = NoEvent
        /\ IF MalformedRun("malformed") >= StormThreshold
           THEN EndSession("MalformedStorm", valid)
           ELSE /\ network' = Rest(d, duplicated)
                /\ UNCHANGED <<sensor, phase, valid, fault, backoff, fruitless>>
        /\ UNCHANGED <<config, rdt, ft, configuration, delivery, used, doubted>>

\* receive() returns no bytes for an empty datagram, which receive_session()
\* takes for the end of its wait.
ReceiveEmpty ==
    \E d \in network, duplicated \in BOOLEAN :
        /\ phase = "Open" /\ d.form = "empty" /\ Arrives(d, duplicated)
        /\ event' = NoEvent
        /\ EndSession("Timeout", valid)
        /\ UNCHANGED <<config, rdt, ft, malformed, configuration, delivery, recent, used, doubted>>

FtDiscontinuity(kind) == kind \in {"Stall", "Backward"}

\* The outcome handle_record() gives a record before its callback runs: a
\* serious status first, FT progress second, and the latter only in FailStop.
Outcome(status, kind) ==
    CASE status = "Error" -> "SeriousStatus"
      [] status # "Error" /\ kind = "Stall" /\ Policy = "FailStop" -> "FtStall"
      [] status # "Error" /\ kind = "Backward" /\ Policy = "FailStop" -> "FtBackward"
      [] OTHER -> None

\* Mutant: a repeated or backward FT sequence does not stop the delivery.
WantedWithoutFt(status, rdtKind, ftKind) ==
    /\ rdtKind \notin {"Duplicate", "OutOfOrder"}
    /\ status = "Error" => DeliverOnError

\* Whether a record is one to deliver, the rate limit apart.
Wanted(status, rdtKind, ftKind) ==
    /\ rdtKind \notin {"Duplicate", "OutOfOrder"}
    /\ status = "Error" => DeliverOnError
    /\ ~ FtDiscontinuity(ftKind)

\* The rate limit drops a wanted record that comes too soon after the last one.
TooSoon(wanted) ==
    IF wanted /\ RateLimited /\ delivery # None THEN BOOLEAN ELSE {FALSE}

\* How a delivery may end: delivered, not finite after scaling, callback throws.
DeliveryEnds ==
    {"delivered", "callback throws"} \cup
        (IF configuration.calibration \in Overflowing THEN {"not finite"} ELSE {})

\* The outcome after the delivery, if it was tried.
OutcomeAfter(end, outcome) ==
    CASE end = "not finite" -> "SensorConfiguration"
      [] end = "callback throws" /\ outcome = None /\ Policy = "FailStop" -> "Callback"
      [] OTHER -> outcome

\* handle_record() on d, and receive_session()'s reaction to its outcome.  It may
\* raise when the trackers have observed the record, before or after the delivery.
ReceiveRecord ==
    \E d \in network, duplicated \in BOOLEAN :
        LET rdtKind == RdtKindOf(rdt, d.rdt)
            ftKind == FtKindOf(ft, d.ft)
            outcome == Outcome(d.status, ftKind)
            wanted == Wanted(d.status, rdtKind, ftKind)
        IN  /\ phase = "Open" /\ d.form = "record" /\ Arrives(d, duplicated)
            /\ malformed' = MalformedRun("valid")
            /\ Remember("valid")
            /\ rdt' = RdtObserve(rdt, d.rdt)
            /\ ft' = FtObserve(ft, d.ft)
            /\ event' = [rdt |-> rdtKind, ft |-> ftKind]
            /\ \E dropped \in TooSoon(wanted) :
               \E end \in IF wanted /\ ~ dropped THEN DeliveryEnds ELSE {"not tried"} :
                LET result == OutcomeAfter(end, outcome)
                IN  /\ IF end = "delivered"
                       THEN /\ delivery' = [born |-> d.born,
                                            revision |-> configuration.revision]
                            /\ used' = used \cup
                                 {<<configuration.revision, configuration.calibration>>}
                            /\ doubted' = FALSE
                       ELSE /\ doubted' = (doubted \/ ftKind = "Restart")
                            /\ UNCHANGED <<delivery, used>>
                    /\ \/ Raise
                       \/ IF result # None
                          THEN EndSession(result, TRUE)
                          ELSE /\ network' = Rest(d, duplicated)
                               /\ valid' = TRUE
                               /\ UNCHANGED <<sensor, phase, fault, backoff, fruitless>>
            /\ UNCHANGED <<config, configuration>>

\* No valid record before the deadline, however busy the socket was.
ReceiveTimeout ==
    /\ NoDatagram
    /\ phase = "Open"
    /\ EndSession("Timeout", valid)
    /\ UNCHANGED <<rdt, ft, malformed, configuration, delivery, recent, used, doubted, count>>

\* poll() or recv() reports an error, for instance a refused port.
ReceiveFails ==
    /\ NoDatagram
    /\ phase = "Open"
    /\ EndSession("Socket", valid)
    /\ UNCHANGED <<rdt, ft, malformed, configuration, delivery, recent, used, doubted, count>>

\* An exception in an open session, outside of handle_record().
SessionRaises ==
    /\ NoDatagram
    /\ phase = "Open"
    /\ Raise
    /\ UNCHANGED <<rdt, ft, malformed, configuration, delivery, recent, used, doubted, count>>

\* bias() on a streaming client: SetSoftwareBias, which ends the stream,
\* StartRealtime, then a new RDT baseline.  Datagrams in flight stay there.
Bias ==
    /\ NoDatagram
    /\ phase = "Open" /\ valid /\ DisturbanceLeft /\ Disturb
    /\ StreamStarts
    /\ rdt' = RdtReset(rdt)
    /\ UNCHANGED <<network, ft, phase, valid, fault, malformed, configuration, backoff,
                   delivery, recent, used, doubted, fruitless>>

\* bias() when the second send() throws: the sensor took the bias command,
\* which ends its stream, and the baseline stays.
BiasFailsHalfway ==
    /\ NoDatagram
    /\ phase = "Open" /\ valid /\ DisturbanceLeft /\ Disturb
    /\ sensor' = [sensor EXCEPT !.streaming = FALSE, !.rdt = 0]
    /\ UNCHANGED <<client, network>>

Next ==
    \/ SensorSends \/ SensorIdles \/ SensorReboots
    \/ NetworkLoses \/ NetworkGarbles
    \/ DiscoveryFails \/ ConnectFails \/ OpenSession
    \/ ReceiveMalformed \/ ReceiveEmpty \/ ReceiveRecord \/ ReceiveTimeout \/ ReceiveFails
    \/ ConnectRaises \/ SessionRaises
    \/ BackoffExpires \/ Restart
    \/ Bias \/ BiasFailsHalfway

Spec == Init /\ [][Next]_vars

-----------------------------------------------------------------------------
(* Properties *)

\* Every value has its type; run()'s delay stays within its configured limits.
TypeOK ==
    /\ sensor \in [streaming : BOOLEAN, rdt : Counter, ft : Counter, born : Nat]
    /\ network \subseteq Datagram
    /\ rdt \in RdtTracker /\ ft \in FtTracker
    /\ phase \in Phase /\ valid \in BOOLEAN
    /\ fault \in Result \cup {None} /\ malformed \in Nat
    /\ configuration \in [calibration : Calibrations, revision : Nat] \cup {None}
    /\ backoff \in InitialDelay .. MaxDelay
    /\ delivery \in [born : Nat, revision : Nat] \cup {None}
    /\ fruitless \in Nat

\* A delivered sample is younger than every sample delivered before it, across
\* reordering, duplication, bias, reconnects and sensor reboots.  The only way
\* out is a record taken for the confirmation of a device restart, delivered or not.
FreshDelivery ==
    [][(/\ delivery' # delivery /\ delivery # None /\ delivery' # None
        /\ event'.ft # "Restart" /\ ~ doubted)
          => delivery'.born > delivery.born]_vars

\* In FailStop the first backward record ends the session and the next session
\* drops the restart candidate: the confirmed-restart path of the FT tracker is
\* never taken, even though start() keeps the FT baseline.
FailStopNeverConfirmsRestart == Policy = "FailStop" => event.ft # "Restart"

\* A configuration revision names one calibration for the life of the client,
\* so that a consumer may compare samples by revision.
RevisionNamesCalibration ==
    \A u, w \in used : u[1] = w[1] => u[2] = w[2]

\* A malformed storm is declared only when none of the last StormThreshold
\* datagrams was valid, also when they arrived in several sessions.
StormIsConsecutive ==
    malformed >= StormThreshold \/ fault = "MalformedStorm"
        => /\ Len(recent) = StormThreshold
           /\ \A i \in 1 .. StormThreshold : recent[i] = "malformed"

\* The delay after n fruitless sessions in a row is the initial delay doubled
\* n times, capped by the maximum, and any valid record starts it over.
BackoffIsExponential ==
    backoff = IF InitialDelay * 2^fruitless < MaxDelay THEN InitialDelay * 2^fruitless
                                                       ELSE MaxDelay

\* docs/architecture.md on duplicates and out-of-order records: they are
\* dropped.  A record that the RDT tracker recognised as one of them would then
\* never latch a fault; its FT count, repeated or lower by nature, does.
OldRecordsAreDropped ==
    [][fault = None /\ fault' \in {"FtStall", "FtBackward"}
          => event'.rdt \notin {"Duplicate", "OutOfOrder"}]_vars
=============================================================================
