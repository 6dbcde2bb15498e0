----------------------------- MODULE RdtSession -----------------------------
(***************************************************************************)
(* Streaming sessions of one client over UDP: the sensor numbers records   *)
(* with a wrapping counter, the network loses, duplicates and reorders     *)
(* them, and the client classifies each one with the RDT tracker and       *)
(* counts what it accepted and what it believes was lost (receive_session  *)
(* and the RDT part of handle_record in client_impl.cpp).  bias() restarts *)
(* the sensor's stream in the middle of a session, while records of the    *)
(* old stream are still on their way.                                      *)
(*                                                                         *)
(* Every record also carries its stream and its true position in the       *)
(* session, which the code cannot see.  The properties compare what the    *)
(* client concluded from the wrapped counters with the truth.              *)
(***************************************************************************)
EXTENDS Sequence, FiniteSets

CONSTANTS
    MaxPosition,    \* bound on the records of one session
    MaxSession,     \* bound on the number of sessions
    MaxBias,        \* bound on the calls of bias() in one session
    MaxReceived     \* bound on the records received, copies included

ASSUME RdtSessionAssumption ==
    {MaxPosition, MaxSession, MaxBias, MaxReceived} \subseteq Nat

VARIABLES
    sensor,         \* the next record of the sensor: stream, true position, counter
    network,        \* the records in flight
    pending,        \* StartRealtime commands of bias() that the sensor has not heard
    tracker,        \* rdt_sequence_
    health,         \* the RDT counters of HealthSnapshot
    streaming,      \* health_.state is Streaming: a record of this session was handled
    origin,         \* history: the stream of the tracker's baseline
    last,           \* history: the true position of the last accepted record
    first,          \* history: the position of the first one after the last reset
    mixed,          \* history: records of two streams were accepted since the last reset
    counted,        \* history: accepted and lost records at the last reset
    session         \* history: number of sessions begun

vars == <<sensor, network, pending, tracker, health, streaming, origin, last, first, mixed,
          counted, session>>

Datagram == [stream : Nat, pos : Nat, seq : Counter]

\* The positions covered since the tracker was reset, first to last accepted.
Span == IF tracker.hasLast THEN last - first + 1 ELSE 0

\* Records younger than half of the number space can be told apart.  At the
\* sensor's fastest rate (7 kHz) half of the space lasts more than three days,
\* so no datagram and no silence of an unexpired session is older.
WithinWindow(pos) ==
    /\ \A d \in network : pos - d.pos < Half
    /\ tracker.hasLast => pos - last < Half

-----------------------------------------------------------------------------
Init ==
    /\ sensor \in [stream : {0}, pos : {0}, seq : Counter]
    /\ network = {} /\ pending = 0
    /\ tracker = RdtInit
    /\ health = [accepted |-> 0, lost |-> 0, duplicate |-> 0, outOfOrder |-> 0]
    /\ streaming = FALSE /\ mixed = FALSE
    /\ origin = 0 /\ last = 0 /\ first = 0 /\ counted = 0 /\ session = 0

\* The sensor puts its next record on the network.
Send ==
    /\ sensor.pos < MaxPosition
    /\ WithinWindow(sensor.pos)
    /\ network' = network \cup {sensor}
    /\ sensor' = [sensor EXCEPT !.pos = @ + 1, !.seq = Succ(@)]
    /\ UNCHANGED <<pending, tracker, health, streaming, origin, last, first, mixed, counted,
                   session>>

\* The network loses a record.
Lose ==
    /\ \E d \in network : network' = network \ {d}
    /\ UNCHANGED <<sensor, pending, tracker, health, streaming, origin, last, first, mixed,
                   counted, session>>

\* handle_record's bookkeeping for one RDT sequence: observe() and the
\* switch over its kind.
Count(h, t, seq) ==
    LET kind == RdtKindOf(t, seq)
    IN  [accepted |-> h.accepted + IF kind \in {"First", "Contiguous", "Gap"} THEN 1 ELSE 0,
         lost |-> h.lost + RdtGap(t, seq),
         duplicate |-> h.duplicate + IF kind = "Duplicate" THEN 1 ELSE 0,
         outOfOrder |-> h.outOfOrder + IF kind = "OutOfOrder" THEN 1 ELSE 0]

Progress == {"First", "Contiguous", "Gap"}

\* The client receives a record; a duplicating network keeps a copy of it.
Receive ==
    /\ health.accepted + health.duplicate + health.outOfOrder < MaxReceived
    /\ \E d \in network, keep \in BOOLEAN :
           /\ network' = IF keep THEN network ELSE network \ {d}
           /\ tracker' = RdtObserve(tracker, d.seq)
           /\ health' = Count(health, tracker, d.seq)
           /\ streaming' = TRUE
           /\ LET accepted == RdtKindOf(tracker, d.seq) \in Progress
              IN  /\ last' = IF accepted THEN d.pos ELSE last
                  /\ origin' = IF accepted THEN d.stream ELSE origin
                  /\ first' = IF tracker.hasLast THEN first ELSE d.pos
                  /\ mixed' = (tracker.hasLast /\ (mixed \/ (accepted /\ d.stream # origin)))
           /\ UNCHANGED <<sensor, pending, counted, session>>

\* rdt_sequence_.reset(): the next record is the first one again, the
\* cumulative counters go on.
ResetTracker ==
    /\ tracker' = RdtReset(tracker)
    /\ counted' = health.accepted + health.lost
    /\ mixed' = FALSE

\* bias() on a streaming client, both sends successful: the tracker is reset
\* at once, while the sensor has heard nothing yet and the records of its
\* stream are still in flight.  If a send throws, nothing here changes.
Bias ==
    /\ streaming
    /\ sensor.stream + pending < MaxBias
    /\ pending' = pending + 1
    /\ ResetTracker
    /\ UNCHANGED <<sensor, network, health, streaming, origin, last, first, session>>

\* The sensor hears a StartRealtime command of bias(), which starts a stream
\* with a numbering of its own.  A lost command is one that it never hears.
SensorRestarts ==
    /\ pending > 0
    /\ pending' = pending - 1
    /\ \E seq \in Counter :
           sensor' = [stream |-> sensor.stream + 1, pos |-> sensor.pos, seq |-> seq]
    /\ UNCHANGED <<network, tracker, health, streaming, origin, last, first, mixed, counted,
                   session>>

\* A new session: connect() opens a new socket, so datagrams of the old one
\* are gone; StartRealtime restarts the sensor's numbering; the tracker's
\* baseline is reset, the cumulative counters are not.
BeginSession ==
    /\ session < MaxSession
    /\ session' = session + 1
    /\ sensor' \in [stream : {0}, pos : {0}, seq : Counter]
    /\ network' = {} /\ pending' = 0
    /\ streaming' = FALSE
    /\ ResetTracker
    /\ UNCHANGED <<health, origin, last, first>>

Next == Send \/ Lose \/ Receive \/ Bias \/ SensorRestarts \/ BeginSession

Spec == Init /\ [][Next]_vars

-----------------------------------------------------------------------------
(* Properties *)

\* Every value has its type: the wrapped counters stay counters, and no count of
\* handle_record() ever goes below zero.
TypeOK ==
    /\ sensor \in Datagram
    /\ network \in SUBSET Datagram
    /\ tracker \in RdtTracker
    /\ streaming \in BOOLEAN /\ mixed \in BOOLEAN
    /\ health \in [accepted : Nat, lost : Nat, duplicate : Nat, outOfOrder : Nat]
    /\ pending \in Nat /\ origin \in Nat /\ last \in Nat /\ first \in Nat
    /\ counted \in Nat /\ session \in Nat

\* What the client counted is what happened: since the last reset of the
\* tracker, by a new session or by bias(), accepted and lost records together
\* are exactly the positions covered, through any loss, reordering, duplication
\* and counter wrap (handle_record adds the tracker's gap to health_.lost_count).
\* After bias() this ends where a record of the old stream, still in flight at
\* the reset, and one of the new stream are both accepted: their counters have
\* nothing to do with each other.
LossIsExact == ~ mixed => health.accepted + health.lost = counted + Span

\* Of the records of one stream, only one that is younger than the last
\* accepted record gets past the tracker, at any counter wrap: handle_record
\* drops Duplicate and OutOfOrder.  Only the reset of a new session or of bias()
\* lets an older one pass as First; the FT tracker is then what stops it.
AcceptedInOrder ==
    [][health'.accepted > health.accepted /\ tracker.hasLast /\ origin' = origin
          => last' > last]_vars

\* This step received d and did not accept it.
Drops(d) == health' # health /\ health'.accepted = health.accepted /\ network' = network \ {d}

\* Nothing of the current stream that could be used is thrown away: a received
\* record is dropped only if the tracker has a baseline and the record is not
\* younger than it, or belongs to another stream than it, as after bias().
DropsOnlyOld ==
    [][\A d \in network : Drops(d) =>
         tracker.hasLast /\ (d.stream = origin => d.pos <= last)]_vars

-----------------------------------------------------------------------------
(* The inductive invariant behind the properties *)

\* The wrapped counters of two records of a stream measure their distance in it.
Agree(d, e) ==
    d.stream = e.stream /\ d.pos >= e.pos => Delta(d.seq, e.seq) = d.pos - e.pos

Baseline == [stream |-> origin, pos |-> last, seq |-> tracker.previous]

InFlightAgree ==
    \A d \in network :
        /\ d.pos < sensor.pos /\ d.stream <= sensor.stream
        /\ sensor.pos - d.pos <= Half
        /\ Agree(sensor, d)
        /\ \A e \in network : Agree(d, e)

BaselineAgrees ==
    /\ mixed => tracker.hasLast
    /\ tracker.hasLast =>
        /\ ~ mixed => first <= last
        /\ last < sensor.pos /\ origin <= sensor.stream
        /\ sensor.pos - last <= Half
        /\ Agree(sensor, Baseline)
        /\ \A d \in network : Agree(d, Baseline) /\ Agree(Baseline, d)

IInv == TypeOK /\ InFlightAgree /\ BaselineAgrees /\ LossIsExact
=============================================================================
