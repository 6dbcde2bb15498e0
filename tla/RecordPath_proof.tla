-------------------------- MODULE RecordPath_proof --------------------------
(***************************************************************************)
(* For every counter width, policy, calibration and bound: what the        *)
(* receiver thread decides about storm, revision, backoff and restarts,    *)
(* and in which order it delivers.                                         *)
(***************************************************************************)
EXTENDS RecordPath, FunctionTheorems, FiniteSetTheorems, TLAPS

\* run() is in one of its phases under a policy that never changes.
PhaseOK == config \in Configs /\ phase \in Phase

\* The latch is set exactly when run() has ended, and FailStop does not back off.
LatchOK ==
    /\ fault # None <=> phase = "Faulted"
    /\ Policy = "FailStop" => phase # "Backoff"

\* A session ends with a result of receive_session() or with an exception.
Ended(result, received) == EndSession(result, received) \/ Raise

\* FailStop has no restart candidate while a session is open: the record that
\* made one has ended its session, and the next session drops it.
NoCandidate == Policy = "FailStop" /\ phase = "Open" => ~ ft.hasCandidate

\* The run of malformed datagrams that the client counts is the tail of what was
\* received, and a storm is latched only while it lasts.
RunIsTail ==
    /\ malformed \in Nat /\ recent \in Seq({"valid", "malformed"})
    /\ Len(recent) <= StormThreshold
    /\ malformed <= Len(recent) \/ Len(recent) = StormThreshold
    /\ \A i \in 1 .. Len(recent) : i > Len(recent) - malformed => recent[i] = "malformed"
    /\ fault = "MalformedStorm" => malformed >= StormThreshold

\* No delivered sample has a revision yet to come, and those of the current
\* revision were scaled with the current calibration.
RevisionIsCurrent ==
    /\ configuration \in [calibration : Calibrations, revision : Nat] \cup {None}
    /\ phase = "Open" \/ used # {} => configuration # None
    /\ \A u \in used : /\ u[1] \in Nat /\ u[1] <= configuration.revision
                       /\ u[1] = configuration.revision => u[2] = configuration.calibration

IInv ==
    /\ TypeOK /\ PhaseOK /\ LatchOK
    /\ NoCandidate /\ FailStopNeverConfirmsRestart
    /\ RunIsTail
    /\ RevisionIsCurrent /\ RevisionNamesCalibration
    /\ fruitless \in Nat /\ BackoffIsExponential
-----------------------------------------------------------------------------
\* A set with one more element has twice as many subsets.
LEMMA PowerDoubles ==
    ASSUME NEW n \in Nat
    PROVE  2^n \in Nat /\ 2^(n + 1) = 2 * 2^n
  <1> DEFINE A == SUBSET (1 .. n)
             B == {X \cup {n + 1} : X \in A}
             f == [X \in A |-> X \cup {n + 1}]
  <1>1. /\ IsFiniteSet(A) /\ Cardinality(A) = 2^n
        /\ Cardinality(SUBSET (1 .. n + 1)) = 2^(n + 1)
    <2>1. IsFiniteSet(1 .. n) /\ Cardinality(1 .. n) = n
      BY FS_Interval
    <2>2. IsFiniteSet(1 .. n + 1) /\ Cardinality(1 .. n + 1) = n + 1
      BY FS_Interval
    <2> QED BY <2>1, <2>2, FS_SUBSET
  <1>2. SUBSET (1 .. n + 1) = A \cup B
    <2>1. ASSUME NEW Y \in SUBSET (1 .. n + 1) PROVE Y \in A \cup B
      <3>1. CASE n + 1 \in Y
        <4>1. Y \ {n + 1} \in A /\ Y = (Y \ {n + 1}) \cup {n + 1}
          BY <3>1
        <4> QED BY <4>1
      <3>2. CASE n + 1 \notin Y
        BY <3>2
      <3> QED BY <3>1, <3>2
    <2>2. ASSUME NEW X \in A PROVE X \subseteq 1 .. n + 1 /\ X \cup {n + 1} \subseteq 1 .. n + 1
      OBVIOUS
    <2>3. \A Y \in A \cup B : Y \in SUBSET (1 .. n + 1)
      BY <2>2
    <2> HIDE DEF A, B
    <2> QED BY <2>1, <2>3
  <1>3. A \cap B = {}
    <2>1. \A X \in A : n + 1 \notin X
      OBVIOUS
    <2> QED BY <2>1
  <1>4. f \in Bijection(A, B)
    <2>1. f \in [A -> B]
      OBVIOUS
    <2>2. ASSUME NEW X \in A, NEW Y \in A, f[X] = f[Y] PROVE X = Y
      <3>1. X = f[X] \ {n + 1} /\ Y = f[Y] \ {n + 1}
        OBVIOUS
      <3> QED BY <2>2, <3>1
    <2>3. \A Z \in B : \E X \in A : f[X] = Z
      OBVIOUS
    <2> HIDE DEF A, B, f
    <2> QED BY <2>1, <2>2, <2>3, Fun_IsBij
  <1> HIDE DEF A, B, f
  <1>5. IsFiniteSet(B) /\ Cardinality(B) = Cardinality(A)
    BY <1>1, <1>4, FS_Bijection DEF ExistsBijection
  <1>6. Cardinality(A) \in Nat
    BY <1>1, FS_CardinalityType
  <1>7. Cardinality(A \cup B) = Cardinality(A) + Cardinality(B)
    <2>1. Cardinality(A \cap B) = 0
      BY <1>3, FS_EmptySet
    <2>2. Cardinality(A \cup B) = Cardinality(A) + Cardinality(B) - Cardinality(A \cap B)
      BY <1>1, <1>5, FS_Union
    <2> QED BY <1>5, <1>6, <2>1, <2>2
  <1>8. Cardinality(SUBSET (1 .. n + 1)) = 2 * Cardinality(A)
    <2>1. Cardinality(SUBSET (1 .. n + 1)) = Cardinality(A \cup B)
      BY <1>2, Zenon
    <2> QED BY <1>5, <1>6, <1>7, <2>1
  <1> QED BY <1>1, <1>6, <1>8
-----------------------------------------------------------------------------
(* What several actions have in common *)

\* What sensor, network and bias() do is not seen by the decisions of run().
LEMMA QuietSteps ==
    ASSUME \/ SensorSends \/ SensorIdles \/ SensorReboots \/ NetworkLoses \/ NetworkGarbles
           \/ Bias \/ BiasFailsHalfway
    PROVE  /\ UNCHANGED <<config, ft, phase, fault, malformed, configuration, backoff, recent,
                          used, fruitless>>
           /\ event' = NoEvent
  BY DEF SensorSends, SensorIdles, SensorReboots, NetworkLoses, NetworkGarbles, Bias,
     BiasFailsHalfway, NoDatagram, client

\* The end of a session latches its result or backs off, as the policy says.
LEMMA EndLatches ==
    ASSUME PhaseOK, LatchOK, phase \in {"Connecting", "Open"},
           NEW result \in Result, NEW received, Ended(result, received), UNCHANGED config
    PROVE  /\ PhaseOK' /\ LatchOK'
           /\ phase' # "Open" /\ fault' \in {fault, result, "Socket"}
  <1>1. CASE EndSession(result, received)
    BY <1>1, NoneAssumption DEF PhaseOK, LatchOK, EndSession, Policy, Phase
  <1>2. CASE Raise
    BY <1>2, NoneAssumption DEF PhaseOK, LatchOK, Raise, Policy, Phase, Result
  <1> QED BY <1>1, <1>2 DEF Ended

\* No doubling, no cap: the delays start with the initial one.
LEMMA InitialBackoff ==
    InitialDelay = IF InitialDelay * 2^0 < MaxDelay THEN InitialDelay * 2^0 ELSE MaxDelay
  <1>1. InitialDelay * 2^0 = InitialDelay
    BY RecordPathAssumption
  <1>2. InitialDelay = IF InitialDelay < MaxDelay THEN InitialDelay ELSE MaxDelay
    BY RecordPathAssumption
  <1> QED BY <1>1, <1>2

\* It keeps the delay, or starts it over after a valid record.
LEMMA EndDelays ==
    ASSUME fruitless \in Nat, BackoffIsExponential, NEW result, NEW received,
           Ended(result, received)
    PROVE  fruitless' \in Nat /\ BackoffIsExponential'
  <1>1. \/ UNCHANGED <<fruitless, backoff>>
        \/ fruitless' = 0 /\ backoff' = InitialDelay
    BY DEF Ended, EndSession, Raise, NextDelay
  <1>2. CASE UNCHANGED <<fruitless, backoff>>
    BY <1>2 DEF BackoffIsExponential
  <1>3. CASE fruitless' = 0 /\ backoff' = InitialDelay
    BY <1>3, InitialBackoff, Zenon DEF BackoffIsExponential
  <1> QED BY <1>1, <1>2, <1>3

\* One more datagram in the memory of the last ones.
LEMMA RememberTail ==
    ASSUME RunIsTail, NEW received \in {"valid", "malformed"},
           malformed' = MalformedRun(received), Remember(received),
           fault' = "MalformedStorm" => malformed' >= StormThreshold
    PROVE  RunIsTail'
  <1> USE RecordPathAssumption DEF RunIsTail, MalformedRun, Remember
  <1>1. malformed' \in Nat
    OBVIOUS
  <1>2. CASE Len(recent) < StormThreshold
    BY <1>1, <1>2
  <1>3. CASE Len(recent) = StormThreshold
    <2>1. recent' = Append(Tail(recent), received) /\ recent # <<>>
      BY <1>3
    <2>2. /\ Tail(recent) \in Seq({"valid", "malformed"})
          /\ Len(Tail(recent)) = StormThreshold - 1
          /\ \A i \in 1 .. StormThreshold - 1 : Tail(recent)[i] = recent[i + 1]
      BY <1>3, <2>1
    <2>3. /\ recent' \in Seq({"valid", "malformed"}) /\ Len(recent') = StormThreshold
          /\ \A i \in 1 .. StormThreshold - 1 : recent'[i] = recent[i + 1]
          /\ recent'[StormThreshold] = received
      BY <2>1, <2>2
    <2>4. ASSUME NEW i \in 1 .. StormThreshold, i > StormThreshold - malformed'
          PROVE  recent'[i] = "malformed"
      BY <1>1, <1>3, <2>3, <2>4
    <2>5. \A i \in 1 .. Len(recent') : i > Len(recent') - malformed' => recent'[i] = "malformed"
      BY <2>3, <2>4
    <2> HIDE DEF MalformedRun, Remember
    <2>6. /\ Len(recent') <= StormThreshold
          /\ fault' = "MalformedStorm" => malformed' >= StormThreshold
      BY <2>3
    <2> QED BY <1>1, <2>3, <2>5, <2>6, Zenon
  <1>4. Len(recent) < StormThreshold \/ Len(recent) = StormThreshold
    <2>1. Len(recent) \in Nat /\ StormThreshold \in Nat /\ Len(recent) <= StormThreshold
      OBVIOUS
    <2> HIDE DEF RunIsTail, MalformedRun, Remember
    <2> QED BY <2>1
  <1> QED BY <1>2, <1>3, <1>4

\* A new configuration has a revision of its own.
LEMMA ApplyRevision ==
    ASSUME RevisionIsCurrent, NEW c \in Calibrations, ApplyConfiguration(c), UNCHANGED used
    PROVE  RevisionIsCurrent'
  BY NoneAssumption DEF RevisionIsCurrent, ApplyConfiguration

\* A record that is no restart of the sensor leaves no candidate, or ends a FailStop
\* session.
LEMMA RecordCandidate ==
    ASSUME PhaseOK, NoCandidate, FailStopNeverConfirmsRestart, phase = "Open", ReceiveRecord
    PROVE  NoCandidate' /\ FailStopNeverConfirmsRestart'
  <1>1. CASE Policy # "FailStop"
    BY <1>1 DEF NoCandidate, FailStopNeverConfirmsRestart, ReceiveRecord, Policy
  <1>2. CASE Policy = "FailStop"
    <2>1. ~ ft.hasCandidate
      BY <1>2 DEF NoCandidate
    <2> DEFINE K(d) == FtKindOf(ft, d.ft)
    <2>2. PICK d \in network :
            /\ ft' = FtObserve(ft, d.ft) /\ event'.ft = K(d)
            /\ \E end : OutcomeAfter(end, Outcome(d.status, K(d))) = None \/ phase' # "Open"
      <3>1. \A result : Ended(result, TRUE) => phase' # "Open"
        BY DEF Ended, EndSession, Raise
      <3>2. PICK d \in network, duplicated \in BOOLEAN :
              /\ ft' = FtObserve(ft, d.ft)
              /\ event' = [rdt |-> RdtKindOf(rdt, d.rdt), ft |-> K(d)]
              /\ \E end : \/ Ended(OutcomeAfter(end, Outcome(d.status, K(d))), TRUE)
                          \/ OutcomeAfter(end, Outcome(d.status, K(d))) = None
        BY ZenonT(60) DEF ReceiveRecord, Ended
      <3> QED BY <3>1, <3>2
    <2>3. K(d) # "Restart"
      BY <2>1 DEF FtKindOf, ConfirmsRestart
    <2>4. ASSUME K(d) = "Backward", NEW end
          PROVE  OutcomeAfter(end, Outcome(d.status, K(d))) # None
      <3>1. Outcome(d.status, K(d)) \in Result
        BY <1>2, <2>4 DEF Outcome, Result
      <3> QED BY <3>1, NoneAssumption DEF OutcomeAfter, Result
    <2>5. K(d) # "Backward" => ~ ft'.hasCandidate
      BY <2>1, <2>2 DEF FtObserve
    <2> HIDE DEF K
    <2> QED BY <2>2, <2>3, <2>4, <2>5 DEF NoCandidate, FailStopNeverConfirmsRestart
  <1> QED BY <1>1, <1>2

\* A delivered sample carries the current revision and calibration.
LEMMA RecordRevision ==
    ASSUME RevisionIsCurrent, RevisionNamesCalibration, ReceiveRecord
    PROVE  RevisionIsCurrent' /\ RevisionNamesCalibration'
  <1>1. phase = "Open" /\ UNCHANGED configuration
    BY DEF ReceiveRecord
  <1>2. \/ UNCHANGED used
        \/ used' = used \cup {<<configuration.revision, configuration.calibration>>}
    BY DEF ReceiveRecord
  <1>3. configuration # None /\ configuration.revision \in Nat
    BY <1>1 DEF RevisionIsCurrent
  <1>4. RevisionIsCurrent'
    BY <1>1, <1>2, <1>3 DEF RevisionIsCurrent
  <1>5. RevisionNamesCalibration'
    BY <1>1, <1>2, <1>3 DEF RevisionIsCurrent, RevisionNamesCalibration
  <1> QED BY <1>4, <1>5
-----------------------------------------------------------------------------
(* Types *)

\* The types of what a session's end assigns.
SessionTypes ==
    /\ sensor \in [streaming : BOOLEAN, rdt : Counter, ft : Counter, born : Nat]
    /\ network \subseteq Datagram
    /\ phase \in Phase /\ valid \in BOOLEAN /\ fault \in Result \cup {None}
    /\ backoff \in InitialDelay .. MaxDelay /\ fruitless \in Nat

\* Counters stay below the modulus.
LEMMA CounterTypes ==
    /\ 0 \in Counter
    /\ \A c \in Counter : Succ(c) \in Counter
  BY SequenceAssumption DEF Counter, Modulus, Succ

\* The trackers keep their types.
LEMMA TrackerTypes ==
    ASSUME NEW r \in RdtTracker, NEW f \in FtTracker, NEW c \in Counter
    PROVE  /\ RdtObserve(r, c) \in RdtTracker /\ RdtReset(r) \in RdtTracker
           /\ FtObserve(f, c) \in FtTracker /\ FtBeginSession(f) \in FtTracker
  <1>1. RdtObserve(r, c) \in RdtTracker /\ RdtReset(r) \in RdtTracker
    BY DEF RdtTracker, RdtObserve, RdtReset
  <1>2. FtObserve(f, c) \in FtTracker
    BY DEF FtTracker, FtObserve
  <1>3. FtBeginSession(f) \in FtTracker
    BY DEF FtTracker, FtBeginSession
  <1> QED BY <1>1, <1>2, <1>3

\* A session's end assigns values of the right types.
LEMMA EndTypes ==
    ASSUME TypeOK, NEW result \in Result, NEW received \in BOOLEAN,
           Ended(result, received)
    PROVE  SessionTypes'
  <1>0. CloseSession
    BY DEF Ended, EndSession, Raise
  <1>1. sensor' \in [streaming : BOOLEAN, rdt : Counter, ft : Counter, born : Nat]
    BY <1>0, CounterTypes DEF TypeOK, CloseSession
  <1>2. CASE EndSession(result, received)
    <2>1. backoff' \in InitialDelay .. MaxDelay
      BY <1>2, RecordPathAssumption DEF TypeOK, EndSession, NextDelay
    <2> QED BY <1>0, <1>1, <1>2, <2>1 DEF TypeOK, SessionTypes, EndSession, CloseSession, Phase
  <1>3. CASE Raise
    BY <1>0, <1>1, <1>3 DEF TypeOK, SessionTypes, Raise, CloseSession, Phase, Result
  <1> QED BY <1>2, <1>3 DEF Ended

\* A new configuration is one.
LEMMA ApplyTypes ==
    ASSUME configuration \in [calibration : Calibrations, revision : Nat] \cup {None},
           NEW c \in Calibrations, ApplyConfiguration(c)
    PROVE  configuration' \in [calibration : Calibrations, revision : Nat]
  BY DEF ApplyConfiguration

\* What the sensor sends and the network garbles stays a datagram.
LEMMA SensorTypes ==
    ASSUME TypeOK, \/ SensorSends \/ SensorIdles \/ SensorReboots \/ NetworkLoses
                   \/ NetworkGarbles \/ BiasFailsHalfway
    PROVE  TypeOK'
  <1> DEFINE Sensors == [streaming : BOOLEAN, rdt : Counter, ft : Counter, born : Nat]
  <1>1. UNCHANGED client
    BY DEF SensorSends, SensorIdles, SensorReboots, NetworkLoses, NetworkGarbles,
       BiasFailsHalfway
  <1>2. sensor \in Sensors /\ network \subseteq Datagram
    BY DEF TypeOK
  <1>3. SUFFICES sensor' \in Sensors /\ network' \subseteq Datagram
    BY <1>1, <1>3 DEF TypeOK, client
  <1>4. CASE SensorSends
    <2>1. sensor' \in Sensors
      <3>1. /\ sensor.streaming \in BOOLEAN /\ sensor.born + 1 \in Nat
            /\ {sensor.ft, Succ(sensor.rdt), Succ(sensor.ft)} \subseteq Counter
        BY <1>2, CounterTypes
      <3>2. PICK advance \in BOOLEAN :
              sensor' = [sensor EXCEPT !.born = @ + 1, !.rdt = Succ(@),
                                       !.ft = IF advance THEN Succ(@) ELSE @]
        BY <1>4 DEF SensorSends
      <3> HIDE DEF Sensors
      <3>3. sensor' = [streaming |-> sensor.streaming, born |-> sensor.born + 1,
                       rdt |-> Succ(sensor.rdt),
                       ft |-> IF advance THEN Succ(sensor.ft) ELSE sensor.ft]
        BY <1>2, <3>2 DEF Sensors
      <3> QED BY <3>1, <3>3 DEF Sensors
    <2>2. \A status \in Status :
            [born |-> sensor.born, rdt |-> sensor.rdt, ft |-> sensor.ft, status |-> status,
             form |-> "record"] \in Datagram
      BY <1>2 DEF Datagram
    <2> QED BY <1>2, <1>4, <2>1, <2>2 DEF SensorSends
  <1>5. CASE SensorIdles
    <2>1. sensor.born + 1 \in Nat /\ Succ(sensor.ft) \in Counter
      BY <1>2, CounterTypes
    <2> QED BY <1>2, <1>5, <2>1 DEF SensorIdles
  <1>8. CASE SensorReboots \/ BiasFailsHalfway
    BY <1>2, <1>8, CounterTypes DEF SensorReboots, BiasFailsHalfway
  <1>6. CASE NetworkLoses
    BY <1>2, <1>6 DEF NetworkLoses
  <1>7. CASE NetworkGarbles
    <2>1. \A d \in Datagram, form \in {"garbled", "empty"} : [d EXCEPT !.form = form] \in Datagram
      BY DEF Datagram
    <2> QED BY <1>2, <1>7, <2>1 DEF NetworkGarbles
  <1> QED BY <1>4, <1>5, <1>6, <1>7, <1>8
-----------------------------------------------------------------------------
\* A datagram that is no record: the run grows, and a storm ends the session.
LEMMA ReceiveMalformedStep ==
    ASSUME IInv, ReceiveMalformed
    PROVE  IInv'
  <1>p. /\ TypeOK /\ PhaseOK /\ LatchOK /\ NoCandidate
        /\ FailStopNeverConfirmsRestart /\ RunIsTail /\ RevisionIsCurrent
        /\ RevisionNamesCalibration /\ fruitless \in Nat /\ BackoffIsExponential
    BY DEF IInv
  <1>1. PICK d \in network, duplicated \in BOOLEAN :
          /\ phase = "Open"
          /\ malformed' = MalformedRun("malformed") /\ Remember("malformed")
          /\ event' = NoEvent
          /\ IF MalformedRun("malformed") >= StormThreshold
             THEN EndSession("MalformedStorm", valid)
             ELSE /\ network' = Rest(d, duplicated)
                  /\ UNCHANGED <<sensor, phase, valid, fault, backoff, fruitless>>
          /\ UNCHANGED <<config, rdt, ft, configuration, delivery, used>>
    BY DEF ReceiveMalformed
  <1>2. FailStopNeverConfirmsRestart'
    BY <1>1, NoneAssumption DEF FailStopNeverConfirmsRestart, NoEvent, FtKind
  <1>3. RevisionNamesCalibration'
    BY <1>1, <1>p DEF RevisionNamesCalibration
  <1>4. malformed' \in Nat
    BY <1>1, <1>p DEF MalformedRun, RunIsTail
  <1>5. CASE EndSession("MalformedStorm", valid) /\ malformed' >= StormThreshold
    <2>1. /\ PhaseOK' /\ LatchOK' /\ phase' # "Open"
          /\ fruitless' \in Nat /\ BackoffIsExponential'
      BY <1>1, <1>5, <1>p, EndLatches, EndDelays DEF Result, Ended
    <2>2. SessionTypes'
      BY <1>5, <1>p, EndTypes DEF Result, TypeOK, Ended
    <2>3. TypeOK'
      BY <1>1, <1>4, <1>p, <2>2 DEF TypeOK, SessionTypes
    <2>4. RunIsTail'
      BY <1>1, <1>5, <1>p, RememberTail
    <2>5. NoCandidate' /\ RevisionIsCurrent'
      BY <1>1, <1>p, <2>1 DEF NoCandidate, RevisionIsCurrent
    <2> QED BY <1>2, <1>3, <2>1, <2>3, <2>4, <2>5 DEF IInv
  <1>6. CASE /\ network' = Rest(d, duplicated) /\ ~ MalformedRun("malformed") >= StormThreshold
             /\ UNCHANGED <<sensor, phase, valid, fault, backoff, fruitless>>
    <2>1. PhaseOK' /\ LatchOK' /\ NoCandidate' /\ RevisionIsCurrent'
      BY <1>1, <1>6, <1>p DEF PhaseOK, LatchOK, NoCandidate, RevisionIsCurrent, Policy
    <2>2. TypeOK'
      BY <1>1, <1>4, <1>6, <1>p DEF TypeOK, Rest
    <2>3. fruitless' \in Nat /\ BackoffIsExponential'
      BY <1>6, <1>p DEF BackoffIsExponential
    <2>4. fault' # "MalformedStorm"
      <3>1. malformed \in Nat /\ StormThreshold \in Nat
        BY <1>p, RecordPathAssumption DEF RunIsTail
      <3> QED BY <1>6, <1>p, <3>1 DEF RunIsTail, MalformedRun
    <2>5. RunIsTail'
      BY <1>1, <1>p, <2>4, RememberTail
    <2> QED BY <1>2, <1>3, <2>1, <2>2, <2>3, <2>5 DEF IInv
  <1> QED BY <1>1, <1>5, <1>6

\* A record: tracked, delivered or not, and the session goes on or ends.
LEMMA ReceiveRecordStep ==
    ASSUME IInv, ReceiveRecord
    PROVE  IInv'
  <1>p. /\ TypeOK /\ PhaseOK /\ LatchOK /\ NoCandidate
        /\ FailStopNeverConfirmsRestart /\ RunIsTail /\ RevisionIsCurrent
        /\ RevisionNamesCalibration /\ fruitless \in Nat /\ BackoffIsExponential
    BY DEF IInv
  <1>1. PICK d \in network, duplicated \in BOOLEAN :
          /\ malformed' = MalformedRun("valid") /\ Remember("valid")
          /\ rdt' = RdtObserve(rdt, d.rdt) /\ ft' = FtObserve(ft, d.ft)
          /\ delivery' = delivery
             \/ delivery' = [born |-> d.born, revision |-> configuration.revision]
          /\ \E end : LET result == OutcomeAfter(end, Outcome(d.status, FtKindOf(ft, d.ft)))
             IN \/ Raise
                \/ IF result # None
                   THEN EndSession(result, TRUE)
                   ELSE /\ network' = Rest(d, duplicated) /\ valid' = TRUE
                        /\ UNCHANGED <<sensor, phase, fault, backoff, fruitless>>
    BY ZenonT(60) DEF ReceiveRecord
  <1>2. phase = "Open" /\ UNCHANGED <<config, configuration>>
    BY DEF ReceiveRecord
  <1>3. \A end, status, kind : OutcomeAfter(end, Outcome(status, kind)) \in
                                  (Result \ {"MalformedStorm"}) \cup {None}
    BY NoneAssumption DEF OutcomeAfter, Outcome, Result
  <1>4. \/ \E result \in Result \ {"MalformedStorm"} : Ended(result, TRUE)
        \/ /\ network' = Rest(d, duplicated) /\ valid' = TRUE
           /\ UNCHANGED <<sensor, phase, fault, backoff, fruitless>>
    <2>1. "Socket" \in Result \ {"MalformedStorm"}
      BY DEF Result
    <2> QED BY <1>1, <1>3, <2>1 DEF Ended
  <1>5. NoCandidate' /\ FailStopNeverConfirmsRestart'
    BY <1>2, <1>p, RecordCandidate
  <1>6. RevisionIsCurrent' /\ RevisionNamesCalibration'
    BY <1>p, RecordRevision
  <1>7. malformed' = 0
    BY <1>1 DEF MalformedRun
  <1>8. /\ rdt' \in RdtTracker /\ ft' \in FtTracker
        /\ delivery' \in [born : Nat, revision : Nat] \cup {None}
    <2>1. d.rdt \in Counter /\ d.ft \in Counter /\ d.born \in Nat
      BY <1>p DEF TypeOK, Datagram
    <2>2. configuration.revision \in Nat
      BY <1>2, <1>p DEF RevisionIsCurrent
    <2>3. /\ rdt \in RdtTracker /\ ft \in FtTracker
          /\ delivery \in [born : Nat, revision : Nat] \cup {None}
      BY <1>p DEF TypeOK
    <2> QED BY <1>1, <2>1, <2>2, <2>3, TrackerTypes
  <1>9. CASE \E result \in Result \ {"MalformedStorm"} : Ended(result, TRUE)
    <2>1. PICK result \in Result \ {"MalformedStorm"} : Ended(result, TRUE)
      BY <1>9
    <2>2. /\ PhaseOK' /\ LatchOK' /\ fault' \in {fault, result, "Socket"}
          /\ fruitless' \in Nat /\ BackoffIsExponential'
      BY <1>2, <1>p, <2>1, EndLatches, EndDelays
    <2>3. TypeOK'
      <3>1. SessionTypes'
        BY <1>p, <2>1, EndTypes
      <3> QED BY <1>2, <1>7, <1>8, <1>p, <3>1 DEF TypeOK, SessionTypes
    <2>4. fault' # "MalformedStorm"
      <3>1. fault = None
        BY <1>2, <1>p, RecordPathAssumption DEF LatchOK, PhaseOK, Policy
      <3> QED BY <2>2, <3>1, NoneAssumption DEF Result
    <2>5. RunIsTail'
      BY <1>1, <1>p, <2>4, RememberTail
    <2> QED BY <1>5, <1>6, <2>2, <2>3, <2>5 DEF IInv
  <1>10. CASE /\ network' = Rest(d, duplicated) /\ valid' = TRUE
              /\ UNCHANGED <<sensor, phase, fault, backoff, fruitless>>
    <2>1. PhaseOK' /\ LatchOK'
      BY <1>10, <1>2, <1>p DEF PhaseOK, LatchOK, Policy
    <2>2. TypeOK'
      BY <1>10, <1>2, <1>7, <1>8, <1>p DEF TypeOK, Rest
    <2>3. fruitless' \in Nat /\ BackoffIsExponential'
      BY <1>10, <1>p DEF BackoffIsExponential
    <2>4. fault' # "MalformedStorm"
      BY <1>10, <1>2, <1>p, NoneAssumption, RecordPathAssumption
         DEF LatchOK, PhaseOK, Policy, Result
    <2>5. RunIsTail'
      BY <1>1, <1>p, <2>4, RememberTail
    <2> QED BY <1>5, <1>6, <2>1, <2>2, <2>3, <2>5 DEF IInv
  <1> QED BY <1>4, <1>9, <1>10

\* The inductive invariant holds when the program begins.
LEMMA InitIInv == Init => IInv
  <1> SUFFICES ASSUME Init PROVE IInv
    OBVIOUS
  <1> USE RecordPathAssumption, NoneAssumption DEF Init
  <1>0. TypeOK
    <2>1. 0 \in Counter
      BY SequenceAssumption DEF Counter, Modulus
    <2>2. rdt \in RdtTracker /\ ft \in FtTracker
      BY <2>1 DEF RdtInit, RdtTracker, FtInit, FtTracker
    <2>3. sensor \in [streaming : BOOLEAN, rdt : Counter, ft : Counter, born : Nat]
      BY <2>1
    <2>4. backoff \in InitialDelay .. MaxDelay
      OBVIOUS
    <2> QED BY <2>2, <2>3, <2>4 DEF TypeOK, Phase
  <1>1. PhaseOK /\ LatchOK /\ NoCandidate
    BY DEF PhaseOK, Phase, LatchOK, NoCandidate, Policy
  <1>2. FailStopNeverConfirmsRestart
    BY DEF FailStopNeverConfirmsRestart, NoEvent, FtKind
  <1>3. RunIsTail
    BY DEF RunIsTail, Result
  <1>4. RevisionIsCurrent /\ RevisionNamesCalibration
    BY DEF RevisionIsCurrent, RevisionNamesCalibration
  <1>5. fruitless \in Nat /\ BackoffIsExponential
    BY InitialBackoff DEF BackoffIsExponential
  <1> QED BY <1>0, <1>1, <1>2, <1>3, <1>4, <1>5 DEF IInv

\* A session that does not open, times out or loses its socket.
LEMMA SessionFails ==
    ASSUME IInv, NEW result \in Result \ {"MalformedStorm"}, NEW received \in BOOLEAN,
           Ended(result, received), phase \in {"Connecting", "Open"},
           UNCHANGED <<config, rdt, ft, malformed, delivery, recent, used>>,
           event'.ft = None,
           UNCHANGED configuration \/ \E c \in Calibrations : ApplyConfiguration(c)
    PROVE  IInv'
  <1> USE DEF IInv
  <1>1. /\ PhaseOK' /\ LatchOK' /\ phase' # "Open"
        /\ fault' \in {fault, result, "Socket"}
    BY EndLatches
  <1>2. TypeOK'
    <2>1. SessionTypes'
      BY EndTypes
    <2>2. configuration' \in [calibration : Calibrations, revision : Nat] \cup {None}
      BY ApplyTypes DEF TypeOK
    <2> QED BY <2>1, <2>2 DEF TypeOK, SessionTypes
  <1>3. NoCandidate' /\ FailStopNeverConfirmsRestart'
    BY <1>1, NoneAssumption DEF NoCandidate, FailStopNeverConfirmsRestart, FtKind
  <1>4. RunIsTail'
    BY <1>1 DEF RunIsTail
  <1>5. RevisionIsCurrent'
    <2>1. CASE UNCHANGED configuration
      BY <1>1, <2>1 DEF RevisionIsCurrent
    <2>2. CASE \E c \in Calibrations : ApplyConfiguration(c)
      BY <2>2, ApplyRevision
    <2> QED BY <2>1, <2>2
  <1>6. RevisionNamesCalibration'
    BY DEF RevisionNamesCalibration
  <1>7. fruitless' \in Nat /\ BackoffIsExponential'
    BY EndDelays
  <1> QED BY <1>1, <1>2, <1>3, <1>4, <1>5, <1>6, <1>7

\* Every step keeps the inductive invariant.
LEMMA NextIInv == IInv /\ [Next]_vars => IInv'
  <1> SUFFICES ASSUME IInv, [Next]_vars PROVE IInv'
    OBVIOUS
  <1>p. /\ TypeOK /\ PhaseOK /\ LatchOK /\ NoCandidate
        /\ FailStopNeverConfirmsRestart /\ RunIsTail /\ RevisionIsCurrent
        /\ RevisionNamesCalibration /\ fruitless \in Nat /\ BackoffIsExponential
    BY DEF IInv
  <1>q. NoEvent.ft = None /\ None # "Restart" /\ None # "MalformedStorm"
    BY NoneAssumption DEF NoEvent, FtKind, Result
  <1>1. CASE \/ SensorSends \/ SensorIdles \/ SensorReboots \/ NetworkLoses \/ NetworkGarbles
             \/ Bias \/ BiasFailsHalfway
    <2>1. /\ UNCHANGED <<config, ft, phase, fault, malformed, configuration, backoff, recent,
                         used, fruitless>>
          /\ event' = NoEvent
      BY <1>1, QuietSteps
    <2>2. TypeOK'
      <3>1. CASE Bias
        <4>1. sensor' \in [streaming : BOOLEAN, rdt : Counter, ft : Counter, born : Nat]
          BY <1>p, <3>1, CounterTypes DEF TypeOK, Bias, StreamStarts
        <4>2. rdt' \in RdtTracker
          BY <1>p, <3>1, TrackerTypes, CounterTypes DEF TypeOK, Bias
        <4> QED BY <1>p, <3>1, <4>1, <4>2 DEF TypeOK, Bias
      <3> QED BY <1>1, <1>p, <3>1, SensorTypes
    <2>3. PhaseOK' /\ LatchOK' /\ NoCandidate' /\ FailStopNeverConfirmsRestart'
      BY <1>p, <1>q, <2>1 DEF PhaseOK, LatchOK, NoCandidate,
         FailStopNeverConfirmsRestart, Policy
    <2>4. RunIsTail'
      BY <1>p, <2>1 DEF RunIsTail
    <2>5. RevisionIsCurrent' /\ RevisionNamesCalibration'
      BY <1>p, <2>1 DEF RevisionIsCurrent, RevisionNamesCalibration
    <2>6. fruitless' \in Nat /\ BackoffIsExponential'
      BY <1>p, <2>1 DEF BackoffIsExponential
    <2> QED BY <2>2, <2>3, <2>4, <2>5, <2>6 DEF IInv
  <1>2. CASE DiscoveryFails
    BY <1>2, <1>q, SessionFails DEF DiscoveryFails, NoDatagram, Result, Ended
  <1>3. CASE ConnectFails
    BY <1>3, <1>q, SessionFails DEF ConnectFails, NoDatagram, Result, Ended
  <1>4. CASE ReceiveEmpty
    BY <1>4, <1>p, <1>q, SessionFails DEF ReceiveEmpty, Result, TypeOK, Ended
  <1>5. CASE ReceiveTimeout
    BY <1>5, <1>p, <1>q, SessionFails DEF ReceiveTimeout, NoDatagram, Result, TypeOK, Ended
  <1>6. CASE ReceiveFails
    BY <1>6, <1>p, <1>q, SessionFails DEF ReceiveFails, NoDatagram, Result, TypeOK, Ended
  <1>7. CASE OpenSession
    <2>1. PICK c \in Calibrations : ApplyConfiguration(c)
      BY <1>7 DEF OpenSession
    <2>2. /\ phase' = "Open" /\ valid' = FALSE /\ network' = {} /\ event' = NoEvent
          /\ rdt' = RdtReset(rdt) /\ ft' = FtBeginSession(ft) /\ StreamStarts
          /\ UNCHANGED <<config, fault, malformed, backoff, delivery, recent, used, fruitless>>
          /\ phase = "Connecting"
      BY <1>7 DEF OpenSession, NoDatagram
    <2>3. TypeOK'
      <3>1. sensor' \in [streaming : BOOLEAN, rdt : Counter, ft : Counter, born : Nat]
        BY <1>p, <2>2, CounterTypes DEF TypeOK, StreamStarts
      <3>2. rdt' \in RdtTracker /\ ft' \in FtTracker
        BY <1>p, <2>2, TrackerTypes, CounterTypes DEF TypeOK
      <3>3. configuration' \in [calibration : Calibrations, revision : Nat]
        BY <1>p, <2>1, ApplyTypes DEF TypeOK
      <3> QED BY <1>p, <2>2, <3>1, <3>2, <3>3 DEF TypeOK, Phase
    <2>4. PhaseOK' /\ LatchOK' /\ FailStopNeverConfirmsRestart'
      BY <1>p, <1>q, <2>2 DEF PhaseOK, LatchOK, FailStopNeverConfirmsRestart,
         Policy, Phase
    <2>5. NoCandidate'
      BY <1>p, <2>2 DEF NoCandidate, TypeOK, FtTracker, FtBeginSession
    <2>6. RunIsTail'
      BY <1>p, <2>2 DEF RunIsTail
    <2>7. RevisionIsCurrent' /\ RevisionNamesCalibration'
      BY <1>p, <2>1, <2>2, ApplyRevision DEF RevisionNamesCalibration
    <2>8. fruitless' \in Nat /\ BackoffIsExponential'
      BY <1>p, <2>2 DEF BackoffIsExponential
    <2> QED BY <2>3, <2>4, <2>5, <2>6, <2>7, <2>8 DEF IInv
  <1>11. CASE BackoffExpires
    <2>1. /\ phase' = "Connecting" /\ event' = NoEvent
          /\ backoff' = Doubled(backoff) /\ fruitless' = fruitless + 1
          /\ UNCHANGED <<config, sensor, network, rdt, ft, valid, fault, malformed,
                         configuration, delivery, recent, used>>
          /\ phase = "Backoff"
      BY <1>11 DEF BackoffExpires, NoDatagram
    <2>2. TypeOK'
      <3>1. backoff' \in InitialDelay .. MaxDelay /\ fruitless' \in Nat
        BY <1>p, <2>1, RecordPathAssumption DEF TypeOK, Doubled
      <3> QED BY <1>p, <2>1, <3>1 DEF TypeOK, Phase
    <2>3. /\ PhaseOK' /\ LatchOK' /\ NoCandidate' /\ FailStopNeverConfirmsRestart'
      BY <1>p, <1>q, <2>1 DEF PhaseOK, LatchOK, NoCandidate,
         FailStopNeverConfirmsRestart, Policy, Phase
    <2>4. RunIsTail'
      BY <1>p, <2>1 DEF RunIsTail
    <2>5. RevisionIsCurrent' /\ RevisionNamesCalibration'
      BY <1>p, <2>1 DEF RevisionIsCurrent, RevisionNamesCalibration
    <2>6. BackoffIsExponential'
      <3> DEFINE p == 2^fruitless
      <3>1. p \in Nat /\ 2^(fruitless + 1) = 2 * p
        BY <1>p, PowerDoubles
      <3>2. backoff = IF InitialDelay * p < MaxDelay THEN InitialDelay * p ELSE MaxDelay
        BY <1>p DEF BackoffIsExponential
      <3> HIDE DEF p
      <3>3. InitialDelay * (2 * p) = 2 * (InitialDelay * p) /\ InitialDelay * p \in Nat
        BY <3>1, RecordPathAssumption
      <3>4. backoff' = IF InitialDelay * (2 * p) < MaxDelay THEN InitialDelay * (2 * p)
                                                            ELSE MaxDelay
        <4> DEFINE q == InitialDelay * p
        <4>1. q \in Nat /\ backoff = IF q < MaxDelay THEN q ELSE MaxDelay
          BY <3>2, <3>3
        <4> HIDE DEF q
        <4>2. backoff' = IF 2 * q < MaxDelay THEN 2 * q ELSE MaxDelay
          BY <2>1, <4>1, RecordPathAssumption DEF Doubled
        <4> QED BY <3>3, <4>2 DEF q
      <3> QED BY <2>1, <3>1, <3>4, Zenon DEF BackoffIsExponential
    <2> QED BY <1>p, <2>1, <2>2, <2>3, <2>4, <2>5, <2>6 DEF IInv
  <1>12. CASE Restart
    <2>1. /\ phase' = "Connecting" /\ fault' = None /\ malformed' = 0 /\ delivery' = None
          /\ backoff' = InitialDelay /\ fruitless' = 0 /\ recent' = <<>> /\ event' = NoEvent
          /\ UNCHANGED <<config, sensor, network, rdt, ft, valid, configuration, used>>
          /\ phase = "Faulted"
      BY <1>12 DEF Restart, NoDatagram
    <2>2. TypeOK'
      <3>1. backoff' \in InitialDelay .. MaxDelay
        BY <2>1, RecordPathAssumption
      <3> QED BY <1>p, <2>1, <3>1 DEF TypeOK, Phase
    <2>3. /\ PhaseOK' /\ LatchOK' /\ NoCandidate' /\ FailStopNeverConfirmsRestart'
      BY <1>p, <1>q, <2>1 DEF PhaseOK, LatchOK, NoCandidate,
         FailStopNeverConfirmsRestart, Policy, Phase
    <2>4. RunIsTail'
      BY <1>q, <2>1, RecordPathAssumption DEF RunIsTail
    <2>5. RevisionIsCurrent' /\ RevisionNamesCalibration'
      BY <1>p, <2>1 DEF RevisionIsCurrent, RevisionNamesCalibration
    <2>6. fruitless' \in Nat /\ BackoffIsExponential'
      BY <2>1, InitialBackoff DEF BackoffIsExponential
    <2> QED BY <2>2, <2>3, <2>4, <2>5, <2>6 DEF IInv
  <1>13. CASE UNCHANGED vars
    <2>1. UNCHANGED <<config, sensor, network, rdt, ft, phase, valid, fault, malformed,
                      configuration, backoff, delivery, event, recent, used, fruitless>>
      BY <1>13 DEF vars
    <2>2. TypeOK'
      BY <1>p, <2>1 DEF TypeOK
    <2>3. /\ PhaseOK' /\ LatchOK' /\ NoCandidate' /\ FailStopNeverConfirmsRestart'
      BY <1>p, <2>1 DEF PhaseOK, LatchOK, NoCandidate,
         FailStopNeverConfirmsRestart, Policy
    <2>4. RunIsTail'
      BY <1>p, <2>1 DEF RunIsTail
    <2>5. RevisionIsCurrent' /\ RevisionNamesCalibration'
      BY <1>p, <2>1 DEF RevisionIsCurrent, RevisionNamesCalibration
    <2>6. fruitless' \in Nat /\ BackoffIsExponential'
      BY <1>p, <2>1 DEF BackoffIsExponential
    <2> QED BY <2>2, <2>3, <2>4, <2>5, <2>6 DEF IInv
  <1>10. CASE ConnectRaises \/ SessionRaises
    <2>1. /\ Ended("Socket", FALSE) /\ phase \in {"Connecting", "Open"}
          /\ UNCHANGED <<config, rdt, ft, malformed, delivery, recent, used>> /\ event' = NoEvent
          /\ UNCHANGED configuration \/ \E c \in Calibrations : ApplyConfiguration(c)
      BY <1>10 DEF ConnectRaises, SessionRaises, NoDatagram, Ended
    <2>2. "Socket" \in Result \ {"MalformedStorm"}
      BY DEF Result
    <2> QED BY <1>q, <2>1, <2>2, SessionFails
  <1>8. CASE ReceiveMalformed
    BY <1>8, ReceiveMalformedStep
  <1>9. CASE ReceiveRecord
    BY <1>9, ReceiveRecordStep
  <1> QED BY <1>1, <1>2, <1>3, <1>4, <1>5, <1>6, <1>7, <1>8, <1>9, <1>10, <1>11, <1>12, <1>13
      DEF Next

\* The invariant at work: no storm before the whole memory is malformed.
LEMMA TailIsStorm == RunIsTail => StormIsConsecutive
  <1> SUFFICES ASSUME RunIsTail, malformed >= StormThreshold
               PROVE  /\ Len(recent) = StormThreshold
                      /\ \A i \in 1 .. StormThreshold : recent[i] = "malformed"
    BY DEF RunIsTail, StormIsConsecutive
  <1>1. StormThreshold \in Nat /\ malformed \in Nat /\ Len(recent) \in Nat
    BY RecordPathAssumption DEF RunIsTail
  <1>2. Len(recent) = StormThreshold
    BY <1>1 DEF RunIsTail
  <1> QED BY <1>1, <1>2 DEF RunIsTail

-----------------------------------------------------------------------------
(* The order of the deliveries *)

\* FT count f is not ahead of g.
Behind(f, g) == f = g \/ Delta(f, g) >= Half

\* The FT counts in flight are ordered like the records' ages.
FlightInOrder ==
    /\ \A d \in network : d.born < sensor.born /\ Delta(sensor.ft, d.ft) <= sensor.born - d.born
    /\ \A d, e \in network : d.born <= e.born => Behind(d.ft, e.ft)

\* The baseline was set by a record that was sent, b of them before it: those in flight
\* that are not younger are behind the baseline, and the delivered sample is no younger
\* than b unless a restart was confirmed since.
BaselineInOrder ==
    IF ft.hasLast
    THEN \E b \in 0 .. sensor.born - 1 :
            /\ \A d \in network : d.born <= b => Behind(d.ft, ft.previous)
            /\ delivery # None /\ ~ doubted => delivery.born <= b
    ELSE delivery = None

OrderInv == FlightInOrder /\ BaselineInOrder

\* Serial-number arithmetic: a count less than half a turn old is behind, and one more
\* measurement is at most one step.
LEMMA SerialNumbers ==
    ASSUME NEW c \in Counter, NEW p \in Counter
    PROVE  /\ Delta(c, p) \in Nat
           /\ Delta(c, p) < Half => Behind(p, c)
           /\ Delta(Succ(c), p) <= Delta(c, p) + 1
           /\ Delta(c, c) = 0 /\ Behind(c, c)
  BY SequenceAssumption DEF Counter, Modulus, Delta, Succ, Behind

\* The network may lose, garble and deliver, and the sensor stop and start its stream.
LEMMA SameFlight ==
    ASSUME FlightInOrder, sensor'.born = sensor.born, sensor'.ft = sensor.ft,
           \A d \in network' : \E e \in network : e.born = d.born /\ e.ft = d.ft
    PROVE  FlightInOrder'
  BY DEF FlightInOrder, Behind, Delta

\* Neither has an effect on what the baseline says.
LEMMA SameBaseline ==
    ASSUME BaselineInOrder, sensor'.born = sensor.born,
           \A d \in network' : \E e \in network : e.born = d.born /\ e.ft = d.ft,
           ft'.hasLast = ft.hasLast, ft'.previous = ft.previous,
           doubted' <=> doubted, delivery' \in {delivery, None}
    PROVE  BaselineInOrder'
  BY DEF BaselineInOrder, Behind, Delta

\* The end of a session empties the network.
LEMMA EndKeepsOrder ==
    ASSUME TypeOK, OrderInv, CloseSession, UNCHANGED <<ft, delivery, doubted>>
    PROVE  OrderInv'
  <1>1. sensor'.born = sensor.born /\ sensor'.ft = sensor.ft /\ network' = {}
    BY DEF CloseSession, TypeOK
  <1> QED BY <1>1, SameFlight, SameBaseline DEF OrderInv

\* A record that the client takes for progress is younger than what the baseline bounds.
LEMMA ForwardIsYounger ==
    ASSUME TypeOK, NEW d \in network, ft.hasLast, NEW b \in Nat,
           \A e \in network : e.born <= b => Behind(e.ft, ft.previous),
           FtKindOf(ft, d.ft) = "Forward"
    PROVE  d.born > b
  <1>1. d.born \in Nat /\ d.ft \in Counter /\ ft.previous \in Counter
    BY DEF TypeOK, Datagram, FtTracker
  <1>2. d.ft # ft.previous /\ Delta(d.ft, ft.previous) < Half
    BY DEF FtKindOf
  <1>3. ~ Behind(d.ft, ft.previous)
    BY <1>1, <1>2, SerialNumbers, SequenceAssumption DEF Behind
  <1> QED BY <1>1, <1>3

\* handle_record() delivers a record only if it is progress, and sets the baseline to it.
LEMMA RecordIsOrdered ==
    ASSUME TypeOK, OrderInv, ReceiveRecord
    PROVE  /\ OrderInv'
           /\ (/\ delivery' # delivery /\ delivery # None
               /\ event'.ft # "Restart" /\ ~ doubted)
                 => delivery'.born > delivery.born
  <1>1. PICK d \in network, duplicated \in BOOLEAN :
          /\ ft' = FtObserve(ft, d.ft)
          /\ event' = [rdt |-> RdtKindOf(rdt, d.rdt), ft |-> FtKindOf(ft, d.ft)]
          /\ \/ /\ Wanted(d.status, RdtKindOf(rdt, d.rdt), FtKindOf(ft, d.ft))
                /\ delivery' = [born |-> d.born, revision |-> configuration.revision]
                /\ ~ doubted'
             \/ /\ doubted' <=> (doubted \/ FtKindOf(ft, d.ft) = "Restart")
                /\ delivery' = delivery
          /\ \/ CloseSession
             \/ network' = Rest(d, duplicated) /\ UNCHANGED sensor
    BY ZenonT(60) DEF ReceiveRecord, EndSession, Raise
  <1> DEFINE kind == FtKindOf(ft, d.ft)
  <1>2. /\ sensor'.born = sensor.born /\ sensor'.ft = sensor.ft /\ network' \subseteq network
    BY <1>1 DEF CloseSession, TypeOK, Rest
  <1>3. FlightInOrder'
    BY <1>2, SameFlight DEF OrderInv
  <1>4. /\ d.born \in Nat /\ d.ft \in Counter /\ sensor.born \in Nat
        /\ d.born \in 0 .. sensor.born - 1
        /\ \A e \in network : e.born <= d.born => Behind(e.ft, d.ft)
    BY DEF TypeOK, Datagram, OrderInv, FlightInOrder
  <1>5. kind \in FtKind /\ (kind = "First" <=> ~ ft.hasLast)
    BY DEF FtKindOf, FtKind, TypeOK, FtTracker
  <1>6. ft'.hasLast /\ ft'.previous = IF kind \in {"Stall", "Backward"} THEN ft.previous ELSE d.ft
    BY <1>1, <1>5 DEF FtObserve, FtKind
  <1>7. kind \in {"Stall", "Backward"} => UNCHANGED delivery /\ (doubted' <=> doubted)
    BY <1>1 DEF Wanted, FtDiscontinuity
  <1>8. kind = "First" => delivery = None
    BY <1>5 DEF OrderInv, BaselineInOrder
  <1>9. CASE kind \in {"Stall", "Backward"}
    <2>1. ft.hasLast
      BY <1>5, <1>9
    <2>2. BaselineInOrder'
      BY <1>2, <1>6, <1>7, <1>9, <2>1, SameBaseline DEF OrderInv
    <2> QED BY <1>3, <1>7, <1>9, <2>2 DEF OrderInv
  <1>10. CASE kind \notin {"Stall", "Backward"}
    <2>1. /\ delivery' # None /\ ~ doubted' => delivery'.born <= d.born
          /\ (/\ delivery' # delivery /\ delivery # None
              /\ kind # "Restart" /\ ~ doubted) => delivery'.born > delivery.born
      <3>1. CASE kind = "Forward"
        <4>1. ft.hasLast
          BY <1>5, <3>1
        <4>2. PICK b \in 0 .. sensor.born - 1 :
                /\ \A e \in network : e.born <= b => Behind(e.ft, ft.previous)
                /\ delivery # None /\ ~ doubted => delivery.born <= b
          BY <4>1 DEF OrderInv, BaselineInOrder
        <4>3. b \in Nat
          BY <1>4, <4>2
        <4>4. d.born > b
          BY <3>1, <4>1, <4>2, <4>3, ForwardIsYounger
        <4>5. delivery # None => delivery.born \in Nat
          BY DEF TypeOK
        <4>6. CASE delivery' = [born |-> d.born, revision |-> configuration.revision]
          BY <1>4, <4>2, <4>3, <4>4, <4>5, <4>6
        <4>7. CASE delivery' = delivery /\ (doubted' <=> doubted)
          BY <1>4, <4>2, <4>3, <4>4, <4>5, <4>7
        <4> HIDE DEF kind
        <4> QED BY <1>1, <3>1, <4>6, <4>7 DEF kind
      <3>2. CASE kind \in {"First", "Restart"}
        <4>1. CASE delivery' = [born |-> d.born, revision |-> configuration.revision]
          BY <1>4, <1>8, <3>2, <4>1
        <4>2. CASE delivery' = delivery /\ (doubted' <=> doubted \/ kind = "Restart")
          BY <1>4, <1>8, <3>2, <4>2
        <4> QED BY <1>1, <4>1, <4>2
      <3> QED BY <1>10, <1>5, <3>1, <3>2 DEF FtKind
    <2>2. BaselineInOrder'
      <3>1. \A e \in network' : e.born <= d.born => Behind(e.ft, ft'.previous)
        BY <1>2, <1>4, <1>6, <1>10
      <3>2. d.born \in 0 .. sensor'.born - 1
        BY <1>2, <1>4
      <3> HIDE DEF kind
      <3> QED BY <1>6, <2>1, <3>1, <3>2 DEF BaselineInOrder, Behind, Delta
    <2>3. event'.ft = kind
      BY <1>1
    <2> QED BY <1>3, <2>1, <2>2, <2>3 DEF OrderInv
  <1> QED BY <1>9, <1>10

\* A sensor that sends: its record is the youngest in flight, less than half a turn
\* ahead of the oldest.
LEMMA SendKeepsOrder ==
    ASSUME TypeOK, OrderInv, SensorSends
    PROVE  OrderInv'
  <1>1. PICK n : /\ network' = network \cup {n} /\ n.born = sensor.born /\ n.ft = sensor.ft
    <2>1. PICK status \in Status :
            network' = network \cup {[born |-> sensor.born, rdt |-> sensor.rdt, ft |-> sensor.ft,
                                      status |-> status, form |-> "record"]}
      BY DEF SensorSends
    <2> DEFINE n == [born |-> sensor.born, rdt |-> sensor.rdt, ft |-> sensor.ft,
                     status |-> status, form |-> "record"]
    <2>2. n.born = sensor.born /\ n.ft = sensor.ft
      OBVIOUS
    <2> QED BY <2>1, <2>2
  <1>2. /\ sensor.born \in Nat /\ sensor.ft \in Counter
        /\ \A d \in network : d.born \in Nat /\ d.ft \in Counter
    BY DEF TypeOK, Datagram
  <1>3. sensor'.born = sensor.born + 1 /\ sensor'.ft \in {sensor.ft, Succ(sensor.ft)}
    BY DEF SensorSends, TypeOK
  <1>4. UNCHANGED client /\ \A d \in network : sensor.born - d.born < Half - 1
    BY DEF SensorSends
  <1>5. \A d \in network : d.born < sensor.born /\ Delta(sensor.ft, d.ft) <= sensor.born - d.born
    BY DEF OrderInv, FlightInOrder
  <1>6. ASSUME NEW d \in network
        PROVE  /\ Behind(d.ft, sensor.ft)
               /\ Delta(sensor'.ft, d.ft) <= sensor'.born - d.born
    <2>1. /\ Delta(sensor.ft, d.ft) \in Nat
          /\ Delta(sensor.ft, d.ft) < Half => Behind(d.ft, sensor.ft)
          /\ Delta(Succ(sensor.ft), d.ft) <= Delta(sensor.ft, d.ft) + 1
          /\ Delta(Succ(sensor.ft), d.ft) \in Nat
      BY <1>2, SerialNumbers, CounterTypes
    <2> QED BY <1>2, <1>3, <1>4, <1>5, <2>1, SequenceAssumption
  <1>7. Behind(n.ft, n.ft) /\ Delta(sensor'.ft, n.ft) <= sensor'.born - n.born
    <2>1. /\ Delta(sensor.ft, sensor.ft) = 0 /\ Behind(sensor.ft, sensor.ft)
          /\ Delta(Succ(sensor.ft), sensor.ft) <= 1
      BY <1>2, SerialNumbers
    <2> QED BY <1>1, <1>2, <1>3, <2>1
  <1>8. FlightInOrder'
    <2>1. \A d \in network' :
            d.born < sensor'.born /\ Delta(sensor'.ft, d.ft) <= sensor'.born - d.born
      BY <1>1, <1>2, <1>3, <1>5, <1>6, <1>7
    <2>2. ASSUME NEW d \in network', NEW e \in network', d.born <= e.born
          PROVE  Behind(d.ft, e.ft)
      <3>1. CASE d \in network /\ e \in network
        BY <2>2, <3>1 DEF OrderInv, FlightInOrder
      <3>2. CASE d \in network /\ e = n
        BY <1>1, <1>6, <3>2
      <3>3. CASE d = n /\ e \in network
        BY <1>1, <1>2, <1>5, <2>2, <3>3
      <3>4. CASE d = n /\ e = n
        BY <1>7, <3>4
      <3> QED BY <1>1, <3>1, <3>2, <3>3, <3>4
    <2> QED BY <2>1, <2>2 DEF FlightInOrder, Behind, Delta
  <1>9. BaselineInOrder'
    <2>1. UNCHANGED <<ft, delivery, doubted>>
      BY <1>4 DEF client
    <2>2. CASE ~ ft.hasLast
      BY <2>1, <2>2 DEF OrderInv, BaselineInOrder
    <2>3. CASE ft.hasLast
      <3>1. PICK b \in 0 .. sensor.born - 1 :
              /\ \A d \in network : d.born <= b => Behind(d.ft, ft.previous)
              /\ delivery # None /\ ~ doubted => delivery.born <= b
        BY <2>3 DEF OrderInv, BaselineInOrder
      <3>2. \A d \in network' : d.born <= b => Behind(d.ft, ft.previous)
        BY <1>1, <1>2, <3>1
      <3>3. b \in 0 .. sensor'.born - 1
        BY <1>2, <1>3, <3>1
      <3> QED BY <2>1, <2>3, <3>1, <3>2, <3>3 DEF BaselineInOrder, Behind, Delta
    <2> QED BY <2>2, <2>3
  <1> QED BY <1>8, <1>9 DEF OrderInv

\* A sensor that measures unheard only grows older.
LEMMA IdleKeepsOrder ==
    ASSUME TypeOK, OrderInv, SensorIdles
    PROVE  OrderInv'
  <1>1. /\ sensor'.born = sensor.born + 1 /\ sensor'.ft = Succ(sensor.ft)
        /\ UNCHANGED <<network, ft, delivery, doubted>>
    BY DEF SensorIdles, TypeOK, client
  <1>2. /\ sensor.born \in Nat /\ sensor.ft \in Counter
        /\ \A d \in network : d.born \in Nat /\ d.ft \in Counter
    BY DEF TypeOK, Datagram
  <1>3. FlightInOrder'
    <2>1. ASSUME NEW d \in network
          PROVE  d.born < sensor'.born /\ Delta(sensor'.ft, d.ft) <= sensor'.born - d.born
      <3>1. /\ Delta(sensor.ft, d.ft) \in Nat /\ Delta(sensor'.ft, d.ft) \in Nat
            /\ Delta(sensor'.ft, d.ft) <= Delta(sensor.ft, d.ft) + 1
        BY <1>1, <1>2, SerialNumbers, CounterTypes
      <3>2. d.born < sensor.born /\ Delta(sensor.ft, d.ft) <= sensor.born - d.born
        BY DEF OrderInv, FlightInOrder
      <3> QED BY <1>1, <1>2, <3>1, <3>2
    <2>2. \A d, e \in network : d.born <= e.born => Behind(d.ft, e.ft)
      BY DEF OrderInv, FlightInOrder
    <2>3. \A d \in network' :
            d.born < sensor'.born /\ Delta(sensor'.ft, d.ft) <= sensor'.born - d.born
      BY <1>1, <2>1, Zenon
    <2>4. \A d, e \in network' : d.born <= e.born => Behind(d.ft, e.ft)
      BY <1>1, <2>2
    <2> QED BY <2>3, <2>4 DEF FlightInOrder, Behind, Delta
  <1>4. BaselineInOrder'
    <2>1. \A b \in 0 .. sensor.born - 1 : b \in 0 .. sensor'.born - 1
      BY <1>1, <1>2
    <2> QED BY <1>1, <2>1 DEF OrderInv, BaselineInOrder, Behind, Delta
  <1> QED BY <1>3, <1>4 DEF OrderInv

\* Every step keeps births and counters in the same order.
LEMMA NextOrder == TypeOK /\ OrderInv /\ [Next]_vars => OrderInv'
  <1> SUFFICES ASSUME TypeOK, OrderInv, [Next]_vars PROVE OrderInv'
    OBVIOUS
  <1>1. CASE SensorSends
    BY <1>1, SendKeepsOrder
  <1>2. CASE SensorIdles
    BY <1>2, IdleKeepsOrder
  <1>3. CASE SensorReboots
    <2>1. /\ sensor'.born = sensor.born /\ network' = {} /\ UNCHANGED <<ft, delivery, doubted>>
      BY <1>3 DEF SensorReboots, client, TypeOK
    <2>2. BaselineInOrder'
      BY <2>1, SameBaseline DEF OrderInv
    <2> QED BY <2>1, <2>2 DEF OrderInv, FlightInOrder
  <1>4. CASE ReceiveRecord
    BY <1>4, RecordIsOrdered
  <1>5. CASE \/ DiscoveryFails \/ ConnectFails \/ ReceiveEmpty \/ ReceiveTimeout \/ ReceiveFails
             \/ ConnectRaises \/ SessionRaises
    BY <1>5, EndKeepsOrder
       DEF DiscoveryFails, ConnectFails, ReceiveEmpty, ReceiveTimeout, ReceiveFails,
           ConnectRaises, SessionRaises, EndSession, Raise
  <1>6. CASE \/ NetworkLoses \/ NetworkGarbles \/ OpenSession \/ ReceiveMalformed
             \/ BackoffExpires \/ Restart \/ Bias \/ BiasFailsHalfway \/ UNCHANGED vars
    <2>1. sensor'.born = sensor.born /\ sensor'.ft = sensor.ft
      BY <1>6 DEF TypeOK, NetworkLoses, NetworkGarbles, OpenSession, ReceiveMalformed,
         EndSession, CloseSession, BackoffExpires, Restart, Bias, BiasFailsHalfway,
         StreamStarts, vars
    <2>2. \A d \in network' : \E e \in network : e.born = d.born /\ e.ft = d.ft
      <3>1. CASE NetworkGarbles
        <4>1. \A d \in network : \A form :
                LET g == [d EXCEPT !.form = form] IN g.born = d.born /\ g.ft = d.ft
          BY DEF TypeOK, Datagram
        <4> QED BY <3>1, <4>1 DEF NetworkGarbles
      <3>2. CASE ~ NetworkGarbles
        <4>1. network' \subseteq network
          BY <1>6, <3>2 DEF NetworkLoses, OpenSession, ReceiveMalformed, EndSession,
             CloseSession, Rest, BackoffExpires, Restart, Bias, BiasFailsHalfway, vars
        <4> QED BY <4>1
      <3> QED BY <3>1, <3>2
    <2>3. /\ ft'.hasLast = ft.hasLast /\ ft'.previous = ft.previous
          /\ UNCHANGED doubted /\ delivery' \in {delivery, None}
      BY <1>6 DEF TypeOK, FtTracker, NetworkLoses, NetworkGarbles, OpenSession,
         FtBeginSession, ReceiveMalformed, BackoffExpires, Restart, Bias, BiasFailsHalfway,
         client, vars
    <2> QED BY <2>1, <2>2, <2>3, SameFlight, SameBaseline DEF OrderInv
  <1> QED BY <1>1, <1>2, <1>3, <1>4, <1>5, <1>6 DEF Next

\* The inductive invariant holds in every reachable state.
LEMMA Invariance == Spec => []IInv
  <1>1. Init => IInv
    BY InitIInv
  <1>2. IInv /\ [Next]_vars => IInv'
    BY NextIInv
  <1> QED BY <1>1, <1>2, PTL DEF Spec
-----------------------------------------------------------------------------
\* Whatever the widths, policies and bounds: every value has its type, and the delay of
\* run() stays between reconnect_initial_delay and reconnect_max_delay.
THEOREM RecordTypes == Spec => []TypeOK
  <1>1. IInv => TypeOK
    BY DEF IInv
  <1> QED BY <1>1, Invariance, PTL

\* Under FailStop no record is ever taken for the confirmation of a sensor restart,
\* although start() keeps the FT baseline between sessions (sequence.cpp).
THEOREM FailStopHasNoRestart == Spec => []FailStopNeverConfirmsRestart
  <1>1. IInv => FailStopNeverConfirmsRestart
    BY DEF IInv
  <1> QED BY <1>1, Invariance, PTL

\* For every threshold: a storm is declared only when the last StormThreshold datagrams
\* were all malformed, however many sessions they span (receive_session()).
THEOREM StormsAreReal == Spec => []StormIsConsecutive
  <1>1. IInv => StormIsConsecutive
    BY TailIsStorm DEF IInv
  <1> QED BY <1>1, Invariance, PTL

\* For any set of calibrations and any number of sessions: two delivered samples of one
\* revision were scaled with one calibration (apply_configuration()).
THEOREM RevisionsAreNames == Spec => []RevisionNamesCalibration
  <1>1. IInv => RevisionNamesCalibration
    BY DEF IInv
  <1> QED BY <1>1, Invariance, PTL

\* For every initial and maximal delay: after n fruitless sessions the delay is the
\* initial one times 2^n, capped (run()'s backoff).
THEOREM DelaysDouble == Spec => []BackoffIsExponential
  <1>1. IInv => BackoffIsExponential
    BY DEF IInv
  <1> QED BY <1>1, Invariance, PTL

\* For every counter width, restart window and bound, under any loss, duplication,
\* reordering, reboot, bias and reconnection: handle_record() delivers no sample after a
\* younger one, unless the FT tracker has confirmed a restart since.
THEOREM DeliveriesAreFresh == Spec => FreshDelivery
  <1>1. Init => OrderInv
    BY SequenceAssumption DEF Init, OrderInv, FlightInOrder, BaselineInOrder, FtInit
  <1>2. IInv => TypeOK
    BY DEF IInv
  <1>3. TypeOK /\ OrderInv /\ [Next]_vars => OrderInv'
    BY NextOrder
  <1>4. TypeOK /\ OrderInv /\ [Next]_vars =>
          [(/\ delivery' # delivery /\ delivery # None /\ delivery' # None
            /\ event'.ft # "Restart" /\ ~ doubted)
              => delivery'.born > delivery.born]_vars
    <2> SUFFICES ASSUME TypeOK, OrderInv, Next, delivery' # delivery, delivery' # None,
                        delivery # None, event'.ft # "Restart", ~ doubted
                 PROVE  delivery'.born > delivery.born
      OBVIOUS
    <2>1. ReceiveRecord
      BY DEF Next, SensorSends, SensorIdles, SensorReboots, NetworkLoses, NetworkGarbles,
         DiscoveryFails, ConnectFails, OpenSession, ReceiveMalformed, ReceiveEmpty,
         ReceiveTimeout, ReceiveFails, ConnectRaises, SessionRaises, BackoffExpires, Restart,
         Bias, BiasFailsHalfway, client
    <2> QED BY <2>1, RecordIsOrdered
  <1> QED BY <1>1, <1>2, <1>3, <1>4, Invariance, PTL DEF Spec, FreshDelivery

\* A reconnecting client finds back to a sensor that has rebooted: whatever the FT
\* tracker remembers from before, once its baseline is above the low window, two
\* records in order from inside the window make the second one the baseline, and no
\* candidate is left that could confirm another restart (FtSequenceTracker::observe()).
THEOREM RebootIsFollowed ==
    ASSUME NEW t \in FtTracker, t.hasLast, t.previous > RestartLowMax,
           NEW a \in Counter, NEW b \in Counter, a < b, b <= RestartLowMax
    PROVE  LET after == FtObserve(FtObserve(t, a), b)
           IN  after.previous = b /\ after.hasLast /\ ~ after.hasCandidate
  <1> DEFINE u == FtObserve(t, a)
             Followed(v) == v.previous = b /\ v.hasLast /\ ~ v.hasCandidate
  <1> USE SequenceAssumption DEF Counter, Modulus, Delta, FtTracker
  <1>1. u \in FtTracker /\ u.hasLast
    BY RdtInit \in RdtTracker, TrackerTypes DEF FtObserve, RdtInit, RdtTracker
  <1>2. \/ u.previous = a
        \/ u.previous = t.previous /\ u.hasCandidate /\ u.candidate = a
    <2>1. FtKindOf(t, a) \in {"Forward", "Restart", "Backward"}
      BY DEF FtKindOf
    <2> QED BY <2>1 DEF FtObserve
  <1> HIDE DEF u
  <1>3. ASSUME u.previous = a PROVE Followed(FtObserve(u, b))
    <2>1. FtKindOf(u, b) = "Forward"
      BY <1>1, <1>3 DEF FtKindOf
    <2> QED BY <1>1, <2>1 DEF FtObserve
  <1>4. ASSUME u.previous = t.previous, u.hasCandidate, u.candidate = a
        PROVE  Followed(FtObserve(u, b))
    <2>1. FtKindOf(u, b) \in {"Forward", "Restart"}
      BY <1>1, <1>4 DEF FtKindOf, ConfirmsRestart
    <2> QED BY <1>1, <2>1 DEF FtObserve
  <1>5. Followed(FtObserve(u, b))
    BY <1>2, <1>3, <1>4
  <1> QED BY <1>5 DEF u
=============================================================================
