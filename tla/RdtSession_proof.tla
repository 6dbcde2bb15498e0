-------------------------- MODULE RdtSession_proof --------------------------
(***************************************************************************)
(* For every size of the number space and every bound: between two resets  *)
(* of the tracker the RDT counters of the health snapshot are exact, and   *)
(* the records of a stream are accepted in order.                          *)
(***************************************************************************)
EXTENDS RdtSession, TLAPS

\* The sensor's increment is one step of unsigned arithmetic: every distance
\* that does not span the whole number space grows by one.
LEMMA SuccDelta ==
    ASSUME NEW c \in Counter, NEW p \in Counter, Delta(c, p) < Modulus - 1
    PROVE  /\ Succ(c) \in Counter
           /\ Delta(Succ(c), p) = Delta(c, p) + 1
  BY SequenceAssumption DEF Counter, Modulus, Delta, Succ

\* Unsigned subtraction in both directions: the two distances complete a turn.
LEMMA DeltaRange ==
    ASSUME NEW c \in Counter, NEW p \in Counter
    PROVE  /\ Delta(c, p) \in Nat
           /\ Delta(c, p) < Modulus
           /\ Delta(c, p) = 0 <=> c = p
           /\ c # p => Delta(p, c) = Modulus - Delta(c, p)
  BY SequenceAssumption DEF Counter, Modulus, Delta

\* observe() keeps the tracker's type and never reports a negative gap.
LEMMA RdtObserveType ==
    ASSUME NEW t \in RdtTracker, NEW c \in Counter
    PROVE  /\ RdtObserve(t, c) \in RdtTracker
           /\ RdtGap(t, c) \in Nat
  <1>1. Delta(c, t.previous) \in Nat
    BY DeltaRange DEF RdtTracker
  <1>2. RdtObserve(t, c) \in RdtTracker
    BY DEF RdtObserve, RdtTracker
  <1>3. RdtGap(t, c) \in Nat
    BY <1>1 DEF RdtGap, RdtKindOf
  <1> QED BY <1>2, <1>3

\* A record within half of the number space of the baseline is classified by
\* its true position: it progresses if and only if it is younger, and the gap
\* is the number of positions skipped.
LEMMA Classification ==
    ASSUME NEW t \in RdtTracker, t.hasLast,
           NEW d \in Datagram, NEW b \in Datagram, b.seq = t.previous, d.stream = b.stream,
           Agree(d, b), Agree(b, d),
           d.pos - b.pos < Half, b.pos - d.pos < Half
    PROVE  /\ d.pos > b.pos => /\ RdtKindOf(t, d.seq) \in {"Contiguous", "Gap"}
                               /\ RdtGap(t, d.seq) = d.pos - b.pos - 1
                               /\ RdtObserve(t, d.seq) = [hasLast |-> TRUE, previous |-> d.seq]
           /\ d.pos <= b.pos => /\ RdtKindOf(t, d.seq) \in {"Duplicate", "OutOfOrder"}
                                /\ RdtGap(t, d.seq) = 0
                                /\ RdtObserve(t, d.seq) = t
  <1> DEFINE delta == Delta(d.seq, t.previous)
  <1>0. d.seq \in Counter /\ t.previous \in Counter /\ d.pos \in Nat /\ b.pos \in Nat
    BY DEF Datagram, RdtTracker
  <1>1. ASSUME d.pos > b.pos
        PROVE  /\ RdtKindOf(t, d.seq) \in {"Contiguous", "Gap"}
               /\ RdtGap(t, d.seq) = d.pos - b.pos - 1
               /\ RdtObserve(t, d.seq) = [hasLast |-> TRUE, previous |-> d.seq]
    <2>1. delta = d.pos - b.pos /\ delta > 0 /\ delta < Half /\ delta \in Nat
      BY <1>0, <1>1, SequenceAssumption DEF Agree
    <2>2. CASE delta = 1
      <3>1. RdtKindOf(t, d.seq) = "Contiguous"
        BY <2>1, <2>2 DEF RdtKindOf
      <3> QED BY <3>1, <2>1, <2>2, <1>0 DEF RdtGap, RdtObserve
    <2>3. CASE delta # 1
      <3>1. RdtKindOf(t, d.seq) = "Gap"
        BY <2>1, <2>3 DEF RdtKindOf
      <3> QED BY <3>1, <2>1, <1>0 DEF RdtGap, RdtObserve
    <2> QED BY <2>2, <2>3
  <1>2. ASSUME d.pos <= b.pos
        PROVE  /\ RdtKindOf(t, d.seq) \in {"Duplicate", "OutOfOrder"}
               /\ RdtGap(t, d.seq) = 0
               /\ RdtObserve(t, d.seq) = t
    <2>1. Delta(t.previous, d.seq) = b.pos - d.pos
      BY <1>0, <1>2 DEF Agree
    <2>2. delta = 0 \/ delta >= Half
      BY <2>1, <1>0, <1>2, DeltaRange, SequenceAssumption DEF Modulus
    <2>3. delta \in Nat
      BY <1>0, DeltaRange
    <2>4. RdtKindOf(t, d.seq) \in {"Duplicate", "OutOfOrder"}
      BY <2>2, <2>3, SequenceAssumption DEF RdtKindOf
    <2> QED BY <2>4 DEF RdtGap, RdtObserve
  <1> QED BY <1>0, <1>1, <1>2

-----------------------------------------------------------------------------
\* A new client has accepted nothing and nothing is in flight.
LEMMA InitIInv == Init => IInv
  <1> SUFFICES ASSUME Init PROVE IInv
    OBVIOUS
  <1>1. 0 \in Counter
    BY SequenceAssumption DEF Counter, Modulus
  <1>2. TypeOK
    <2>1. streaming \in BOOLEAN /\ mixed \in BOOLEAN
      BY DEF Init
    <2>2. tracker \in RdtTracker
      BY <1>1 DEF Init, RdtTracker, RdtInit
    <2>3. sensor \in Datagram /\ network \in SUBSET Datagram
      BY DEF Init, Datagram
    <2> QED BY <2>1, <2>2, <2>3 DEF Init, TypeOK
  <1>3. InFlightAgree /\ BaselineAgrees /\ LossIsExact
    BY DEF Init, InFlightAgree, BaselineAgrees, LossIsExact, Span, RdtInit
  <1> QED BY <1>2, <1>3 DEF IInv

\* Sending a record keeps the counters in step with the positions.
LEMMA SendIInv == IInv /\ Send => IInv'
  <1> SUFFICES ASSUME IInv, Send PROVE IInv'
    OBVIOUS
  <1> USE DEF IInv
  <1>0. /\ sensor \in Datagram /\ network \subseteq Datagram
        /\ sensor.pos \in Nat /\ sensor.seq \in Counter /\ sensor.stream \in Nat
        /\ \A d \in network : d.pos \in Nat /\ d.seq \in Counter /\ d.stream \in Nat
        /\ last \in Nat /\ origin \in Nat /\ tracker.previous \in Counter
    BY DEF TypeOK, Datagram, RdtTracker
  <1>1. /\ network' = network \cup {sensor}
        /\ sensor'.pos = sensor.pos + 1
        /\ sensor'.seq = Succ(sensor.seq)
        /\ sensor'.stream = sensor.stream
        /\ sensor' = [sensor EXCEPT !.pos = sensor.pos + 1, !.seq = Succ(sensor.seq)]
        /\ UNCHANGED <<pending, tracker, health, streaming, origin, last, first, mixed, counted,
                       session>>
    BY <1>0 DEF Send, Datagram
  <1>2. Succ(sensor.seq) \in Counter
    BY <1>0, SequenceAssumption DEF Succ, Counter, Modulus
  <1>3. TypeOK'
    <2>0. sensor.pos + 1 \in Nat
      BY <1>0
    <2>1. sensor' \in Datagram
      BY <2>0, <1>0, <1>1, <1>2 DEF Datagram
    <2>2. streaming' \in BOOLEAN /\ mixed' \in BOOLEAN
      BY <1>1 DEF TypeOK
    <2> QED BY <2>1, <2>2, <1>0, <1>1 DEF TypeOK
  <1>4. \A d \in Datagram : Delta(d.seq, d.seq) = 0
    BY DeltaRange DEF Datagram
  <1>5. Delta(Succ(sensor.seq), sensor.seq) = 1
    BY <1>0, SuccDelta, DeltaRange, SequenceAssumption DEF Modulus
  <1>6. ASSUME NEW d \in Datagram, d.pos < sensor.pos, sensor.pos - d.pos < Half,
               Agree(sensor, d)
        PROVE  Agree(sensor', d)
    <2> SUFFICES ASSUME d.stream = sensor.stream
                 PROVE  Agree(sensor', d)
      BY <1>1 DEF Agree
    <2>1. Delta(sensor.seq, d.seq) = sensor.pos - d.pos
      BY <1>0, <1>6 DEF Agree, Datagram
    <2>2. d.seq \in Counter /\ d.pos \in Nat /\ Delta(sensor.seq, d.seq) < Modulus - 1
      BY <2>1, <1>0, <1>6, SequenceAssumption DEF Datagram, Modulus
    <2> QED BY <2>1, <2>2, <1>0, <1>1, SuccDelta DEF Agree
  <1>7. InFlightAgree'
    <2> SUFFICES ASSUME NEW d \in network'
                 PROVE  /\ d.pos < sensor'.pos /\ d.stream <= sensor'.stream
                        /\ sensor'.pos - d.pos <= Half
                        /\ Agree(sensor', d)
                        /\ \A e \in network' : Agree(d, e)
      BY DEF InFlightAgree, Agree
    <2>1. CASE d \in network
      <3>1. /\ d \in Datagram /\ d.pos < sensor.pos /\ sensor.pos - d.pos < Half
            /\ Agree(sensor, d) /\ d.stream <= sensor.stream
        BY <2>1, <1>0 DEF InFlightAgree, Send, WithinWindow
      <3>2. \A e \in network' : Agree(d, e)
        BY <1>0, <1>1, <2>1, <3>1 DEF InFlightAgree, Agree
      <3> QED BY <3>1, <3>2, <1>0, <1>1, <1>6, SequenceAssumption DEF Datagram
    <2>2. CASE d = sensor
      <3>1. Agree(sensor', d)
        BY <2>2, <1>0, <1>1, <1>5 DEF Agree
      <3>2. \A e \in network' : Agree(d, e)
        BY <2>2, <1>0, <1>1, <1>4 DEF InFlightAgree, Agree
      <3> QED BY <3>1, <3>2, <2>2, <1>0, <1>1, SequenceAssumption
    <2> QED BY <2>1, <2>2, <1>1
  <1>8. BaselineAgrees'
    <2> SUFFICES ASSUME tracker.hasLast
                 PROVE  /\ ~ mixed => first <= last
                        /\ last < sensor'.pos /\ origin <= sensor'.stream
                        /\ sensor'.pos - last <= Half
                        /\ Agree(sensor', Baseline)
                        /\ \A d \in network' : Agree(d, Baseline) /\ Agree(Baseline, d)
      BY <1>1 DEF BaselineAgrees, Baseline, Agree
    <2>1. Baseline \in Datagram /\ Baseline.pos = last
      BY <1>0 DEF Baseline, Datagram
    <2>2. /\ last < sensor.pos /\ sensor.pos - last < Half /\ (~ mixed => first <= last)
          /\ origin <= sensor.stream
          /\ Agree(sensor, Baseline)
      BY DEF BaselineAgrees, Send, WithinWindow
    <2>3. Agree(sensor', Baseline)
      BY <2>1, <2>2, <1>6
    <2>4. Agree(Baseline, sensor)
      BY <2>1, <2>2, <1>0 DEF Agree
    <2>5. \A d \in network' : Agree(d, Baseline) /\ Agree(Baseline, d)
      BY <2>2, <2>4, <1>1 DEF BaselineAgrees
    <2> QED BY <2>2, <2>3, <2>5, <1>0, <1>1, SequenceAssumption
  <1>9. LossIsExact'
    BY <1>1 DEF LossIsExact, Span
  <1> QED BY <1>3, <1>7, <1>8, <1>9

\* Losing a record leaves less to agree about.
LEMMA LoseIInv == IInv /\ Lose => IInv'
  <1> SUFFICES ASSUME IInv, Lose PROVE IInv'
    OBVIOUS
  <1>1. /\ network' \subseteq network
        /\ UNCHANGED <<sensor, pending, tracker, health, streaming, origin, last, first, mixed,
                       counted, session>>
    BY DEF Lose
  <1>2. TypeOK'
    BY <1>1 DEF IInv, TypeOK
  <1>3. InFlightAgree'
    BY <1>1 DEF IInv, InFlightAgree, Agree
  <1>4. BaselineAgrees'
    BY <1>1 DEF IInv, BaselineAgrees, Baseline, Agree
  <1>5. LossIsExact'
    BY <1>1 DEF IInv, LossIsExact, Span
  <1> QED BY <1>2, <1>3, <1>4, <1>5 DEF IInv

\* What receiving the record d does to the client.
Reception(d) ==
    LET accepted == RdtKindOf(tracker, d.seq) \in Progress
    IN  /\ tracker' = RdtObserve(tracker, d.seq)
        /\ health' = Count(health, tracker, d.seq)
        /\ streaming' = TRUE
        /\ last' = IF accepted THEN d.pos ELSE last
        /\ origin' = IF accepted THEN d.stream ELSE origin
        /\ first' = IF tracker.hasLast THEN first ELSE d.pos
        /\ mixed' = (tracker.hasLast /\ (mixed \/ (accepted /\ d.stream # origin)))

\* The two ways a record may go, whatever stream it belongs to.
Accepted(d) ==
    /\ tracker' = [hasLast |-> TRUE, previous |-> d.seq]
    /\ last' = d.pos /\ origin' = d.stream
    /\ health'.accepted = health.accepted + 1

Dropped ==
    /\ tracker' = tracker /\ last' = last /\ origin' = origin /\ first' = first
    /\ mixed' = mixed
    /\ health'.accepted = health.accepted /\ health'.lost = health.lost

\* A record is accepted or dropped; the first after a reset is accepted.
LEMMA ReceptionSplits ==
    ASSUME IInv, NEW d \in network, Reception(d)
    PROVE  /\ Accepted(d) \/ (tracker.hasLast /\ Dropped)
           /\ ~ tracker.hasLast =>
                Accepted(d) /\ first' = d.pos /\ ~ mixed' /\ health'.lost = health.lost
  <1>0. /\ tracker.hasLast \in BOOLEAN /\ mixed \in BOOLEAN
        /\ health.accepted \in Nat /\ health.lost \in Nat
    BY DEF IInv, TypeOK, RdtTracker
  <1>1. /\ health'.accepted = health.accepted
              + IF RdtKindOf(tracker, d.seq) \in Progress THEN 1 ELSE 0
        /\ health'.lost = health.lost + RdtGap(tracker, d.seq)
    BY DEF Reception, Count, Progress
  <1>2. CASE RdtKindOf(tracker, d.seq) \in Progress
    <2>1. Accepted(d)
      BY <1>1, <1>2 DEF Reception, Accepted, RdtObserve, Progress
    <2>2. ASSUME ~ tracker.hasLast
          PROVE  first' = d.pos /\ ~ mixed' /\ health'.lost = health.lost
      BY <2>2, <1>0, <1>1 DEF Reception, RdtGap, RdtKindOf
    <2> QED BY <2>1, <2>2
  <1>3. CASE RdtKindOf(tracker, d.seq) \notin Progress
    <2>1. tracker.hasLast
      BY <1>3 DEF RdtKindOf, Progress
    <2>2. RdtGap(tracker, d.seq) = 0
      BY <1>3 DEF RdtGap, Progress
    <2>3. mixed' = mixed
      BY <1>0, <1>3, <2>1 DEF Reception
    <2> QED BY <1>0, <1>1, <1>3, <2>1, <2>2, <2>3 DEF Reception, Dropped, RdtObserve, Progress
  <1> QED BY <1>2, <1>3

\* In terms of true positions: a record of the baseline's own stream is
\* accepted if it is younger than the baseline, and dropped otherwise.
LEMMA ReceiveEffect ==
    ASSUME IInv, NEW d \in network, Reception(d), tracker.hasLast, d.stream = origin
    PROVE  /\ d.pos > last =>
                /\ Accepted(d) /\ first' = first /\ mixed' = mixed
                /\ health'.lost = health.lost + (d.pos - last - 1)
           /\ d.pos <= last => Dropped
  <1>0. /\ d \in Datagram /\ tracker \in RdtTracker /\ last \in Nat /\ origin \in Nat
        /\ d.pos \in Nat /\ tracker.hasLast \in BOOLEAN /\ mixed \in BOOLEAN
        /\ health.accepted \in Nat /\ health.lost \in Nat
        /\ sensor.pos \in Nat
    BY DEF IInv, TypeOK, Datagram, RdtTracker
  <1>1. /\ health'.accepted = health.accepted
              + IF RdtKindOf(tracker, d.seq) \in Progress THEN 1 ELSE 0
        /\ health'.lost = health.lost + RdtGap(tracker, d.seq)
    BY DEF Reception, Count, Progress
  <1>2. /\ Baseline \in Datagram /\ Baseline.pos = last
        /\ Baseline.seq = tracker.previous /\ d.stream = Baseline.stream
    BY <1>0 DEF Baseline, Datagram, RdtTracker
  <1>3. /\ Agree(d, Baseline) /\ Agree(Baseline, d)
        /\ d.pos - last < Half /\ last - d.pos < Half
    BY <1>0, SequenceAssumption DEF IInv, BaselineAgrees, InFlightAgree
  <1>4. ASSUME d.pos > last
        PROVE  /\ Accepted(d) /\ first' = first /\ mixed' = mixed
               /\ health'.lost = health.lost + (d.pos - last - 1)
    <2>1. /\ RdtKindOf(tracker, d.seq) \in {"Contiguous", "Gap"}
          /\ RdtGap(tracker, d.seq) = d.pos - last - 1
          /\ RdtObserve(tracker, d.seq) = [hasLast |-> TRUE, previous |-> d.seq]
      BY <1>0, <1>2, <1>3, <1>4, Classification
    <2>2. RdtKindOf(tracker, d.seq) \in Progress
      BY <2>1 DEF Progress
    <2>3. mixed' = mixed /\ first' = first
      BY <1>0 DEF Reception
    <2> QED BY <2>1, <2>2, <2>3, <1>0, <1>1 DEF Reception, Accepted
  <1>5. ASSUME d.pos <= last PROVE Dropped
    <2>1. /\ RdtKindOf(tracker, d.seq) \in {"Duplicate", "OutOfOrder"}
          /\ RdtGap(tracker, d.seq) = 0
          /\ RdtObserve(tracker, d.seq) = tracker
      BY <1>0, <1>2, <1>3, <1>5, Classification
    <2>2. RdtKindOf(tracker, d.seq) \notin Progress
      BY <2>1 DEF Progress
    <2>3. mixed' = mixed
      BY <2>2, <1>0 DEF Reception
    <2> QED BY <2>1, <2>2, <2>3, <1>0, <1>1 DEF Reception, Dropped
  <1> QED BY <1>4, <1>5

\* Receiving a record, accepted or dropped, keeps the inductive invariant.
LEMMA ReceiveIInv == IInv /\ Receive => IInv'
  <1> SUFFICES ASSUME IInv, Receive PROVE IInv'
    OBVIOUS
  <1>1. PICK d \in network, keep \in BOOLEAN :
          /\ network' = IF keep THEN network ELSE network \ {d}
          /\ Reception(d)
          /\ UNCHANGED <<sensor, pending, counted, session>>
    BY DEF Receive, Reception
  <1>2. /\ Accepted(d) \/ (tracker.hasLast /\ Dropped)
        /\ ~ tracker.hasLast =>
             Accepted(d) /\ first' = d.pos /\ ~ mixed' /\ health'.lost = health.lost
    BY <1>1, ReceptionSplits
  <1>r. ASSUME tracker.hasLast, d.stream = origin
        PROVE  /\ d.pos > last =>
                    /\ Accepted(d) /\ first' = first /\ mixed' = mixed
                    /\ health'.lost = health.lost + (d.pos - last - 1)
               /\ d.pos <= last => Dropped
    BY <1>r, <1>1, ReceiveEffect
  <1>3. /\ d \in Datagram /\ d.pos \in Nat /\ d.seq \in Counter /\ d.stream \in Nat
        /\ network' \subseteq network /\ network \subseteq Datagram
        /\ last \in Nat /\ first \in Nat /\ sensor.pos \in Nat /\ counted \in Nat
        /\ origin \in Nat /\ sensor.stream \in Nat
        /\ health.accepted \in Nat /\ health.lost \in Nat
        /\ tracker \in RdtTracker /\ tracker.hasLast \in BOOLEAN /\ mixed \in BOOLEAN
    BY <1>1 DEF IInv, TypeOK, Datagram, RdtTracker
  <1>4. TypeOK'
    <2>1. RdtObserve(tracker, d.seq) \in RdtTracker /\ RdtGap(tracker, d.seq) \in Nat
      BY <1>3, RdtObserveType
    <2>2. health' \in [accepted : Nat, lost : Nat, duplicate : Nat, outOfOrder : Nat]
      BY <1>1, <2>1 DEF IInv, TypeOK, Count, Reception
    <2>3. last' \in Nat /\ first' \in Nat /\ origin' \in Nat
      BY <1>1, <1>3 DEF Reception
    <2>4. streaming' \in BOOLEAN /\ mixed' \in BOOLEAN
      BY <1>1 DEF Reception
    <2>5. tracker' \in RdtTracker
      BY <1>1, <2>1 DEF Reception
    <2> QED BY <1>1, <1>3, <2>2, <2>3, <2>4, <2>5 DEF IInv, TypeOK
  <1>5. InFlightAgree'
    BY <1>1, <1>3 DEF IInv, InFlightAgree, Agree
  <1>e. ~ mixed' /\ tracker'.hasLast => first' <= last'
    <2>1. tracker.hasLast /\ ~ mixed => first <= last
      BY DEF IInv, BaselineAgrees
    <2>2. CASE ~ tracker.hasLast
      BY <2>2, <1>2, <1>3 DEF Accepted
    <2>3. CASE tracker.hasLast /\ Dropped
      BY <2>1, <2>3 DEF Dropped
    <2>4. CASE tracker.hasLast /\ Accepted(d) /\ ~ mixed'
      <3>1. RdtKindOf(tracker, d.seq) \in Progress
        BY <2>4, <1>1, <1>3 DEF IInv, TypeOK, Reception, Accepted, Count, Progress
      <3>2. d.stream = origin /\ ~ mixed
        BY <2>4, <3>1, <1>1, <1>3 DEF Reception
      <3>3. d.pos > last \/ Dropped
        BY <1>r, <2>4, <3>2, <1>3
      <3>4. d.pos > last
        BY <3>3, <2>4, <1>3 DEF Dropped, Accepted
      <3> QED BY <3>2, <3>4, <2>1, <2>4, <1>1, <1>3 DEF Reception, Accepted
    <2> QED BY <1>2, <2>2, <2>3, <2>4
  <1>6. BaselineAgrees'
    <2>1. CASE tracker.hasLast /\ Dropped
      BY <2>1, <1>1, <1>3 DEF IInv, BaselineAgrees, Baseline, Agree, Dropped
    <2>2. CASE Accepted(d)
      <3>1. Baseline'.pos = d.pos /\ Baseline'.seq = d.seq /\ Baseline'.stream = d.stream
        BY <2>2 DEF Baseline, Accepted
      <3>2. /\ d.pos < sensor.pos /\ sensor.pos - d.pos <= Half /\ Agree(sensor, d)
            /\ d.stream <= sensor.stream
            /\ \A e \in network : Agree(d, e) /\ Agree(e, d)
        BY <1>1 DEF IInv, InFlightAgree
      <3>3. \A e \in network' : Agree(e, Baseline') /\ Agree(Baseline', e)
        BY <3>1, <3>2, <1>3 DEF Agree
      <3>4. Agree(sensor', Baseline')
        BY <3>1, <3>2, <1>1 DEF Agree
      <3>5. last' = d.pos /\ origin' = d.stream /\ sensor' = sensor /\ tracker'.hasLast
        BY <2>2, <1>1 DEF Accepted
      <3> QED BY <3>2, <3>3, <3>4, <3>5, <1>e, <1>3 DEF BaselineAgrees, Agree
    <2> QED BY <1>2, <2>1, <2>2
  <1>7. LossIsExact'
    <2> SUFFICES ASSUME ~ mixed'
                 PROVE  health'.accepted + health'.lost = counted' + Span'
      BY DEF LossIsExact
    <2>1. ~ mixed => health.accepted + health.lost
                       = counted + (IF tracker.hasLast THEN last - first + 1 ELSE 0)
      BY DEF IInv, LossIsExact, Span
    <2>2. CASE ~ tracker.hasLast
      <3>1. ~ mixed
        BY <2>2 DEF IInv, BaselineAgrees
      <3> QED BY <3>1, <2>1, <2>2, <1>1, <1>2, <1>3 DEF Span, Accepted
    <2>3. CASE tracker.hasLast /\ Dropped
      BY <2>1, <2>3, <1>1, <1>3 DEF Span, Dropped
    <2>4. CASE tracker.hasLast /\ Accepted(d)
      <3>1. RdtKindOf(tracker, d.seq) \in Progress
        BY <2>4, <1>1, <1>3 DEF IInv, TypeOK, Reception, Accepted, Count, Progress
      <3>2. d.stream = origin /\ ~ mixed
        BY <2>4, <3>1, <1>1, <1>3 DEF Reception
      <3>3. d.pos > last \/ Dropped
        BY <1>r, <2>4, <3>2, <1>3
      <3>4. d.pos > last
        BY <3>3, <2>4, <1>3 DEF Dropped, Accepted
      <3>5. first' = first /\ health'.lost = health.lost + (d.pos - last - 1)
        BY <1>r, <2>4, <3>2, <3>4
      <3> QED BY <3>2, <3>4, <3>5, <2>1, <2>4, <1>1, <1>3 DEF Span, Accepted
    <2> QED BY <1>2, <2>2, <2>3, <2>4
  <1> QED BY <1>4, <1>5, <1>6, <1>7 DEF IInv

\* The reset of bias() opens a new span; what is in flight stays.
LEMMA BiasIInv == IInv /\ Bias => IInv'
  <1> SUFFICES ASSUME IInv, Bias PROVE IInv'
    OBVIOUS
  <1>1. /\ tracker' = RdtReset(tracker) /\ counted' = health.accepted + health.lost
        /\ mixed' = FALSE /\ pending' = pending + 1
        /\ UNCHANGED <<sensor, network, health, streaming, origin, last, first, session>>
    BY DEF Bias, ResetTracker
  <1>2. /\ tracker' \in RdtTracker /\ ~ tracker'.hasLast
    BY <1>1 DEF IInv, TypeOK, RdtTracker, RdtReset
  <1>3. health.accepted \in Nat /\ health.lost \in Nat
    BY DEF IInv, TypeOK
  <1>4. TypeOK'
    <2>1. streaming' \in BOOLEAN /\ mixed' \in BOOLEAN
      BY <1>1 DEF IInv, TypeOK
    <2>2. pending' \in Nat /\ counted' \in Nat
      BY <1>1, <1>3 DEF IInv, TypeOK
    <2> QED BY <2>1, <2>2, <1>1, <1>2 DEF IInv, TypeOK
  <1>5. InFlightAgree' /\ BaselineAgrees'
    BY <1>1, <1>2 DEF IInv, InFlightAgree, BaselineAgrees, Agree
  <1>6. LossIsExact'
    BY <1>1, <1>2, <1>3 DEF LossIsExact, Span
  <1> QED BY <1>4, <1>5, <1>6 DEF IInv

\* A restarted sensor numbers its records anew: they agree with no older one.
LEMMA SensorRestartsIInv == IInv /\ SensorRestarts => IInv'
  <1> SUFFICES ASSUME IInv, SensorRestarts PROVE IInv'
    OBVIOUS
  <1>1. PICK seq \in Counter :
          sensor' = [stream |-> sensor.stream + 1, pos |-> sensor.pos, seq |-> seq]
    BY DEF SensorRestarts
  <1>2. /\ sensor'.stream = sensor.stream + 1 /\ sensor'.pos = sensor.pos
        /\ pending' = pending - 1 /\ pending > 0
        /\ UNCHANGED <<network, tracker, health, streaming, origin, last, first, mixed, counted,
                       session>>
    BY <1>1 DEF SensorRestarts
  <1>3. /\ sensor.stream \in Nat /\ sensor.pos \in Nat /\ network \subseteq Datagram
        /\ pending \in Nat /\ origin \in Nat
    BY DEF IInv, TypeOK, Datagram
  <1>4. TypeOK'
    BY <1>1, <1>2, <1>3 DEF IInv, TypeOK, Datagram
  <1>5. InFlightAgree'
    BY <1>2, <1>3 DEF IInv, InFlightAgree, Agree, Datagram
  <1>6. BaselineAgrees'
    <2>1. Baseline' = Baseline /\ Baseline.stream = origin
      BY <1>2 DEF Baseline
    <2>2. tracker.hasLast => Agree(sensor', Baseline')
      BY <2>1, <1>2, <1>3 DEF IInv, BaselineAgrees, Agree
    <2> QED BY <2>1, <2>2, <1>2, <1>3 DEF IInv, BaselineAgrees, Agree
  <1>7. LossIsExact'
    BY <1>2 DEF IInv, LossIsExact, Span
  <1> QED BY <1>4, <1>5, <1>6, <1>7 DEF IInv

\* A new session opens a new span; nothing is in flight and there is no
\* baseline, so there is nothing to agree about.
LEMMA BeginSessionIInv == IInv /\ BeginSession => IInv'
  <1> SUFFICES ASSUME IInv, BeginSession PROVE IInv'
    OBVIOUS
  <1>1. /\ network' = {} /\ pending' = 0 /\ streaming' = FALSE /\ mixed' = FALSE
        /\ tracker' = RdtReset(tracker) /\ counted' = health.accepted + health.lost
        /\ sensor' \in Datagram /\ session' = session + 1
        /\ UNCHANGED <<health, origin, last, first>>
    BY DEF BeginSession, ResetTracker, Datagram
  <1>2. /\ tracker' \in RdtTracker /\ ~ tracker'.hasLast
    BY <1>1 DEF IInv, TypeOK, RdtTracker, RdtReset
  <1>3. health.accepted \in Nat /\ health.lost \in Nat
    BY DEF IInv, TypeOK
  <1>4. TypeOK'
    <2>1. streaming' \in BOOLEAN /\ mixed' \in BOOLEAN
      BY <1>1
    <2>2. pending' \in Nat /\ counted' \in Nat /\ session' \in Nat
      BY <1>1, <1>3 DEF IInv, TypeOK
    <2> QED BY <2>1, <2>2, <1>1, <1>2 DEF IInv, TypeOK
  <1>5. InFlightAgree' /\ BaselineAgrees'
    BY <1>1, <1>2 DEF InFlightAgree, BaselineAgrees
  <1>6. LossIsExact'
    BY <1>1, <1>2, <1>3 DEF LossIsExact, Span
  <1> QED BY <1>4, <1>5, <1>6 DEF IInv

\* Every step of the session keeps the inductive invariant.
LEMMA NextIInv == IInv /\ [Next]_vars => IInv'
  <1> SUFFICES ASSUME IInv, [Next]_vars PROVE IInv'
    OBVIOUS
  <1>1. CASE Send
    BY <1>1, SendIInv
  <1>2. CASE Lose
    BY <1>2, LoseIInv
  <1>3. CASE Receive
    BY <1>3, ReceiveIInv
  <1>4. CASE BeginSession
    BY <1>4, BeginSessionIInv
  <1>5. CASE Bias
    BY <1>5, BiasIInv
  <1>6. CASE SensorRestarts
    BY <1>6, SensorRestartsIInv
  <1>7. CASE UNCHANGED vars
    BY <1>7 DEF vars, IInv, TypeOK, InFlightAgree, BaselineAgrees, Baseline, Agree,
                LossIsExact, Span
  <1> QED BY <1>1, <1>2, <1>3, <1>4, <1>5, <1>6, <1>7 DEF Next

\* The inductive invariant holds in every reachable state.
LEMMA SpecIInv == Spec => []IInv
  BY InitIInv, NextIInv, PTL DEF Spec

-----------------------------------------------------------------------------
\* The state of the sensor, the network and the tracker keeps its type.
THEOREM TypeCorrect == Spec => []TypeOK
  <1>1. IInv => TypeOK
    BY DEF IInv
  <1> QED BY <1>1, SpecIInv, PTL

\* Since the last reset of rdt_sequence_, health_.lost_count and the number of
\* accepted records are exact, whatever the network does and however often the
\* counter wraps, until records of two streams are accepted (handle_record, bias).
THEOREM LossExact == Spec => []LossIsExact
  <1>1. IInv => LossIsExact
    BY DEF IInv
  <1> QED BY <1>1, SpecIInv, PTL

\* Accepted records of a stream have strictly increasing positions between two
\* resets of rdt_sequence_ (receive_session, bias), at any counter width.
THEOREM InOrder == Spec => AcceptedInOrder
  <1> DEFINE Step == health'.accepted > health.accepted /\ tracker.hasLast /\ origin' = origin
                        => last' > last
  <1>1. IInv /\ [Next]_vars => [Step]_vars
    <2> SUFFICES ASSUME IInv, Next PROVE Step
      OBVIOUS
    <2>0. health.accepted \in Nat /\ last \in Nat
      BY DEF IInv, TypeOK
    <2>1. CASE Send \/ Lose \/ BeginSession \/ Bias \/ SensorRestarts
      BY <2>0, <2>1 DEF Send, Lose, BeginSession, Bias, SensorRestarts
    <2>2. CASE Receive
      <3>1. PICK d \in network : Reception(d)
        BY <2>2 DEF Receive, Reception
      <3>2. d.pos \in Nat
        BY DEF IInv, TypeOK, Datagram
      <3>3. Accepted(d) \/ Dropped
        BY <3>1, ReceptionSplits
      <3>4. tracker.hasLast /\ d.stream = origin =>
              (d.pos > last => Accepted(d)) /\ (d.pos <= last => Dropped)
        BY <3>1, ReceiveEffect
      <3> QED BY <2>0, <3>2, <3>3, <3>4 DEF Accepted, Dropped
    <2> QED BY <2>1, <2>2 DEF Next
  <1> QED BY <1>1, SpecIInv, PTL DEF Spec, AcceptedInOrder

\* handle_record() throws away no record that is younger than the last accepted
\* one of its stream, and none that comes first after a reset.
THEOREM DropsAreOld == Spec => DropsOnlyOld
  <1> DEFINE Step == \A d \in network : Drops(d) =>
                        tracker.hasLast /\ (d.stream = origin => d.pos <= last)
  <1>1. IInv /\ [Next]_vars => [Step]_vars
    <2> SUFFICES ASSUME IInv, Next, NEW d \in network, health' # health,
                        health'.accepted = health.accepted, network' = network \ {d}
                 PROVE  tracker.hasLast /\ (d.stream = origin => d.pos <= last)
      BY DEF Drops
    <2>1. Receive
      BY DEF Next, Send, Lose, BeginSession, Bias, SensorRestarts
    <2>2. PICK e \in network, keep \in BOOLEAN :
            network' = (IF keep THEN network ELSE network \ {e}) /\ Reception(e)
      BY <2>1 DEF Receive, Reception
    <2>3. e = d
      BY <2>2
    <2>4. health.accepted \in Nat /\ last \in Nat /\ d.pos \in Nat
      BY DEF IInv, TypeOK, Datagram
    <2>5. ~ Accepted(d)
      BY <2>4 DEF Accepted
    <2>6. tracker.hasLast
      BY <2>2, <2>3, <2>5, ReceptionSplits
    <2>7. d.stream = origin /\ d.pos > last => Accepted(d)
      BY <2>2, <2>3, <2>6, ReceiveEffect
    <2> QED BY <2>4, <2>5, <2>6, <2>7
  <1> QED BY <1>1, SpecIInv, PTL DEF Spec, DropsOnlyOld
=============================================================================
