----------------------------- MODULE Node_proof -----------------------------
(***************************************************************************)
(* For every storm threshold and any number of events: the evaluator of a  *)
(* running node masks no event and ends its alarms, and the receiver never *)
(* publishes through a publisher that is gone.                             *)
(***************************************************************************)
EXTENDS Node, TLAPS

\* The evaluator's copies lag behind the last report, and the last report
\* behind the health; only after a fault do copies and report differ.
CopiesLag ==
    /\ current \in [Counters -> Nat] /\ previous \in [Counters -> Nat]
    /\ seen \in [Counters -> Nat]
    /\ \A c \in Counters : previous[c] <= seen[c] /\ seen[c] <= current[c]
    /\ report.key \notin {"faulted", "none"} => previous = seen

\* The publishers exist from the constructor to the destructor, and the receiver
\* has ended before the destructor runs, unless spin() threw in ROS 1.
ReceiverWithinNode ==
    /\ main \in {"configure", "start"} => receiver = "none"
    /\ main \in {"start", "spin", "stop"} => publishers
    /\ main \in {"unwind", "client"} => receiver \in {"none", "ended"}
                                          \/ (flavour = "ros1" /\ threw)
    /\ main = "exited" => receiver \in {"none", "ended"}
    /\ main \in {"configure", "start", "spin", "stop", "unwind", "client", "exited"}
    /\ flavour \in {"ros1", "ros2"}

IInv == CopiesLag /\ ReceiverWithinNode

-----------------------------------------------------------------------------
(* The ladder *)

\* Sixteen conditions, the last of which always holds.
LEMMA ConditionsShape ==
    /\ DOMAIN Conditions = 1 .. 16
    /\ Conditions[16].holds
  BY DEF Conditions, Entry

\* evaluate() reports a condition that holds when none above it does.
LEMMA ChosenIsFirst ==
    \E i \in 1 .. 16 : /\ Chosen = Conditions[i] /\ Conditions[i].holds
                       /\ \A j \in 1 .. i - 1 : ~ Conditions[j].holds
  <1> DEFINE First(i) == Conditions[i].holds /\ \A j \in 1 .. i - 1 : ~ Conditions[j].holds
  <1>1. \E i \in 1 .. 16 : First(i)
    <2> DEFINE H(i) == Conditions[i].holds
    <2> HIDE DEF H
    <2>1. H(16)
      BY ConditionsShape DEF H
    <2>2. \E i \in 1 .. 16 : H(i) /\ \A j \in 1 .. i - 1 : ~ H(j)
      BY <2>1
    <2> QED BY <2>2 DEF H
  <1>2. First(CHOOSE i \in 1 .. 16 : First(i)) /\ (CHOOSE i \in 1 .. 16 : First(i)) \in 1 .. 16
    BY <1>1
  <1>3. Chosen = Conditions[CHOOSE i \in 1 .. 16 : First(i)]
    BY ConditionsShape DEF Chosen
  <1> QED BY <1>2, <1>3
\* The first nine conditions are errors, the next six warnings.
LEMMA Levels ==
    /\ \A i \in 1 .. 9 : Conditions[i].level = 2
    /\ \A i \in 10 .. 15 : Conditions[i].level = 1
    /\ Conditions[16].key = "healthy"
  BY DEF Conditions, Entry

\* An error that holds is never hidden by what is tested before it.
LEMMA ErrorIsChosen ==
    ASSUME NEW i \in 1 .. 9, Conditions[i].holds
    PROVE  Chosen.level = 2
  BY ChosenIsFirst, Levels

\* Nor is a warning, except by an error.
LEMMA WarningIsChosen ==
    ASSUME NEW i \in 1 .. 15, Conditions[i].holds
    PROVE  Chosen.level >= 1
  BY ChosenIsFirst, Levels

\* Without any of them the report is a healthy one.
LEMMA HealthyIsChosen ==
    ASSUME \A i \in 1 .. 15 : ~ Conditions[i].holds
    PROVE  Chosen.key = "healthy"
  BY ChosenIsFirst, Levels

\* What each condition looks at.
LEMMA ConditionsTest ==
    /\ Conditions[1].holds <=> state = "Faulted"
    /\ Conditions[2].holds <=> state = "Backoff"
    /\ Conditions[3].holds <=> state = "Stopped"
    /\ Conditions[4].holds <=> status = "Error"
    /\ Conditions[5].holds <=> Delta("device_error") # 0
    /\ Conditions[6].holds <=> Delta("timeout") # 0
    /\ Conditions[7].holds <=> Delta("malformed") >= StormThreshold
    /\ Conditions[8].holds <=> Delta("ft_stall") # 0
    /\ Conditions[9].holds <=> Delta("ft_backward") # 0
    /\ Conditions[10].holds <=> state = "Connecting"
    /\ Conditions[11].holds <=> status = "Warn"
    /\ Conditions[12].holds <=> Delta("ft_restart") # 0
    /\ Conditions[13].holds <=> Delta("lost") # 0
    /\ Conditions[14].holds <=> ~ rateIn
    /\ Conditions[15].holds <=> Delta("callback_error") # 0
  BY DEF Conditions, Entry

\* An event since the last report is an event since the copies were taken.
LEMMA HappenedCounts ==
    ASSUME CopiesLag, NEW c \in Counters
    PROVE  /\ Delta(c) \in Nat
           /\ Delta(c) >= current[c] - seen[c]
           /\ Happened(c) => Delta(c) # 0
  BY DEF CopiesLag, Delta, Happened

-----------------------------------------------------------------------------
\* The inductive invariant holds when the program begins.
LEMMA InitIInv == NodeInit => IInv
  BY DEF NodeInit, Init, IInv, CopiesLag, ReceiverWithinNode

\* One more event of one kind keeps the copies behind.
LEMMA GrowsLag ==
    ASSUME CopiesLag, NEW c \in Counters, current' = [current EXCEPT ![c] = @ + 1],
           UNCHANGED <<previous, report, seen>>
    PROVE  CopiesLag'
  BY DEF CopiesLag

\* A report takes all counters over, or none of them if it is about a fault.
LEMMA EvaluateLag == CopiesLag /\ Evaluate => CopiesLag'
  BY DEF CopiesLag, Evaluate, Consumed

\* Every step of node, client and evaluator keeps the invariant.
LEMMA NextIInv == IInv /\ [NodeNext]_<<vars, nodeVars>> => IInv'
  <1> SUFFICES ASSUME IInv, [NodeNext]_<<vars, nodeVars>> PROVE IInv'
    OBVIOUS
  <1> USE DEF vars, nodeVars
  <1>1. ASSUME UNCHANGED <<current, previous, report, seen>>
        PROVE  CopiesLag'
    BY <1>1 DEF IInv, CopiesLag
  <1>2. CASE RefuseParameters \/ Construct \/ Start \/ SpinReturns \/ SpinThrows
    BY <1>1, <1>2 DEF IInv, ReceiverWithinNode, RefuseParameters, Construct, Start, SpinReturns,
       SpinThrows, Caught
  <1>3. CASE Stop \/ DestroyPublishers \/ DestroyClient
    BY <1>1, <1>3 DEF IInv, ReceiverWithinNode, Stop, DestroyPublishers, DestroyClient
  <1>4. CASE Acquires
    <2>1. CASE CounterGrows
      BY <1>4, <2>1, GrowsLag DEF IInv, ReceiverWithinNode, Acquires, CounterGrows
    <2>2. CASE HealthChanges
      BY <1>1, <1>4, <2>2 DEF IInv, ReceiverWithinNode, Acquires, HealthChanges
    <2> QED BY <1>4, <2>1, <2>2 DEF Acquires
  <1>5. CASE PublishBegins
    BY <1>1, <1>5 DEF IInv, ReceiverWithinNode, PublishBegins
  <1>6. CASE PublishEnds
    <2>1. ReceiverWithinNode'
      BY <1>6 DEF IInv, ReceiverWithinNode, PublishEnds
    <2>2. CopiesLag'
      BY <1>1, <1>6, GrowsLag DEF IInv, PublishEnds, Counters
    <2> QED BY <2>1, <2>2 DEF IInv
  <1>7. CASE PublishDiagnostics
    BY <1>7, EvaluateLag DEF IInv, ReceiverWithinNode, PublishDiagnostics
  <1>8. CASE UNCHANGED <<vars, nodeVars>>
    BY <1>1, <1>8 DEF IInv, ReceiverWithinNode
  <1> QED
    BY <1>2, <1>3, <1>4, <1>5, <1>6, <1>7, <1>8 DEF NodeNext

\* The inductive invariant holds in every reachable state.
LEMMA Invariance == NodeSpec => []IInv
  BY InitIInv, NextIInv, PTL DEF NodeSpec

-----------------------------------------------------------------------------
\* Whatever happens between two reports of a node, and whatever condition
\* evaluate() stops at, the next report is at least as grave as the event.
THEOREM NoEventIsMasked == NodeSpec => []NothingMissed
  <1>1. ASSUME CopiesLag PROVE NothingMissed
    <2>1. ASSUME NEW c \in ErrorCounters, Happened(c) PROVE Chosen.level = 2
      <3>1. c \in Counters /\ c \in {"device_error", "timeout", "ft_stall", "ft_backward"}
        BY DEF Counters, ErrorCounters
      <3>2. Delta(c) # 0
        BY <1>1, <2>1, <3>1, HappenedCounts
      <3>3. \E i \in 1 .. 9 : Conditions[i].holds
        BY <3>1, <3>2, ConditionsTest
      <3> QED BY <3>3, ErrorIsChosen
    <2>2. ASSUME current["malformed"] - seen["malformed"] >= StormThreshold
          PROVE  Chosen.level = 2
      <3>1. Delta("malformed") >= StormThreshold
        BY <1>1, <2>2, HappenedCounts, DiagnosticsAssumption DEF Counters, CopiesLag
      <3>2. \E i \in 1 .. 9 : Conditions[i].holds
        BY <3>1, ConditionsTest
      <3> QED BY <3>2, ErrorIsChosen
    <2>3. ASSUME NEW c \in {"lost", "ft_restart", "callback_error"}, Happened(c)
          PROVE  Chosen.level >= 1
      <3>1. Delta(c) # 0
        BY <1>1, <2>3, HappenedCounts DEF Counters
      <3>2. \E i \in 1 .. 15 : Conditions[i].holds
        BY <2>3, <3>1, ConditionsTest
      <3> QED BY <3>2, WarningIsChosen
    <2> QED BY <2>1, <2>2, <2>3 DEF NothingMissed
  <1> QED BY <1>1, Invariance, PTL DEF IInv

\* A healthy stream without new events is reported as healthy again, whatever
\* the report before chose to mention, unless that was a fault.
THEOREM AlarmsDoEnd == NodeSpec => []AlarmsEnd
  <1>1. ASSUME CopiesLag PROVE AlarmsEnd
    <2> SUFFICES ASSUME report.key \notin {"faulted", "none"}, state = "Streaming",
                        status = "Ok", rateIn, \A c \in Counters : ~ Happened(c)
                 PROVE  Chosen.key = "healthy"
      BY DEF AlarmsEnd
    <2>1. \A c \in Counters : Delta(c) = 0
      BY <1>1 DEF CopiesLag, Happened, Delta
    <2>2. ~ (Delta("malformed") >= StormThreshold)
      BY <2>1, DiagnosticsAssumption DEF Counters
    <2>3. \A i \in 1 .. 15 : ~ Conditions[i].holds
      BY <2>1, <2>2, ConditionsTest DEF Counters
    <2> QED BY <2>3, HealthyIsChosen
  <1> QED BY <1>1, Invariance, PTL DEF IInv

\* However main() ends, the receiver is out of the publisher before it is gone,
\* but for a ROS 1 node whose spin() threw.
THEOREM PublisherIsSafe == NodeSpec => []PublisherOutlivesReceiver
  <1>1. IInv => PublisherOutlivesReceiver
    BY DEF IInv, ReceiverWithinNode, PublisherOutlivesReceiver
  <1> QED BY <1>1, Invariance, PTL
=============================================================================
