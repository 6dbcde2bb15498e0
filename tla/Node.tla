-------------------------------- MODULE Node --------------------------------
(***************************************************************************)
(* The standalone nodes (ros1_node.cpp, ros2_node.cpp): construction from  *)
(* the parameters, spin() with the diagnostic timer on the main thread,    *)
(* wrenches published by the client's receiver thread, and the ways main() *)
(* ends.  The bias service only calls bias(), which changes nothing here.  *)
(* Diagnostics is the evaluator and the health it follows; the client is   *)
(* the one of ClientLifecycle, whose stop() returns when the receiver is   *)
(* out of the callback and has ended.                                      *)
(***************************************************************************)
EXTENDS Diagnostics

VARIABLES
    flavour,        \* "ros1" or "ros2": which main() is built
    main,           \* where main() is
    publishers,     \* the publishers exist
    receiver,       \* "none", "running", "publishing", "ended"
    threw,          \* spin() ended with an exception
    code            \* the exit code

nodeVars == <<flavour, main, publishers, receiver, threw, code>>

NodeInit ==
    /\ Init
    /\ flavour \in {"ros1", "ros2"} /\ threw = FALSE
    /\ main = "configure" /\ code = 0
    /\ publishers = FALSE /\ receiver = "none"

-----------------------------------------------------------------------------
(* Construction *)

\* map_adapter_parameters() refuses a parameter: the node does not exist yet.
RefuseParameters ==
    /\ main = "configure" /\ main' = "exited" /\ code' = 2
    /\ UNCHANGED <<vars, flavour, publishers, receiver, threw>>

\* read_config() initializes client and evaluator, the constructor's body makes
\* the publishers and the timer.
Construct ==
    /\ main = "configure" /\ main' = "start"
    /\ publishers' = TRUE
    /\ UNCHANGED <<vars, flavour, receiver, threw, code>>

\* Where an exception takes main(): in ROS 2 it is caught while main() still
\* holds the node, in ROS 1 the node is destroyed on the way out.
Caught == IF flavour = "ros2" THEN "stop" ELSE "unwind"

\* start() creates the receiver, or throws.
Start ==
    /\ main = "start"
    /\ \/ main' = "spin" /\ receiver' = "running" /\ UNCHANGED code
       \/ main' = Caught /\ code' = 2 /\ UNCHANGED receiver
    /\ UNCHANGED <<vars, flavour, publishers, threw>>

-----------------------------------------------------------------------------
(* The receiver thread, and what it does to the health *)

Acquires ==
    /\ receiver = "running" /\ (CounterGrows \/ HealthChanges)
    /\ UNCHANGED nodeVars

PublishBegins ==
    /\ receiver = "running" /\ receiver' = "publishing"
    /\ UNCHANGED <<vars, flavour, main, publishers, threw, code>>

\* publish_wrench() returns, or to_si_sample() throws and the client counts it.
PublishEnds ==
    /\ receiver = "publishing" /\ receiver' = "running"
    /\ \/ UNCHANGED vars
       \/ /\ MapThenSumSet(LAMBDA c : current[c], Counters) < MaxEvents
          /\ current' = [current EXCEPT !["callback_error"] = @ + 1]
          /\ UNCHANGED <<state, status, rateIn, previous, report, seen>>
    /\ UNCHANGED <<flavour, main, publishers, threw, code>>

-----------------------------------------------------------------------------
(* spin(): callbacks run on the main thread, one at a time *)

PublishDiagnostics ==
    /\ main = "spin" /\ Evaluate
    /\ UNCHANGED nodeVars

SpinReturns ==
    /\ main = "spin" /\ main' = "stop"
    /\ UNCHANGED <<vars, flavour, publishers, receiver, threw, code>>

\* An exception leaves a callback and spin().
SpinThrows ==
    /\ main = "spin" /\ main' = Caught
    /\ threw' = TRUE /\ code' = 2
    /\ UNCHANGED <<vars, flavour, publishers, receiver>>

-----------------------------------------------------------------------------
(* The end *)

\* Mutant: stop() does not wait for the receiver.
StopAtOnce ==
    /\ main = "stop" /\ main' = "unwind"
    /\ UNCHANGED <<vars, flavour, publishers, receiver, threw, code>>

\* node.stop(): the receiver is out of publish_wrench() and has ended.
Stop ==
    /\ main = "stop" /\ receiver # "publishing" /\ main' = "unwind"
    /\ receiver' = IF receiver = "none" THEN "none" ELSE "ended"
    /\ state' = IF state = "Faulted" THEN state ELSE "Stopped"
    /\ UNCHANGED <<status, rateIn, current, previous, report, seen, flavour, publishers,
                   threw, code>>

\* The node is destroyed, the last member first: timer, service, publishers.
DestroyPublishers ==
    /\ main = "unwind" /\ main' = "client"
    /\ publishers' = FALSE
    /\ UNCHANGED <<vars, flavour, receiver, threw, code>>

\* Then the client, whose destructor stops it.
DestroyClient ==
    /\ main = "client" /\ receiver # "publishing" /\ main' = "exited"
    /\ receiver' = IF receiver = "none" THEN "none" ELSE "ended"
    /\ UNCHANGED <<vars, flavour, publishers, threw, code>>

NodeNext ==
    \/ RefuseParameters \/ Construct \/ Start
    \/ Acquires \/ PublishBegins \/ PublishEnds
    \/ PublishDiagnostics \/ SpinReturns \/ SpinThrows
    \/ Stop \/ DestroyPublishers \/ DestroyClient

NodeSpec == NodeInit /\ [][NodeNext]_<<vars, nodeVars>>

-----------------------------------------------------------------------------
(* Properties *)

\* The receiver publishes only while the publisher exists, although publishers
\* are destroyed before the client that calls them: stop() comes first.  The
\* exception is a ROS 1 node whose spin() threw, which main() destroys without
\* stopping it.
PublisherOutlivesReceiver ==
    receiver = "publishing" => publishers \/ (flavour = "ros1" /\ threw)
=============================================================================
