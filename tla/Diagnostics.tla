----------------------------- MODULE Diagnostics -----------------------------
(***************************************************************************)
(* DiagnosticEvaluator (ros/diagnostics.cpp): it turns the cumulative      *)
(* counters of successive health snapshots into one report at a time, the  *)
(* gravest condition first.  The client changes its health between any two *)
(* snapshots, in any order.                                                *)
(***************************************************************************)
EXTENDS Naturals, Sequences, FiniteSetsExt

CONSTANTS
    StormThreshold,     \* kMalformedStormThreshold (10)
    MaxEvents           \* bound: events of all kinds together

ASSUME DiagnosticsAssumption == StormThreshold \in Nat \ {0} /\ MaxEvents \in Nat

\* The counters the evaluator follows.
Counters == {"lost", "device_error", "timeout", "malformed", "ft_stall", "ft_backward",
             "ft_restart", "callback_error"}
ErrorCounters == {"device_error", "timeout", "ft_stall", "ft_backward"}

ClientState == {"Stopped", "Connecting", "Streaming", "Backoff", "Faulted"}
Severity == {"Ok", "Warn", "Error"}

VARIABLES
    state,          \* snapshot.state; Faulted exactly when there is a fault code
    status,         \* classify_status(snapshot.last_status)
    rateIn,         \* receive_rate_hz is within the tolerance
    current,        \* the snapshot's counters
    previous,       \* the evaluator's copies
    report,         \* history: the last report
    seen            \* history: the counters at the last report

vars == <<state, status, rateIn, current, previous, report, seen>>

Init ==
    /\ state = "Stopped" /\ status = "Ok" /\ rateIn = FALSE
    /\ current = [c \in Counters |-> 0] /\ previous = [c \in Counters |-> 0]
    /\ report = [level |-> 0, key |-> "none"] /\ seen = [c \in Counters |-> 0]

-----------------------------------------------------------------------------
(* The client (see RecordPath and ClientLifecycle) *)

CounterGrows ==
    /\ MapThenSumSet(LAMBDA c : current[c], Counters) < MaxEvents
    /\ \E c \in Counters : current' = [current EXCEPT ![c] = @ + 1]
    /\ UNCHANGED <<state, status, rateIn, previous, report, seen>>

HealthChanges ==
    /\ \/ state' \in ClientState /\ UNCHANGED <<status, rateIn>>
       \/ status' \in Severity /\ UNCHANGED <<state, rateIn>>
       \/ rateIn' = ~ rateIn /\ UNCHANGED <<state, status>>
    /\ UNCHANGED <<current, previous, report, seen>>

-----------------------------------------------------------------------------
(* The evaluator *)

Delta(c) == IF current[c] >= previous[c] THEN current[c] - previous[c] ELSE 0

Entry(holds, level, key) == [holds |-> holds, level |-> level, key |-> key]

\* Mutant: the client's state is looked at before the events.
ConditionsStateFirst ==
    << Entry(state = "Faulted", 2, "faulted"),
       Entry(state = "Backoff", 2, "backoff"),
       Entry(state = "Stopped", 2, "stopped"),
       Entry(status = "Error", 2, "device_error"),
       Entry(state = "Connecting", 1, "connecting"),
       Entry(Delta("device_error") # 0, 2, "device_error_event"),
       Entry(Delta("timeout") # 0, 2, "receive_timeout"),
       Entry(Delta("malformed") >= StormThreshold, 2, "malformed_storm"),
       Entry(Delta("ft_stall") # 0, 2, "ft_stall"),
       Entry(Delta("ft_backward") # 0, 2, "ft_backward"),
       Entry(status = "Warn", 1, "condition_latch"),
       Entry(Delta("ft_restart") # 0, 1, "ft_restart"),
       Entry(Delta("lost") # 0, 1, "packet_loss"),
       Entry(~ rateIn, 1, "receive_rate"),
       Entry(Delta("callback_error") # 0, 1, "callback_error"),
       Entry(TRUE, 0, "healthy") >>

\* The conditions in the order evaluate() tests them.
Conditions ==
    << Entry(state = "Faulted", 2, "faulted"),
       Entry(state = "Backoff", 2, "backoff"),
       Entry(state = "Stopped", 2, "stopped"),
       Entry(status = "Error", 2, "device_error"),
       Entry(Delta("device_error") # 0, 2, "device_error_event"),
       Entry(Delta("timeout") # 0, 2, "receive_timeout"),
       Entry(Delta("malformed") >= StormThreshold, 2, "malformed_storm"),
       Entry(Delta("ft_stall") # 0, 2, "ft_stall"),
       Entry(Delta("ft_backward") # 0, 2, "ft_backward"),
       Entry(state = "Connecting", 1, "connecting"),
       Entry(status = "Warn", 1, "condition_latch"),
       Entry(Delta("ft_restart") # 0, 1, "ft_restart"),
       Entry(Delta("lost") # 0, 1, "packet_loss"),
       Entry(~ rateIn, 1, "receive_rate"),
       Entry(Delta("callback_error") # 0, 1, "callback_error"),
       Entry(TRUE, 0, "healthy") >>

\* Mutant: only the counters of the condition that is reported are consumed.
ConsumedByReport(key) ==
    IF key \in {"healthy", "packet_loss"} THEN current ELSE previous

\* The copies after a report: a fault returns before they are updated, every
\* other report consumes all the deltas, also those it does not mention.
Consumed(key) == IF key = "faulted" THEN previous ELSE current

\* What evaluate() reports: the first condition that holds.
Chosen ==
    LET conditions == Conditions
    IN  conditions[CHOOSE i \in DOMAIN conditions :
                       conditions[i].holds /\ \A j \in 1 .. i - 1 : ~ conditions[j].holds]

Evaluate ==
    /\ report' = [level |-> Chosen.level, key |-> Chosen.key]
    /\ previous' = Consumed(Chosen.key)
    /\ seen' = current
    /\ UNCHANGED <<state, status, rateIn, current>>

Next == CounterGrows \/ HealthChanges \/ Evaluate

Spec == Init /\ [][Next]_vars

-----------------------------------------------------------------------------
(* Properties *)

Happened(c) == current[c] # seen[c]

\* Whatever else is going on, the next report is an error if a device error, a
\* timeout, an FT discontinuity or a malformed storm happened since the report
\* before, and at least a warning if a restart, a loss or a callback error did:
\* no event is masked by a lesser condition and then consumed.
NothingMissed ==
    /\ (\E c \in ErrorCounters : Happened(c)) => Chosen.level = 2
    /\ current["malformed"] - seen["malformed"] >= StormThreshold => Chosen.level = 2
    /\ (\E c \in {"lost", "ft_restart", "callback_error"} : Happened(c)) => Chosen.level >= 1

\* Alarms end: a healthy stream without new events since a report other than a
\* fault is reported as healthy, whatever that report chose to mention.
AlarmsEnd ==
    (/\ report.key \notin {"faulted", "none"}
     /\ state = "Streaming" /\ status = "Ok" /\ rateIn
     /\ \A c \in Counters : ~ Happened(c))
        => Chosen.key = "healthy"
=============================================================================
