------------------------------ MODULE CheckTool ------------------------------
(***************************************************************************)
(* netft_check (check_main.cpp): a bounded acquisition whose report may    *)
(* replace a file.  Each instance has a main thread and, in its client, a  *)
(* receiver thread that calls the sample slot.  Several instances may      *)
(* write the same file, SIGINT may arrive at any time, and so may SIGKILL. *)
(* The client is the one of ClientLifecycle: stop() returns once the       *)
(* receiver has returned from its callback and ended.                      *)
(***************************************************************************)
EXTENDS Naturals, FiniteSetsExt

CONSTANTS
    Process,            \* the instances of netft_check
    FirstDeadline,      \* max(1 s, 5 * receive_timeout), in ticks
    Duration,           \* --duration, in ticks
    MaxSamples          \* bound: records per instance

ASSUME CheckAssumption ==
    /\ FirstDeadline \in Nat \ {0} /\ Duration \in Nat \ {0} /\ MaxSamples \in Nat

VARIABLES
    pc,             \* where main() is
    output,         \* options.output has a value
    interrupted,    \* the flag set by handle_interrupt(), while it is looked at
    age,            \* ticks since `started'; 0 again when run_check() is left
    receiver,       \* "none", "running", "storing", "ended"
    slot,           \* the LastSampleSlot exists
    health,         \* the client's counters, as far as the verdict needs them
    report,         \* Result, as it is serialized and judged
    code,           \* the exit code
    temporary,      \* the instance's temporary file
    file            \* the file named by --output

threads == <<age, receiver, slot, health>>
disk == <<temporary, file>>
vars == <<pc, output, interrupted, threads, report, code, disk>>

NoHealth == [samples |-> 0, flawed |-> FALSE]

Init ==
    /\ pc = [p \in Process |-> "parse"] /\ output = [p \in Process |-> FALSE]
    /\ interrupted = [p \in Process |-> FALSE] /\ age = [p \in Process |-> 0]
    /\ receiver = [p \in Process |-> "none"] /\ slot = [p \in Process |-> FALSE]
    /\ health = [p \in Process |-> NoHealth] /\ report = [p \in Process |-> NoHealth]
    /\ code = [p \in Process |-> 0]
    /\ temporary = [p \in Process |-> "absent"] /\ file = [content |-> "old"]

Goto(p, where) == pc' = [pc EXCEPT ![p] = where]

Exit(p, with) == Goto(p, "exited") /\ code' = [code EXCEPT ![p] = with]

-----------------------------------------------------------------------------
(* The environment and the client's receiver thread *)

Alive(p) == pc[p] \notin {"exited", "killed"}

\* SIGINT while the flag is still looked at.
Interrupt(p) ==
    /\ pc[p] \in {"parse", "first", "second"} /\ ~ interrupted[p]
    /\ interrupted' = [interrupted EXCEPT ![p] = TRUE]
    /\ UNCHANGED <<pc, output, threads, report, code, disk>>

\* SIGKILL, or the process crashes: its memory is gone, nothing is cleaned up.
Kill(p) ==
    /\ Alive(p) /\ Goto(p, "killed")
    /\ receiver' = [receiver EXCEPT ![p] = "ended"]
    /\ slot' = [slot EXCEPT ![p] = FALSE]
    /\ health' = [health EXCEPT ![p] = NoHealth] /\ report' = [report EXCEPT ![p] = NoHealth]
    /\ age' = [age EXCEPT ![p] = 0] /\ interrupted' = [interrupted EXCEPT ![p] = FALSE]
    /\ output' = [output EXCEPT ![p] = FALSE]
    /\ UNCHANGED <<code, disk>>

Tick(p) ==
    /\ pc[p] \in {"first", "second"} /\ age[p] < Max({FirstDeadline, Duration})
    /\ age' = [age EXCEPT ![p] = @ + 1]
    /\ UNCHANGED <<pc, output, interrupted, receiver, slot, health, report, code, disk>>

\* A record is counted, with its warning or device error, then delivered.
ReceiverCounts(p) ==
    /\ receiver[p] = "running" /\ health[p].samples < MaxSamples
    /\ \E flawed \in {health[p].flawed, TRUE} :
        health' = [health EXCEPT ![p] = [samples |-> @.samples + 1, flawed |-> flawed]]
    /\ receiver' = [receiver EXCEPT ![p] = "storing"]
    /\ UNCHANGED <<pc, output, interrupted, age, slot, report, code, disk>>

\* The callback: LastSampleSlot::store().
ReceiverStores(p) ==
    /\ receiver[p] = "storing" /\ receiver' = [receiver EXCEPT ![p] = "running"]
    /\ UNCHANGED <<pc, output, interrupted, age, slot, health, report, code, disk>>

\* The client faults, which with the default policy only an exception can do.
ReceiverFaults(p) ==
    /\ receiver[p] = "running" /\ receiver' = [receiver EXCEPT ![p] = "ended"]
    /\ UNCHANGED <<pc, output, interrupted, age, slot, health, report, code, disk>>

-----------------------------------------------------------------------------
(* main() and run_check() *)

\* parse_options(): --help ends it wherever it is reached; an unknown option, a
\* missing or malformed value, a lone scale, a duration that is not positive
\* and a configuration that validate() refuses throw before anything starts.
ParseOptions(p) ==
    /\ pc[p] = "parse"
    /\ \/ Exit(p, 0) /\ UNCHANGED <<output, receiver, slot>>
       \/ Exit(p, 2) /\ UNCHANGED <<output, receiver, slot>>
       \/ /\ \E wanted \in BOOLEAN : output' = [output EXCEPT ![p] = wanted]
          /\ slot' = [slot EXCEPT ![p] = TRUE]
          /\ \/ /\ receiver' = [receiver EXCEPT ![p] = "running"]
                /\ Goto(p, "first") /\ UNCHANGED code
             \/ Goto(p, "unwind") /\ UNCHANGED <<receiver, code>>  \* start() throws
    /\ UNCHANGED <<interrupted, age, health, report, disk>>

\* Mutant: the wait for the first sample has no deadline.
FirstLoopPatient(p) ==
    /\ pc[p] = "first"
    /\ \/ health[p].samples > 0 /\ Goto(p, "second")
       \/ health[p].samples = 0 /\ (interrupted[p] \/ receiver[p] = "ended") /\ Goto(p, "unwind")
    /\ UNCHANGED <<output, interrupted, threads, report, code, disk>>

\* A pass of the first loop that does not wait: a record was counted, or the
\* loop throws because of SIGINT, a fault or the first deadline.
FirstLoop(p) ==
    /\ pc[p] = "first"
    /\ \/ health[p].samples > 0 /\ Goto(p, "second")
       \/ /\ health[p].samples = 0
          /\ interrupted[p] \/ receiver[p] = "ended" \/ age[p] >= FirstDeadline
          /\ Goto(p, "unwind")
    /\ UNCHANGED <<output, interrupted, threads, report, code, disk>>

\* The second loop ends with the duration or with SIGINT; faults are ignored.
SecondLoop(p) ==
    /\ pc[p] = "second"
    /\ \/ age[p] >= Duration /\ Goto(p, "stop")
       \/ age[p] < Duration /\ interrupted[p] /\ Goto(p, "unwind")
    /\ UNCHANGED <<output, interrupted, threads, report, code, disk>>

\* Mutant: the health snapshot is taken before the client is stopped.
StopAfterSnapshot(p) ==
    /\ pc[p] = "stop"
    /\ report' = [report EXCEPT ![p] = health[p]]
    /\ Goto(p, "serialize")
    /\ UNCHANGED <<output, interrupted, threads, code, disk>>

\* client.stop(), then the snapshot; the locals are destroyed on return.
StopAndSnapshot(p) ==
    /\ pc[p] = "stop" /\ receiver[p] # "storing"
    /\ receiver' = [receiver EXCEPT ![p] = "ended"]
    /\ report' = [report EXCEPT ![p] = health[p]]
    /\ slot' = [slot EXCEPT ![p] = FALSE]
    /\ Goto(p, "serialize")
    /\ age' = [age EXCEPT ![p] = 0] /\ interrupted' = [interrupted EXCEPT ![p] = FALSE]
    /\ UNCHANGED <<output, health, code, disk>>

\* Mutant: the slot is declared after the client and nothing stops the client
\* when an exception leaves run_check(): the slot goes first.
UnwindSlotFirst(p) ==
    /\ pc[p] = "unwind"
    /\ \/ slot[p] /\ slot' = [slot EXCEPT ![p] = FALSE] /\ UNCHANGED <<pc, code, receiver>>
       \/ /\ ~ slot[p] /\ receiver[p] # "storing" /\ UNCHANGED slot
          /\ receiver' = [receiver EXCEPT ![p] = "ended"]
          /\ Exit(p, 2)
    /\ UNCHANGED <<output, interrupted, age, health, report, disk>>

\* An exception leaves run_check(): the scope guard stops the client, then the
\* client and after it the slot are destroyed; main() returns 2.
Unwind(p) ==
    /\ pc[p] = "unwind" /\ receiver[p] # "storing"
    /\ receiver' = [receiver EXCEPT ![p] = "ended"]
    /\ slot' = [slot EXCEPT ![p] = FALSE]
    /\ Exit(p, 2)
    /\ age' = [age EXCEPT ![p] = 0] /\ interrupted' = [interrupted EXCEPT ![p] = FALSE]
    /\ UNCHANGED <<output, health, report, disk>>

\* serialize(): to_si_sample() throws when the last sample overflows.
Serialize(p) ==
    /\ pc[p] = "serialize"
    /\ \/ Exit(p, 2)
       \/ Goto(p, IF output[p] THEN "create" ELSE "print") /\ UNCHANGED code
    /\ UNCHANGED <<output, interrupted, threads, report, disk>>

-----------------------------------------------------------------------------
(* write_output() *)

\* Mutant: the report is written to the file itself.
CreateInPlace(p) ==
    /\ pc[p] = "create"
    /\ Goto(p, "write") /\ file' = [content |-> "partial"]
    /\ UNCHANGED <<output, interrupted, threads, report, code, temporary>>

\* mkstemp() in the file's directory.
Create(p) ==
    /\ pc[p] = "create"
    /\ \/ Exit(p, 2) /\ UNCHANGED temporary
       \/ /\ Goto(p, "write") /\ UNCHANGED code
          /\ temporary' = [temporary EXCEPT ![p] = "partial"]
    /\ UNCHANGED <<output, interrupted, threads, report, file>>

\* fdopen(), fwrite(), fputc() and fclose(), any of which may fail.
Write(p) ==
    /\ pc[p] = "write"
    /\ \/ Goto(p, "fail") /\ UNCHANGED temporary
       \/ Goto(p, "rename") /\ temporary' = [temporary EXCEPT ![p] = "whole"]
    /\ UNCHANGED <<output, interrupted, threads, report, code, file>>

\* rename() moves the whole report into place, or throws.  After a success the scope
\* guard's remove() of the temporary name finds it gone: both are one step here, since
\* no other instance draws the same random name from mkstemp() in between.
Rename(p) ==
    /\ pc[p] = "rename"
    /\ \/ Goto(p, "fail") /\ UNCHANGED disk
       \/ /\ Goto(p, "print")
          /\ file' = IF temporary[p] = "whole"
                      THEN [content |-> "report", by |-> p, verdict |-> report[p]]
                      ELSE [content |-> "partial"]
          /\ temporary' = [temporary EXCEPT ![p] = "absent"]
    /\ UNCHANGED <<output, interrupted, threads, report, code>>

\* The scope guard removes the temporary file; main() returns 2.
WriteFails(p) ==
    /\ pc[p] = "fail" /\ Exit(p, 2)
    /\ temporary' = [temporary EXCEPT ![p] = "absent"]
    /\ UNCHANGED <<output, interrupted, threads, report, file>>

\* The verdict on the report that was printed.
Verdict(r) == IF r.samples > 0 /\ ~ r.flawed THEN 0 ELSE 1

PrintAndExit(p) ==
    /\ pc[p] = "print" /\ Exit(p, Verdict(report[p]))
    /\ UNCHANGED <<output, interrupted, threads, report, disk>>

Main(p) ==
    \/ ParseOptions(p) \/ FirstLoop(p) \/ SecondLoop(p) \/ StopAndSnapshot(p) \/ Unwind(p)
    \/ Serialize(p) \/ Create(p) \/ Write(p) \/ Rename(p) \/ WriteFails(p) \/ PrintAndExit(p)

Next ==
    \E p \in Process :
        \/ Interrupt(p) \/ Kill(p) \/ Tick(p)
        \/ ReceiverCounts(p) \/ ReceiverStores(p) \/ ReceiverFaults(p)
        \/ Main(p)

\* The main thread and a callback that was entered make progress, time passes.
Fairness ==
    \A p \in Process : WF_vars(Main(p)) /\ WF_vars(Tick(p)) /\ WF_vars(ReceiverStores(p))

Spec == Init /\ [][Next]_vars /\ Fairness

-----------------------------------------------------------------------------
(* Properties *)

Health == [samples : 0 .. MaxSamples, flawed : BOOLEAN]

\* Every value has its type; the file is what was there or a report.
TypeOK ==
    /\ pc \in [Process -> {"parse", "first", "second", "stop", "unwind", "serialize", "create",
                           "write", "rename", "fail", "print", "exited", "killed"}]
    /\ output \in [Process -> BOOLEAN] /\ interrupted \in [Process -> BOOLEAN]
    /\ age \in [Process -> Nat] /\ slot \in [Process -> BOOLEAN]
    /\ receiver \in [Process -> {"none", "running", "storing", "ended"}]
    /\ health \in [Process -> Health] /\ report \in [Process -> Health]
    /\ code \in [Process -> 0 .. 2]
    /\ temporary \in [Process -> {"absent", "partial", "whole"}]
    /\ file \in {[content |-> "old"]}
                    \cup [content : {"report"}, by : Process, verdict : Health]

\* Whoever reads the file sees what was there before or one whole report of an
\* instance that acquired samples, whichever instance is killed or fails where,
\* and however two of them overlap; and whoever was not killed leaves no
\* temporary file behind.
FileIsWhole ==
    /\ \/ file.content = "old"
       \/ /\ file.content = "report" /\ file.verdict.samples > 0
          /\ pc[file.by] = "exited" => code[file.by] = Verdict(file.verdict)
    /\ \A p \in Process : pc[p] = "exited" => temporary[p] = "absent"

\* The exit code and the report are about the whole acquisition: no record is
\* counted after the snapshot they are taken from.
ReportIsFinal ==
    \A p \in Process : pc[p] = "exited" /\ receiver[p] # "none" /\ code[p] # 2
                          => report[p] = health[p]

\* The receiver never calls a slot that is gone, on whichever path run_check()
\* is left.
SlotOutlivesReceiver == \A p \in Process : receiver[p] = "storing" => slot[p]

\* docs/architecture.md: the acquisition is bounded.  Every instance ends, also
\* without a single record, without SIGINT and with a client that faults late.
Bounded == \A p \in Process : <>(~ Alive(p))
=============================================================================
