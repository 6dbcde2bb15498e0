-------------------------- MODULE CheckTool_proof --------------------------
(***************************************************************************)
(* For any number of instances of netft_check that share their output      *)
(* file, killed or failing anywhere: the file is always whole, reports are *)
(* final, and the receiver never calls a slot that is gone.                *)
(***************************************************************************)
EXTENDS CheckTool, TLAPS

\* Instance p is inside run_check(), or has got past it with a snapshot.
Running(p) == pc[p] \in {"first", "second", "stop", "unwind"}
Judged(p) == pc[p] \in {"serialize", "create", "write", "rename", "fail", "print"}

\* The receiver lives within run_check(), and the slot at least as long.
ReceiverWithinRun ==
    \A p \in Process :
        /\ receiver[p] \in {"running", "storing"} => slot[p] /\ Running(p)
        /\ slot[p] => Running(p)
        /\ pc[p] = "parse" => receiver[p] = "none"

\* What is judged and written is the health of an acquisition that has ended
\* and has seen a record.
SnapshotIsFinal ==
    \A p \in Process :
        /\ pc[p] \in {"second", "stop"} => health[p].samples > 0
        /\ Judged(p) => report[p] = health[p] /\ report[p].samples > 0

\* A temporary file exists only while write_output() has it in hand, unless the
\* instance was killed there, and what is renamed is whole.
TemporaryInHand ==
    \A p \in Process :
        /\ temporary[p] # "absent" => pc[p] \in {"write", "rename", "fail", "killed"}
        /\ pc[p] = "rename" => temporary[p] = "whole"

\* Whoever wrote the file has only its verdict left to return, and the file has
\* the report that verdict is about.
WriterIsDone ==
    file.content = "report" =>
        /\ file.by \in Process /\ file.verdict.samples > 0
        /\ pc[file.by] \in {"print", "exited", "killed"}
        /\ pc[file.by] = "print" => file.verdict = report[file.by]
        /\ pc[file.by] = "exited" => code[file.by] = Verdict(file.verdict)

IInv ==
    /\ TypeOK /\ ReceiverWithinRun /\ SnapshotIsFinal /\ TemporaryInHand /\ WriterIsDone
    /\ ReportIsFinal

-----------------------------------------------------------------------------
\* No instance has started anything.
LEMMA InitIInv == Init => IInv
  BY CheckAssumption DEF Init, IInv, TypeOK, Health, NoHealth, ReceiverWithinRun, SnapshotIsFinal,
     TemporaryInHand, WriterIsDone, ReportIsFinal, Running, Judged

\* Every step keeps the inductive invariant.
LEMMA NextIInv == IInv /\ [Next]_vars => IInv'
  <1> SUFFICES ASSUME IInv, [Next]_vars PROVE IInv'
    OBVIOUS
  <1> USE CheckAssumption DEF threads, disk, Goto, Exit
  <1>1. ASSUME NEW p \in Process, Interrupt(p) PROVE IInv'
    BY <1>1 DEF IInv, Interrupt, TypeOK, Health, NoHealth, ReceiverWithinRun, SnapshotIsFinal,
        TemporaryInHand, WriterIsDone, ReportIsFinal, Running, Judged
  <1>2. ASSUME NEW p \in Process, Kill(p) PROVE IInv'
    <2>1. TypeOK'
      BY <1>2 DEF IInv, Kill, TypeOK, Health, NoHealth, Verdict
    <2>2. ReceiverWithinRun'
      BY <1>2 DEF IInv, Kill, TypeOK, ReceiverWithinRun, Running
    <2>3. SnapshotIsFinal'
      BY <1>2 DEF IInv, Kill, TypeOK, ReceiverWithinRun, SnapshotIsFinal, Running, Judged, Health
    <2>4. TemporaryInHand'
      BY <1>2 DEF IInv, Kill, TypeOK, TemporaryInHand
    <2>5. WriterIsDone'
      BY <1>2 DEF IInv, Kill, TypeOK, WriterIsDone, SnapshotIsFinal, TemporaryInHand, Judged
    <2>6. ReportIsFinal'
      BY <1>2 DEF IInv, Kill, TypeOK, ReportIsFinal, ReceiverWithinRun, SnapshotIsFinal,
         Running, Judged
    <2> QED BY <2>1, <2>2, <2>3, <2>4, <2>5, <2>6 DEF IInv
  <1>3. ASSUME NEW p \in Process, Tick(p) PROVE IInv'
    BY <1>3 DEF IInv, Tick, TypeOK, Health, NoHealth, ReceiverWithinRun, SnapshotIsFinal,
        TemporaryInHand, WriterIsDone, ReportIsFinal, Running, Judged
  <1>4. ASSUME NEW p \in Process, ReceiverCounts(p) PROVE IInv'
    <2>1. TypeOK'
      <3>1. PICK flawed \in {health[p].flawed, TRUE} :
              health' = [health EXCEPT ![p] = [samples |-> @.samples + 1, flawed |-> flawed]]
        BY <1>4 DEF ReceiverCounts
      <3>2. health[p] \in Health /\ health[p].samples < MaxSamples
        BY <1>4 DEF IInv, TypeOK, ReceiverCounts
      <3>3. [samples |-> health[p].samples + 1, flawed |-> flawed] \in Health
        <4>1. flawed \in BOOLEAN
          BY <3>1, <3>2 DEF Health
        <4>2. health[p].samples + 1 \in 0 .. MaxSamples
          BY <3>2 DEF Health
        <4> QED BY <4>1, <4>2 DEF Health
      <3> QED BY <3>1, <3>3, <1>4 DEF IInv, ReceiverCounts, TypeOK
    <2>2. ReceiverWithinRun'
      BY <1>4 DEF IInv, ReceiverCounts, TypeOK, ReceiverWithinRun, Running
    <2>3. SnapshotIsFinal'
      BY <1>4 DEF IInv, ReceiverCounts, TypeOK, ReceiverWithinRun, SnapshotIsFinal, Running,
         Judged, Health
    <2>4. TemporaryInHand'
      BY <1>4 DEF IInv, ReceiverCounts, TypeOK, TemporaryInHand
    <2>5. WriterIsDone'
      BY <1>4 DEF IInv, ReceiverCounts, TypeOK, WriterIsDone, SnapshotIsFinal, TemporaryInHand,
         Judged
    <2>6. ReportIsFinal'
      BY <1>4 DEF IInv, ReceiverCounts, TypeOK, ReportIsFinal, ReceiverWithinRun,
         SnapshotIsFinal, Running, Judged
    <2> QED BY <2>1, <2>2, <2>3, <2>4, <2>5, <2>6 DEF IInv
  <1>5. ASSUME NEW p \in Process, ReceiverStores(p) PROVE IInv'
    BY <1>5 DEF IInv, ReceiverStores, TypeOK, Health, NoHealth, ReceiverWithinRun,
       SnapshotIsFinal,
        TemporaryInHand, WriterIsDone, ReportIsFinal, Running, Judged
  <1>6. ASSUME NEW p \in Process, ReceiverFaults(p) PROVE IInv'
    BY <1>6 DEF IInv, ReceiverFaults, TypeOK, Health, NoHealth, ReceiverWithinRun,
       SnapshotIsFinal,
        TemporaryInHand, WriterIsDone, ReportIsFinal, Running, Judged
  <1>7. ASSUME NEW p \in Process, ParseOptions(p) PROVE IInv'
    <2>1. TypeOK'
      <3>1. /\ pc' \in {[pc EXCEPT ![p] = w] : w \in {"exited", "first", "unwind"}}
            /\ code' \in {code, [code EXCEPT ![p] = 0], [code EXCEPT ![p] = 2]}
            /\ output' = output \/ \E w \in BOOLEAN : output' = [output EXCEPT ![p] = w]
            /\ receiver' \in {receiver, [receiver EXCEPT ![p] = "running"]}
            /\ slot' \in {slot, [slot EXCEPT ![p] = TRUE]}
            /\ UNCHANGED <<interrupted, age, health, report, temporary, file>>
        BY <1>7 DEF ParseOptions
      <3>2. output' \in [Process -> BOOLEAN]
        BY <3>1 DEF IInv, TypeOK
      <3>3. slot' \in [Process -> BOOLEAN]
        BY <3>1 DEF IInv, TypeOK
      <3> QED BY <3>1, <3>2, <3>3 DEF IInv, TypeOK
    <2>2. ReceiverWithinRun'
      BY <1>7 DEF IInv, ParseOptions, TypeOK, ReceiverWithinRun, Running
    <2>3. SnapshotIsFinal'
      BY <1>7 DEF IInv, ParseOptions, TypeOK, ReceiverWithinRun, SnapshotIsFinal, Running,
         Judged, Health
    <2>4. TemporaryInHand'
      BY <1>7 DEF IInv, ParseOptions, TypeOK, TemporaryInHand
    <2>5. WriterIsDone'
      BY <1>7 DEF IInv, ParseOptions, TypeOK, WriterIsDone, SnapshotIsFinal, TemporaryInHand,
         Judged
    <2>6. ReportIsFinal'
      BY <1>7 DEF IInv, ParseOptions, TypeOK, ReportIsFinal, ReceiverWithinRun, SnapshotIsFinal,
         Running, Judged
    <2> QED BY <2>1, <2>2, <2>3, <2>4, <2>5, <2>6 DEF IInv
  <1>8. ASSUME NEW p \in Process, FirstLoop(p) PROVE IInv'
    <2>1. TypeOK'
      BY <1>8 DEF IInv, FirstLoop, TypeOK, Health, NoHealth, Verdict
    <2>2. ReceiverWithinRun'
      BY <1>8 DEF IInv, FirstLoop, TypeOK, ReceiverWithinRun, Running
    <2>3. SnapshotIsFinal'
      BY <1>8 DEF IInv, FirstLoop, TypeOK, ReceiverWithinRun, SnapshotIsFinal, Running, Judged,
         Health
    <2>4. TemporaryInHand'
      BY <1>8 DEF IInv, FirstLoop, TypeOK, TemporaryInHand
    <2>5. WriterIsDone'
      BY <1>8 DEF IInv, FirstLoop, TypeOK, WriterIsDone, SnapshotIsFinal, TemporaryInHand, Judged
    <2>6. ReportIsFinal'
      BY <1>8 DEF IInv, FirstLoop, TypeOK, ReportIsFinal, ReceiverWithinRun, SnapshotIsFinal,
         Running, Judged
    <2> QED BY <2>1, <2>2, <2>3, <2>4, <2>5, <2>6 DEF IInv
  <1>9. ASSUME NEW p \in Process, SecondLoop(p) PROVE IInv'
    <2>1. TypeOK'
      BY <1>9 DEF IInv, SecondLoop, TypeOK, Health, NoHealth, Verdict
    <2>2. ReceiverWithinRun'
      BY <1>9 DEF IInv, SecondLoop, TypeOK, ReceiverWithinRun, Running
    <2>3. SnapshotIsFinal'
      BY <1>9 DEF IInv, SecondLoop, TypeOK, ReceiverWithinRun, SnapshotIsFinal, Running, Judged,
         Health
    <2>4. TemporaryInHand'
      BY <1>9 DEF IInv, SecondLoop, TypeOK, TemporaryInHand
    <2>5. WriterIsDone'
      BY <1>9 DEF IInv, SecondLoop, TypeOK, WriterIsDone, SnapshotIsFinal, TemporaryInHand, Judged
    <2>6. ReportIsFinal'
      BY <1>9 DEF IInv, SecondLoop, TypeOK, ReportIsFinal, ReceiverWithinRun, SnapshotIsFinal,
         Running, Judged
    <2> QED BY <2>1, <2>2, <2>3, <2>4, <2>5, <2>6 DEF IInv
  <1>10. ASSUME NEW p \in Process, StopAndSnapshot(p) PROVE IInv'
    BY <1>10 DEF IInv, StopAndSnapshot, TypeOK, Health, NoHealth, ReceiverWithinRun,
       SnapshotIsFinal,
        TemporaryInHand, WriterIsDone, ReportIsFinal, Running, Judged
  <1>11. ASSUME NEW p \in Process, Unwind(p) PROVE IInv'
    BY <1>11 DEF IInv, Unwind, TypeOK, Health, NoHealth, ReceiverWithinRun, SnapshotIsFinal,
        TemporaryInHand, WriterIsDone, ReportIsFinal, Running, Judged
  <1>12. ASSUME NEW p \in Process, Serialize(p) PROVE IInv'
    <2>1. TypeOK'
      BY <1>12 DEF IInv, Serialize, TypeOK, Health, NoHealth, Verdict
    <2>2. ReceiverWithinRun'
      BY <1>12 DEF IInv, Serialize, TypeOK, ReceiverWithinRun, Running
    <2>3. SnapshotIsFinal'
      BY <1>12 DEF IInv, Serialize, TypeOK, ReceiverWithinRun, SnapshotIsFinal, Running, Judged,
         Health
    <2>4. TemporaryInHand'
      BY <1>12 DEF IInv, Serialize, TypeOK, TemporaryInHand
    <2>5. WriterIsDone'
      BY <1>12 DEF IInv, Serialize, TypeOK, WriterIsDone, SnapshotIsFinal, TemporaryInHand, Judged
    <2>6. ReportIsFinal'
      BY <1>12 DEF IInv, Serialize, TypeOK, ReportIsFinal, ReceiverWithinRun, SnapshotIsFinal,
         Running, Judged
    <2> QED BY <2>1, <2>2, <2>3, <2>4, <2>5, <2>6 DEF IInv
  <1>13. ASSUME NEW p \in Process, Create(p) PROVE IInv'
    <2>1. TypeOK'
      BY <1>13 DEF IInv, Create, TypeOK
    <2>2. ReceiverWithinRun'
      BY <1>13 DEF IInv, Create, TypeOK, ReceiverWithinRun, Running
    <2>3. SnapshotIsFinal'
      BY <1>13 DEF IInv, Create, TypeOK, ReceiverWithinRun, SnapshotIsFinal, Running, Judged,
         Health
    <2>4. TemporaryInHand'
      BY <1>13 DEF IInv, Create, TypeOK, TemporaryInHand
    <2>5. WriterIsDone'
      BY <1>13 DEF IInv, Create, TypeOK, WriterIsDone, SnapshotIsFinal, TemporaryInHand, Judged
    <2>6. ReportIsFinal'
      BY <1>13 DEF IInv, Create, TypeOK, ReportIsFinal, ReceiverWithinRun, SnapshotIsFinal,
         Running, Judged
    <2> QED BY <2>1, <2>2, <2>3, <2>4, <2>5, <2>6 DEF IInv
  <1>14. ASSUME NEW p \in Process, Write(p) PROVE IInv'
    <2>1. TypeOK'
      BY <1>14 DEF IInv, Write, TypeOK, Health, NoHealth, Verdict
    <2>2. ReceiverWithinRun'
      BY <1>14 DEF IInv, Write, TypeOK, ReceiverWithinRun, Running
    <2>3. SnapshotIsFinal'
      BY <1>14 DEF IInv, Write, TypeOK, ReceiverWithinRun, SnapshotIsFinal, Running, Judged,
         Health
    <2>4. TemporaryInHand'
      BY <1>14 DEF IInv, Write, TypeOK, TemporaryInHand
    <2>5. WriterIsDone'
      BY <1>14 DEF IInv, Write, TypeOK, WriterIsDone, SnapshotIsFinal, TemporaryInHand, Judged
    <2>6. ReportIsFinal'
      BY <1>14 DEF IInv, Write, TypeOK, ReportIsFinal, ReceiverWithinRun, SnapshotIsFinal,
         Running, Judged
    <2> QED BY <2>1, <2>2, <2>3, <2>4, <2>5, <2>6 DEF IInv
  <1>15. ASSUME NEW p \in Process, Rename(p) PROVE IInv'
    <2>1. TypeOK'
      <3>1. /\ pc[p] = "rename" /\ temporary[p] = "whole"
            /\ report[p] \in Health
        BY <1>15 DEF IInv, TypeOK, TemporaryInHand, Rename
      <3>2. [content |-> "report", by |-> p, verdict |-> report[p]]
              \in [content : {"report"}, by : Process, verdict : Health]
        BY <3>1
      <3>3. file' \in {file, [content |-> "report", by |-> p, verdict |-> report[p]]}
        BY <3>1, <1>15 DEF Rename
      <3>4. file' \in {[content |-> "old"]}
                    \cup [content : {"report"}, by : Process, verdict : Health]
        BY <3>2, <3>3 DEF IInv, TypeOK
      <3> QED BY <3>4, <1>15 DEF IInv, Rename, TypeOK
    <2>2. ReceiverWithinRun'
      BY <1>15 DEF IInv, Rename, TypeOK, ReceiverWithinRun, Running
    <2>3. SnapshotIsFinal'
      BY <1>15 DEF IInv, Rename, TypeOK, ReceiverWithinRun, SnapshotIsFinal, Running, Judged,
         Health
    <2>4. TemporaryInHand'
      BY <1>15 DEF IInv, Rename, TypeOK, TemporaryInHand
    <2>5. WriterIsDone'
      BY <1>15 DEF IInv, Rename, TypeOK, WriterIsDone, SnapshotIsFinal, TemporaryInHand, Judged
    <2>6. ReportIsFinal'
      BY <1>15 DEF IInv, Rename, TypeOK, ReportIsFinal, ReceiverWithinRun, SnapshotIsFinal,
         Running, Judged
    <2> QED BY <2>1, <2>2, <2>3, <2>4, <2>5, <2>6 DEF IInv
  <1>16. ASSUME NEW p \in Process, WriteFails(p) PROVE IInv'
    BY <1>16 DEF IInv, WriteFails, TypeOK, Health, NoHealth, ReceiverWithinRun, SnapshotIsFinal,
        TemporaryInHand, WriterIsDone, ReportIsFinal, Running, Judged
  <1>17. ASSUME NEW p \in Process, PrintAndExit(p) PROVE IInv'
    <2>1. TypeOK'
      BY <1>17 DEF IInv, PrintAndExit, TypeOK, Health, NoHealth, Verdict
    <2>2. ReceiverWithinRun'
      BY <1>17 DEF IInv, PrintAndExit, TypeOK, ReceiverWithinRun, Running
    <2>3. SnapshotIsFinal'
      BY <1>17 DEF IInv, PrintAndExit, TypeOK, ReceiverWithinRun, SnapshotIsFinal, Running,
         Judged, Health
    <2>4. TemporaryInHand'
      BY <1>17 DEF IInv, PrintAndExit, TypeOK, TemporaryInHand
    <2>5. WriterIsDone'
      BY <1>17 DEF IInv, PrintAndExit, TypeOK, WriterIsDone, SnapshotIsFinal, TemporaryInHand,
         Judged
    <2>6. ReportIsFinal'
      BY <1>17 DEF IInv, PrintAndExit, TypeOK, ReportIsFinal, ReceiverWithinRun,
         SnapshotIsFinal, Running, Judged
    <2> QED BY <2>1, <2>2, <2>3, <2>4, <2>5, <2>6 DEF IInv
  <1>18. CASE UNCHANGED vars
    BY <1>18 DEF IInv, vars, TypeOK, Health, NoHealth, ReceiverWithinRun, SnapshotIsFinal,
        TemporaryInHand, WriterIsDone, ReportIsFinal, Running, Judged
  <1> QED
    BY <1>1, <1>2, <1>3, <1>4, <1>5, <1>6, <1>7, <1>8, <1>9, <1>10, <1>11, <1>12, <1>13, <1>14,
       <1>15, <1>16, <1>17, <1>18 DEF Next, Main

\* The inductive invariant holds in every reachable state.
LEMMA Invariance == Spec => []IInv
  BY InitIInv, NextIInv, PTL DEF Spec

-----------------------------------------------------------------------------
\* The file named by --output is at every moment, also after a kill in the middle
\* of write_output(), either untouched or one whole report that its writer's exit
\* code agrees with.
THEOREM OutputIsWhole == Spec => []FileIsWhole
  <1>1. IInv => FileIsWhole
    BY DEF IInv, TypeOK, WriterIsDone, TemporaryInHand, FileIsWhole
  <1> QED BY <1>1, Invariance, PTL

\* The verdict and the report are taken from a client that counts no more.
THEOREM VerdictIsFinal == Spec => []ReportIsFinal
  <1>1. IInv => ReportIsFinal
    BY DEF IInv
  <1> QED BY <1>1, Invariance, PTL

\* On every path out of run_check() the receiver ends before the slot does.
THEOREM SlotIsSafe == Spec => []SlotOutlivesReceiver
  <1>1. IInv => SlotOutlivesReceiver
    BY DEF IInv, ReceiverWithinRun, SlotOutlivesReceiver
  <1> QED BY <1>1, Invariance, PTL
=============================================================================
