------------------------------ MODULE Sequence ------------------------------
(***************************************************************************)
(* The two sequence trackers of the client (core/src/detail/sequence.cpp). *)
(* A record of the Net F/T sensor carries two unsigned 32-bit counters:    *)
(* the RDT sequence, which numbers the records of one stream, and the FT   *)
(* sequence, which numbers the sensor's internal samples.  The trackers    *)
(* classify each counter against the previous record by serial-number      *)
(* arithmetic: a difference below half of the number space is progress.    *)
(*                                                                         *)
(* Half stands for 2^31 and RestartLowMax for 0xffff; both are parameters, *)
(* so that TLC can explore a whole turn of a small counter.                *)
(***************************************************************************)
EXTENDS Integers

CONSTANTS
    Half,           \* half of the number space, 0x80000000 in the code
    RestartLowMax   \* kRestartLowMax, the largest value of the low window

ASSUME SequenceAssumption ==
    /\ Half \in Nat \ {0}
    /\ RestartLowMax \in Nat
    /\ RestartLowMax < Half

Modulus == 2 * Half
Counter == 0 .. (Modulus - 1)

\* current - previous on std::uint32_t.
Delta(current, previous) ==
    IF current >= previous THEN current - previous
                           ELSE current - previous + Modulus

\* The sensor's counter after one more record.
Succ(counter) == IF counter = Modulus - 1 THEN 0 ELSE counter + 1

-----------------------------------------------------------------------------
(* RdtSequenceTracker *)

RdtTracker == [hasLast : BOOLEAN, previous : Counter]
RdtKind == {"First", "Contiguous", "Gap", "Duplicate", "OutOfOrder"}

RdtInit == [hasLast |-> FALSE, previous |-> 0]

\* Mutants: no record is out of order; plain comparison instead of a window.
RdtKindWithoutWindow(t, current) ==
    LET delta == Delta(current, t.previous)
    IN  CASE ~ t.hasLast -> "First"
          [] t.hasLast /\ delta = 0 -> "Duplicate"
          [] t.hasLast /\ delta = 1 -> "Contiguous"
          [] OTHER -> "Gap"

RdtKindByComparison(t, current) ==
    CASE ~ t.hasLast -> "First"
      [] t.hasLast /\ current = t.previous -> "Duplicate"
      [] t.hasLast /\ current = t.previous + 1 -> "Contiguous"
      [] t.hasLast /\ current > t.previous + 1 -> "Gap"
      [] OTHER -> "OutOfOrder"

\* The kind observe() returns, and the number of records it found missing.
RdtKindOf(t, current) ==
    LET delta == Delta(current, t.previous)
    IN  CASE ~ t.hasLast -> "First"
          [] t.hasLast /\ delta = 0 -> "Duplicate"
          [] t.hasLast /\ delta = 1 /\ delta < Half -> "Contiguous"
          [] t.hasLast /\ delta > 1 /\ delta < Half -> "Gap"
          [] OTHER -> "OutOfOrder"

\* Mutant: the accepted record is counted as lost.
RdtGapOffByOne(t, current) ==
    IF RdtKindOf(t, current) = "Gap" THEN Delta(current, t.previous) ELSE 0

RdtGap(t, current) ==
    IF RdtKindOf(t, current) = "Gap" THEN Delta(current, t.previous) - 1 ELSE 0

\* The tracker after observe(): only progress moves the baseline.
RdtObserve(t, current) ==
    IF RdtKindOf(t, current) \in {"First", "Contiguous", "Gap"}
    THEN [hasLast |-> TRUE, previous |-> current]
    ELSE t

RdtReset(t) == [t EXCEPT !.hasLast = FALSE]

-----------------------------------------------------------------------------
(* FtSequenceTracker *)

FtTracker == [hasLast : BOOLEAN, previous : Counter,
              hasCandidate : BOOLEAN, candidate : Counter]
FtKind == {"First", "Forward", "Stall", "Backward", "Restart"}

FtInit == [hasLast |-> FALSE, previous |-> 0, hasCandidate |-> FALSE, candidate |-> 0]

\* A second backward record confirms that the device counter restarted: the
\* baseline was above the low window, both records are inside it, and they
\* progress.
ConfirmsRestart(t, current) ==
    /\ t.previous >= RestartLowMax + 1
    /\ t.hasCandidate
    /\ t.candidate <= RestartLowMax
    /\ current <= RestartLowMax
    /\ Delta(current, t.candidate) > 0
    /\ Delta(current, t.candidate) < Half

FtKindOf(t, current) ==
    CASE ~ t.hasLast -> "First"
      [] t.hasLast /\ current = t.previous -> "Stall"
      [] t.hasLast /\ current # t.previous /\ Delta(current, t.previous) < Half -> "Forward"
      [] t.hasLast /\ Delta(current, t.previous) >= Half /\ ConfirmsRestart(t, current) -> "Restart"
      [] OTHER -> "Backward"

\* The tracker after observe(): the first record leaves the (absent) restart
\* candidate alone, a backward one becomes the candidate, all others clear it.
FtObserve(t, current) ==
    LET kind == FtKindOf(t, current)
    IN  [hasLast |-> TRUE,
         previous |-> IF kind \in {"First", "Forward", "Restart"} THEN current ELSE t.previous,
         hasCandidate |-> CASE kind = "Backward" -> TRUE
                            [] kind = "First" -> t.hasCandidate
                            [] OTHER -> FALSE,
         candidate |-> IF kind = "Backward" THEN current ELSE t.candidate]

\* Mutant: the restart candidate outlives its session.
FtBeginSessionKeepsCandidate(t) == t

FtBeginSession(t) == [t EXCEPT !.hasCandidate = FALSE]
=============================================================================
