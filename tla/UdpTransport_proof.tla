------------------------- MODULE UdpTransport_proof -------------------------
(***************************************************************************)
(* For any number of descriptors, addresses and sessions: receive() never  *)
(* touches a descriptor that is not the connected socket, no descriptor    *)
(* leaks, and a shutdown is never taken for a failure.                     *)
(***************************************************************************)
EXTENDS UdpTransport, TLAPS

\* Where the receiver thread has a connected socket.
InSession == {"command", "receive", "call", "poll", "woken", "recv", "returned"}

\* socket_ is set exactly between connect() and close(), and the socket of an
\* address that is being tried is open and known to nobody else.
SocketIsPlaced ==
    /\ pc \in {"idle", "run", "connect"} => socket = None
    /\ pc \in InSession => socket # None
    /\ local # None => pc = "connect" /\ kernel[local] = "open"

\* Within a session a request to shut down, in the flag or in the socket's
\* state, comes from a stop(), and so does a result that tells of one.
ShutdownMeansStop ==
    /\ stopper # "idle" => stopping
    /\ pc \in InSession /\ (shutdown \/ kernel[socket] = "shut") => stopping
    /\ result.why = "shutdown" => pc \in {"returned", "ended", "run", "idle"}
    /\ pc = "returned" /\ result.why = "shutdown" => stopping
    /\ result.value = "data" => result.why = "record"

IInv ==
    /\ TypeOK /\ SocketIsPlaced /\ ShutdownMeansStop
    /\ NoForeignRead /\ NoDescriptorLeak /\ ShutdownIsNotAFailure

-----------------------------------------------------------------------------
\* A new client has no socket and nobody has asked it to stop.
LEMMA InitIInv == Init => IInv
  <1> SUFFICES ASSUME Init PROVE IInv
    OBVIOUS
  <1> USE DEF Init, NoResult
  <1>1. kernel \in [Fd -> {"free", "open", "shut", "foreign"}]
    OBVIOUS
  <1>2. addresses \in 0 .. MaxAddress /\ session \in 0 .. MaxSession
    BY TransportAssumption
  <1>3. TypeOK
    BY <1>1, <1>2 DEF TypeOK
  <1>4. SocketIsPlaced /\ ShutdownMeansStop
    BY DEF SocketIsPlaced, ShutdownMeansStop, InSession
  <1>5. NoForeignRead /\ NoDescriptorLeak /\ ShutdownIsNotAFailure
    BY DEF NoForeignRead, NoDescriptorLeak, ShutdownIsNotAFailure
  <1> QED BY <1>3, <1>4, <1>5 DEF IInv

\* Every step of every thread keeps the invariant.
LEMMA NextIInv == IInv /\ [Next]_vars => IInv'
  <1> SUFFICES ASSUME IInv, [Next]_vars PROVE IInv'
    OBVIOUS
  <1> USE TransportAssumption DEF IInv, TypeOK, SocketIsPlaced, ShutdownMeansStop, InSession,
        NoForeignRead, NoDescriptorLeak, ShutdownIsNotAFailure,
        table, object, stopVars, call, Returns, Ends, NoResult
  <1>1. CASE OthersOpenOrClose
    BY <1>1 DEF OthersOpenOrClose
  <1>2. CASE Arrives
    BY <1>2 DEF Arrives
  <1>3. CASE StopSets
    BY <1>3 DEF StopSets
  <1>4. CASE StopShuts
    BY <1>4 DEF StopShuts
  <1>5. CASE StopReturns
    BY <1>5 DEF StopReturns
  <1>6. CASE Start
    BY <1>6 DEF Start
  <1>7. CASE BeginSession
    BY <1>7 DEF BeginSession
  <1>8. CASE RunEnds
    BY <1>8 DEF RunEnds
  <1>9. CASE OpenSocket
    BY <1>9 DEF OpenSocket
  <1>10. CASE AddressFails
    BY <1>10 DEF AddressFails
  <1>11. CASE Install
    BY <1>11 DEF Install
  <1>12. CASE ConnectFails
    BY <1>12 DEF ConnectFails
  <1>13. CASE Command
    BY <1>13 DEF Command
  <1>14. CASE LoopPass
    BY <1>14 DEF LoopPass
  <1>15. CASE EnterReceive
    BY <1>15 DEF EnterReceive
  <1>16. CASE PollReady
    BY <1>16 DEF PollReady
  <1>17. CASE SliceEnds
    BY <1>17 DEF SliceEnds
  <1>18. CASE CheckWoken
    BY <1>18 DEF CheckWoken
  <1>19. CASE Receive
    BY <1>19 DEF Receive
  <1>20. CASE AfterReceive
    BY <1>20 DEF AfterReceive
  <1>21. CASE Close
    BY <1>21 DEF Close
  <1>22. CASE PollMayWake
    BY <1>22 DEF PollMayWake
  <1>23. CASE PollGivesUp
    BY <1>23 DEF PollGivesUp
  <1>24. CASE UNCHANGED vars
    BY <1>24 DEF vars
  <1> QED
    BY <1>1, <1>2, <1>3, <1>4, <1>5, <1>6, <1>7, <1>8, <1>9, <1>10, <1>11, <1>12, <1>13, <1>14,
       <1>15, <1>16, <1>17, <1>18, <1>19, <1>20, <1>21, <1>22, <1>23, <1>24 DEF Next, Receiver

\* The inductive invariant holds in every reachable state.
LEMMA Invariance == Spec => []IInv
  BY InitIInv, NextIInv, PTL DEF Spec

-----------------------------------------------------------------------------
\* Whatever stop() and other users of descriptors do meanwhile, the descriptor
\* that receive() polls and reads is the connected socket, which nobody has
\* closed.
THEOREM ReadsOwnSocket == Spec => []NoForeignRead
  <1>1. IInv => NoForeignRead
    BY DEF IInv
  <1> QED BY <1>1, Invariance, PTL

\* Whatever fails, in connect() or later, every socket that connect() opened is
\* closed by the time the receiver has returned.
THEOREM ClosesEverySocket == Spec => []NoDescriptorLeak
  <1>1. IInv => NoDescriptorLeak
    BY DEF IInv
  <1> QED BY <1>1, Invariance, PTL

\* A session that ends because receive() saw a shutdown ends as stopped.
THEOREM ShutdownIsStop == Spec => []ShutdownIsNotAFailure
  <1>1. IInv => ShutdownIsNotAFailure
    BY DEF IInv
  <1> QED BY <1>1, Invariance, PTL
=============================================================================
