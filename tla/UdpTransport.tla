---------------------------- MODULE UdpTransport ----------------------------
(***************************************************************************)
(* UdpTransport (detail/udp_transport_posix.cpp, udp_transport_windows.cpp) *)
(* as the client uses it: the receiver thread connects, receives and       *)
(* closes, session after session; stop() on another thread only shuts the  *)
(* socket down.  Every call takes mutex_, but receive() polls and reads    *)
(* outside of it, on a copy of the descriptor.  Descriptors are those of   *)
(* the process: what is closed here is given to whoever opens next.        *)
(***************************************************************************)
EXTENDS Naturals, FiniteSets

CONSTANTS
    Fd,             \* the process's descriptors, at least two
    None,           \* kInvalidSocket, and "no value"
    MaxAddress,     \* bound: addresses the host name resolves to
    MaxSession      \* bound: sessions

ASSUME TransportAssumption ==
    /\ None \notin Fd
    /\ MaxAddress \in Nat \ {0} /\ MaxSession \in Nat

VARIABLES
    platform,       \* which of the two translation units is built
    kernel,         \* the descriptor table: "free", "open", "shut", "foreign"
    pending,        \* what is queued on the connected socket
    socket,         \* socket_
    shutdown,       \* shutdown_requested_
    stopping,       \* the client's stopping_
    stopper,        \* where stop() is
    pc,             \* where the receiver thread is
    local,          \* connected_socket in connect()
    addresses,      \* addresses still to try
    held,           \* receive()'s copy of the descriptor
    result,         \* what receive() returned, and why (the reason is history)
    outcome,        \* SessionResult
    session         \* bound: sessions so far

table == <<kernel, pending>>
object == <<socket, shutdown>>
stopVars == <<stopping, stopper>>
call == <<local, addresses, held, result>>
vars == <<platform, table, object, stopVars, pc, call, outcome, session>>

NoResult == [value |-> "none", why |-> "none"]

Init ==
    /\ platform \in {"posix", "windows"}
    /\ kernel = [f \in Fd |-> "free"] /\ pending = None
    /\ socket = None /\ shutdown = FALSE
    /\ stopping = FALSE /\ stopper = "idle"
    /\ pc = "idle" /\ local = None /\ addresses = 0 /\ held = None
    /\ result = NoResult /\ outcome = None /\ session = 0

-----------------------------------------------------------------------------
(* The process and the network *)

\* Another part of the process opens or closes a descriptor of its own.
OthersOpenOrClose ==
    /\ \E f \in Fd :
        \/ kernel[f] = "free" /\ kernel' = [kernel EXCEPT ![f] = "foreign"]
        \/ kernel[f] = "foreign" /\ kernel' = [kernel EXCEPT ![f] = "free"]
    /\ UNCHANGED <<platform, pending, object, stopVars, pc, call, outcome, session>>

\* A datagram, an empty one, or an ICMP error reaches the connected socket.
Arrives ==
    /\ socket # None /\ kernel[socket] = "open" /\ pending = None
    /\ pending' \in {"record", "empty", "error"}
    /\ UNCHANGED <<platform, kernel, object, stopVars, pc, call, outcome, session>>

-----------------------------------------------------------------------------
(* stop() *)

StopSets ==
    /\ stopper = "idle" /\ stopper' = "stopping" /\ stopping' = TRUE
    /\ UNCHANGED <<platform, table, object, pc, call, outcome, session>>

\* Mutant: shutdown() leaves the request to the state of the socket.
StopShutsUnflagged ==
    /\ stopper = "stopping" /\ stopper' = "joining"
    /\ kernel' = [f \in Fd |-> IF f = socket THEN "shut" ELSE kernel[f]]
    /\ UNCHANGED <<platform, pending, socket, shutdown, stopping, pc, call, outcome, session>>

\* Mutant: shutdown() closes the socket to wake the receiver.
StopShutsByClosing ==
    /\ stopper = "stopping" /\ stopper' = "joining"
    /\ shutdown' = TRUE
    /\ kernel' = [f \in Fd |-> IF f = socket THEN "free" ELSE kernel[f]]
    /\ socket' = None
    /\ UNCHANGED <<platform, pending, stopping, pc, call, outcome, session>>

\* Under the command mutex and mutex_: shutdown().
StopShuts ==
    /\ stopper = "stopping" /\ stopper' = "joining"
    /\ shutdown' = TRUE
    /\ kernel' = [f \in Fd |-> IF f = socket THEN "shut" ELSE kernel[f]]
    /\ UNCHANGED <<platform, pending, socket, stopping, pc, call, outcome, session>>

\* The worker is joined; the client may be started again.
StopReturns ==
    /\ stopper = "joining" /\ pc = "idle" /\ stopper' = "idle"
    /\ UNCHANGED <<platform, table, object, stopping, pc, call, outcome, session>>

-----------------------------------------------------------------------------
(* The receiver thread: run() and connect() *)

\* The result of a call or of a session is settled; where the thread goes next.
Returns(value, why) == pc' = "returned" /\ result' = [value |-> value, why |-> why]

Ends(with) == pc' = "ended" /\ outcome' = IF stopping THEN "Stopped" ELSE with

Start ==
    /\ pc = "idle" /\ stopper = "idle" /\ session < MaxSession
    /\ pc' = "run" /\ stopping' = FALSE
    /\ UNCHANGED <<platform, table, object, stopper, call, outcome, session>>

\* run(): another session unless stopping; connect() resolves the host.
BeginSession ==
    /\ pc = "run" /\ ~ stopping /\ session < MaxSession
    /\ \/ \E n \in 1 .. MaxAddress : pc' = "connect" /\ addresses' = n /\ UNCHANGED outcome
       \/ Ends("Socket") /\ UNCHANGED addresses
    /\ session' = session + 1 /\ result' = NoResult
    /\ UNCHANGED <<platform, table, object, stopVars, local, held>>

RunEnds ==
    /\ pc = "run" /\ (stopping \/ session = MaxSession)
    /\ pc' = "idle"
    /\ UNCHANGED <<platform, table, object, stopVars, call, outcome, session>>

\* ::socket() succeeds, or fails for want of a descriptor or a protocol.
OpenSocket ==
    /\ pc = "connect" /\ local = None /\ addresses > 0
    /\ addresses' = addresses - 1
    /\ \/ \E f \in Fd : /\ kernel[f] = "free"
                        /\ kernel' = [kernel EXCEPT ![f] = "open"] /\ local' = f
       \/ UNCHANGED <<kernel, local>>
    /\ UNCHANGED <<platform, pending, object, stopVars, pc, held, result, outcome, session>>

\* Mutant: the socket of an address that does not connect is forgotten.
AddressFailsLeaking ==
    /\ pc = "connect" /\ local # None
    /\ local' = None
    /\ UNCHANGED <<platform, table, object, stopVars, pc, addresses, held, result, outcome,
                   session>>

\* ::connect() fails: the socket is closed before the next address.
AddressFails ==
    /\ pc = "connect" /\ local # None
    /\ kernel' = [kernel EXCEPT ![local] = "free"] /\ local' = None
    /\ UNCHANGED <<platform, pending, object, stopVars, pc, addresses, held, result, outcome,
                   session>>

\* Mutant: the request left by the close() of the session before stays.
InstallKeepsRequest ==
    /\ pc = "connect" /\ local # None
    /\ kernel' = [f \in Fd |-> IF f = socket THEN "free" ELSE kernel[f]]
    /\ socket' = local /\ pending' = None /\ local' = None
    /\ pc' = "command"
    /\ UNCHANGED <<platform, shutdown, stopVars, addresses, held, result, outcome, session>>

\* ::connect() succeeds: under mutex_ the socket replaces any older one and the
\* shutdown request is cleared, also one that a stop() has just made.
Install ==
    /\ pc = "connect" /\ local # None
    /\ kernel' = [f \in Fd |-> IF f = socket THEN "free" ELSE kernel[f]]
    /\ socket' = local /\ shutdown' = FALSE /\ pending' = None /\ local' = None
    /\ pc' = "command"
    /\ UNCHANGED <<platform, stopVars, addresses, held, result, outcome, session>>

ConnectFails ==
    /\ pc = "connect" /\ local = None /\ addresses = 0
    /\ Ends("Socket")
    /\ UNCHANGED <<platform, table, object, stopVars, call, session>>

\* Under the command mutex: stopping_ again, then send(), which may throw.
Command ==
    /\ pc = "command"
    /\ \/ Ends("Socket")
       \/ ~ stopping /\ pc' = "receive" /\ UNCHANGED outcome
    /\ UNCHANGED <<platform, table, object, stopVars, call, session>>

-----------------------------------------------------------------------------
(* receive() *)

\* A pass of receive_session()'s loop: stopping_, then the deadline.
LoopPass ==
    /\ pc = "receive"
    /\ \/ stopping /\ Ends("Stopped")
       \/ ~ stopping /\ Ends("Timeout")
       \/ ~ stopping /\ pc' = "call" /\ UNCHANGED outcome
    /\ UNCHANGED <<platform, table, object, stopVars, call, session>>

\* Under mutex_: the two early returns and the copy of the descriptor.
EnterReceive ==
    /\ pc = "call"
    /\ \/ socket = None /\ Returns("throws", "invalid") /\ UNCHANGED held
       \/ socket # None /\ shutdown /\ Returns("zero", "shutdown") /\ UNCHANGED held
       \/ /\ socket # None /\ ~ shutdown
          /\ held' = socket /\ pc' = "poll" /\ UNCHANGED result
    /\ UNCHANGED <<platform, table, object, stopVars, local, addresses, outcome, session>>

\* A datagram or an error wakes poll(), and so does ::shutdown().
PollReady ==
    /\ pc = "poll"
    /\ pending # None \/ (platform = "posix" /\ kernel[held] # "open")
    /\ pc' = "woken"
    /\ UNCHANGED <<platform, table, object, stopVars, call, outcome, session>>

\* WSAPoll() may report a shut down socket, but the code does not rely on it.
PollMayWake ==
    /\ pc = "poll" /\ platform = "windows" /\ kernel[held] # "open"
    /\ pc' = "woken"
    /\ UNCHANGED <<platform, table, object, stopVars, call, outcome, session>>

\* The shutdown check between two slices of WSAPoll().
SliceEnds ==
    /\ pc = "poll" /\ platform = "windows" /\ shutdown
    /\ Returns("zero", "shutdown")
    /\ UNCHANGED <<platform, table, object, stopVars, local, addresses, held, outcome, session>>

\* The deadline passes (also while poll() is retried after EINTR), WSAPoll() is
\* interrupted, or the wait fails.
PollGivesUp ==
    /\ pc = "poll"
    /\ \/ Returns("zero", "deadline")
       \/ Returns("throws", "error")
    /\ UNCHANGED <<platform, table, object, stopVars, local, addresses, held, outcome, session>>

\* After the wait: the request again, under mutex_, then the reported events.
\* Windows reports a pending error here, POSIX when it reads.
CheckWoken ==
    /\ pc = "woken"
    /\ IF shutdown THEN Returns("zero", "shutdown")
       ELSE IF kernel[held] = "free" \/ (platform = "windows" /\ pending = "error")
            THEN Returns("throws", "error")
            ELSE pc' = "recv" /\ UNCHANGED result
    /\ UNCHANGED <<platform, table, object, stopVars, local, addresses, held, outcome, session>>

\* recv() on the copied descriptor: the queued datagram, an error, or the end
\* that a shutdown since the last check left; Windows then looks at the request.
Receive ==
    /\ pc = "recv"
    /\ \/ pending = "record" /\ Returns("data", "record")
       \/ pending = "empty" /\ Returns("zero", "empty")
       \/ pending = "error" /\ (IF platform = "windows" /\ shutdown
                                THEN Returns("zero", "shutdown")
                                ELSE Returns("throws", "error"))
       \/ kernel[held] = "shut" /\ (platform = "windows" \/ pending = None)
            /\ Returns("zero", "shutdown")
       \/ Returns("zero", "interrupted")
    /\ pending' = IF result'.why \in {"record", "empty", "error"} THEN None ELSE pending
    /\ UNCHANGED <<platform, kernel, object, stopVars, local, addresses, held, outcome, session>>

\* receive_session() on the result: stopping_ first, whatever it is; a record
\* is handled and the loop goes on.
AfterReceive ==
    /\ pc = "returned"
    /\ \/ result.value = "data" /\ ~ stopping /\ pc' = "receive" /\ UNCHANGED outcome
       \/ result.value = "data" /\ stopping /\ Ends("Stopped")
       \/ result.value = "zero" /\ Ends("Timeout")
       \/ result.value = "throws" /\ Ends("Socket")
    /\ held' = None
    /\ UNCHANGED <<platform, table, object, stopVars, local, addresses, result, session>>

\* close_session(): close(), by the thread that polls, once it has returned.
Close ==
    /\ pc = "ended"
    /\ pc' \in IF outcome = "Stopped" THEN {"idle"} ELSE {"run", "idle"}
    /\ kernel' = [f \in Fd |-> IF f = socket THEN "free" ELSE kernel[f]]
    /\ socket' = None /\ shutdown' = TRUE /\ pending' = None
    /\ UNCHANGED <<platform, stopVars, call, outcome, session>>

\* What the receiver does by itself, without a datagram and without a deadline.
Receiver ==
    \/ BeginSession \/ RunEnds \/ OpenSocket \/ AddressFails \/ Install \/ ConnectFails
    \/ Command \/ LoopPass \/ EnterReceive \/ PollReady \/ SliceEnds \/ CheckWoken \/ Receive
    \/ AfterReceive \/ Close

Next ==
    \/ OthersOpenOrClose \/ Arrives
    \/ StopSets \/ StopShuts \/ StopReturns
    \/ Start \/ Receiver \/ PollMayWake \/ PollGivesUp

\* Threads are scheduled; nothing promises a datagram, a deadline or a failure.
Fairness == WF_vars(Receiver) /\ WF_vars(StopShuts)

Spec == Init /\ [][Next]_vars /\ Fairness

-----------------------------------------------------------------------------
(* Properties *)

\* Every value has its type.
TypeOK ==
    /\ platform \in {"posix", "windows"}
    /\ kernel \in [Fd -> {"free", "open", "shut", "foreign"}]
    /\ pending \in {None, "record", "empty", "error"}
    /\ socket \in Fd \cup {None} /\ shutdown \in BOOLEAN
    /\ stopping \in BOOLEAN /\ stopper \in {"idle", "stopping", "joining"}
    /\ pc \in {"idle", "run", "connect", "command", "receive", "call", "poll", "woken", "recv",
               "returned", "ended"}
    /\ local \in Fd \cup {None} /\ held \in Fd \cup {None} /\ addresses \in 0 .. MaxAddress
    /\ result.value \in {"none", "data", "zero", "throws"}
    /\ outcome \in {None, "Stopped", "Socket", "Timeout"} /\ session \in 0 .. MaxSession

\* receive() polls and reads its copy of the descriptor without mutex_, and yet
\* never touches a descriptor that was closed, or that others opened since:
\* stop() shuts the socket down and leaves closing it to the receiver.  Nor is
\* socket_ ever such a descriptor: stop() and bias() send on it meanwhile.
NoForeignRead ==
    /\ pc \in {"poll", "woken", "recv"} => held = socket /\ socket # None
    /\ socket # None => kernel[socket] \in {"open", "shut"}

\* However many addresses and sessions fail, the only open sockets are the
\* connected one and the one being tried, and none is left once the receiver
\* has returned.
NoDescriptorLeak ==
    \A f \in Fd : kernel[f] \in {"open", "shut"}
        => pc # "idle" /\ (f = socket \/ (pc = "connect" /\ f = local))

\* A shutdown is never taken for a timeout or a socket failure, which would
\* latch a fault: stopping_ is set before the request that receive() sees, and
\* connect() clears the request that the last session's close() left.
ShutdownIsNotAFailure ==
    pc = "ended" /\ result.why = "shutdown" => outcome = "Stopped"

\* stop() ends the receiver wherever it is, also one that is about to poll, and
\* one whose connect() overwrites the request, without the help of a datagram
\* or of the receive timeout.
StopWakesReceive == stopping ~> pc = "idle"
=============================================================================
