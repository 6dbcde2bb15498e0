------------------------------ MODULE Client ------------------------------
(***************************************************************************)
(* What netft::Client promises its owner, without threads, locks or        *)
(* sessions: whether it acquires, what the sensor was last told, which     *)
(* fault it shows, and whether latest_sample() is a sample                 *)
(* of this acquisition.  ClientLifecycle is shown to implement it.         *)
(***************************************************************************)
CONSTANTS FaultCode, None

VARIABLES
    phase,      \* "Stopped", "Starting" or "Acquiring"
    stop,       \* a stop has been requested since the last start()
    fault,      \* fault_code()
    command,    \* the last one for the sensor: "Start", "Stop", or "Lost" if it could
                \* not be told to stop
    fresh,      \* latest_sample() belongs to the newest acquisition
    before      \* what a start() that fails has to bring back

cvars == <<phase, stop, fault, command, fresh, before>>

Nothing == [fault |-> None, fresh |-> FALSE]

CInit ==
    /\ phase = "Stopped" /\ stop = FALSE /\ fault = None
    /\ command = "Stop" /\ fresh = FALSE /\ before = Nothing

\* start() finds no receiver: the old fault and the old sample are gone.
BeginStart ==
    /\ phase = "Stopped" /\ phase' = "Starting"
    /\ before' = [fault |-> fault, fresh |-> fresh]
    /\ fault' = None /\ fresh' = FALSE
    /\ UNCHANGED <<stop, command>>

Started ==
    /\ phase = "Starting" /\ phase' = "Acquiring"
    /\ stop' = FALSE /\ before' = Nothing
    /\ UNCHANGED <<fault, command, fresh>>

\* No thread: first the sample comes back, then the fault.
StartUndone ==
    /\ phase = "Starting"
    /\ \/ fresh' = before.fresh /\ UNCHANGED <<phase, fault, before>>
       \/ /\ phase' = "Stopped" /\ fresh = before.fresh
          /\ fault' = before.fault /\ before' = Nothing /\ UNCHANGED fresh
    /\ UNCHANGED <<stop, command>>

\* stop() and the destructor, at any time outside of start().
RequestStop ==
    /\ phase # "Starting"
    /\ stop' = TRUE
    /\ UNCHANGED <<phase, fault, command, fresh, before>>

\* The sensor is told to stream by an acquisition that is neither stopped nor
\* faulted, and by nothing else.
Stream ==
    /\ phase = "Acquiring" /\ ~ stop /\ fault = None
    /\ command' = "Start"
    /\ UNCHANGED <<phase, stop, fault, fresh, before>>

\* It is told to stop once; a command that cannot be sent is not repeated.
Silence ==
    /\ command = "Start" /\ command' \in {"Stop", "Lost"}
    /\ UNCHANGED <<phase, stop, fault, fresh, before>>

\* A sample is delivered; a callback that was running may finish after a stop.
Deliver ==
    /\ phase = "Acquiring"
    /\ fresh' = TRUE
    /\ UNCHANGED <<phase, stop, fault, command, before>>

Fail ==
    /\ phase = "Acquiring" /\ fault = None
    /\ fault' \in FaultCode
    /\ UNCHANGED <<phase, stop, command, fresh, before>>

\* Acquisition ends only on a stop or a fault, and not without trying to silence the
\* sensor.
End ==
    /\ phase = "Acquiring" /\ (stop \/ fault # None) /\ command # "Start"
    /\ phase' = "Stopped"
    /\ UNCHANGED <<stop, fault, command, fresh, before>>

CNext ==
    \/ BeginStart \/ Started \/ StartUndone \/ RequestStop
    \/ Stream \/ Silence \/ Deliver \/ Fail \/ End

CSpec == CInit /\ [][CNext]_cvars

-----------------------------------------------------------------------------
(* What an owner may rely on because of it *)

\* The sensor is asked to stream only for an acquisition: before the client is stopped
\* or starting it has been told to stop, or at least the client tried; and a start()
\* under way shows no fault of the acquisition before.
OnlyAcquisitionStreams ==
    /\ command = "Start" => phase = "Acquiring"
    /\ phase = "Starting" => fault = None

\* A fault that has come up is neither replaced by a later one nor taken back by a
\* stop: fault_code() shows the same cause until start() begins again.
FirstFaultStays ==
    [][fault # None => fault' = fault \/ (phase = "Stopped" /\ phase' = "Starting")]_cvars

\* A stop request ends the acquisition, unless a later start() took it back.
StopEndsAcquisition == stop ~> phase = "Stopped" \/ ~ stop

\* A fault ends the acquisition, not without trying to silence the sensor.
FaultEndsAcquisition ==
    fault # None ~> (phase = "Stopped" /\ command # "Start") \/ fault = None
=============================================================================
