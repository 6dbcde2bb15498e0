------------------------- MODULE ControlPlugin_proof -------------------------
(***************************************************************************)
(* For any number of calls, samples and axes: the threads of the plugin    *)
(* end before the client they use, a failed read() is final and reported,  *)
(* and what the controllers see is NaN or a sample of this configuration.  *)
(***************************************************************************)
EXTENDS ControlPlugin, TLAPS

Teardowns == {"cleanup", "shutdown"}
Stops == {"deactivate", "error"}
Entries == {"configure", "activate", "read", "destructor", "giveUp", "fail", "cleanup",
            "shutdown", "deactivate", "error"}

\* How many steps the entry point has left.
left == Len(todo)

\* The entry point e does this step when it has n left.
Due(step, e, n) ==
    \/ /\ step = "stopAuxiliary"
       /\ (e = "configure" /\ n = 7) \/ (e \in Teardowns /\ n = 3) \/ (e = "destructor" /\ n = 5)
    \/ /\ step = "joinAuxiliary"
       /\ (e = "configure" /\ n = 6) \/ (e \in Teardowns /\ n = 2) \/ (e = "destructor" /\ n = 4)
    \/ /\ step = "stopClient"
       /\ \/ (e = "configure" /\ n = 5) \/ (e \in Teardowns /\ n = 6)
          \/ (e \in {"deactivate", "error", "destructor", "giveUp"} /\ n = 3)
    \/ /\ step = "joinClient"
       /\ \/ (e = "configure" /\ n = 4) \/ (e \in Teardowns /\ n = 5)
          \/ (e \in {"deactivate", "error", "destructor", "giveUp"} /\ n = 2)
    \/ /\ step = "destroy"
       /\ (e = "configure" /\ n = 3) \/ (e \in {"cleanup", "shutdown", "destructor"} /\ n = 1)
    \/ step = "reset" /\ ((e \in Teardowns /\ n = 4) \/ (e \in Stops /\ n = 1))
    \/ step = "clear" /\ e = "configure" /\ n = 2
    \/ step = "create" /\ e = "configure" /\ n = 1
    \/ step = "prepare" /\ e = "activate" /\ n = 3
    \/ step = "start" /\ e = "activate" /\ n = 2
    \/ step = "wait" /\ e = "activate" /\ n = 1
    \/ step = "invalidate" /\ e = "giveUp" /\ n = 1
    \/ step = "fetch" /\ e = "read" /\ n = 3
    \/ step = "check" /\ e = "read" /\ n = 2
    \/ step = "finish" /\ e = "read" /\ n = 1

\* What is left of an entry point is the end of its script.
Progress ==
    /\ todo \in Seq(StepName)
    /\ \A i \in 1 .. left : Due(todo[i], entry, left - i + 1)

\* Taking a step leaves the rest of the script.
LEMMA StepTakes ==
    ASSUME Progress, NEW step, Step(step)
    PROVE  /\ Due(step, entry, left) /\ left' = left - 1 /\ left \in Nat \ {0}
           /\ entry' = entry => Progress'
  <1> USE DEF Progress, left, Step
  <1>1. /\ todo # <<>> /\ step = Head(todo) /\ todo' = Tail(todo)
        /\ Len(todo) \in Nat \ {0} /\ todo[1] = Head(todo)
    OBVIOUS
  <1>2. /\ Len(todo') = Len(todo) - 1 /\ todo' \in Seq(StepName)
        /\ \A i \in 1 .. Len(todo') : todo'[i] = todo[i + 1]
    BY <1>1
  <1>3. Due(step, entry, Len(todo))
    BY <1>1
  <1>4. ASSUME entry' = entry, NEW i \in 1 .. Len(todo')
        PROVE  Due(todo'[i], entry', Len(todo') - i + 1)
    <2>1. i + 1 \in 1 .. Len(todo) /\ Len(todo) - (i + 1) + 1 = Len(todo') - i + 1
      BY <1>1, <1>2
    <2> QED BY <1>2, <1>4, <2>1
  <1> QED BY <1>1, <1>2, <1>3, <1>4

\* s is a script of the entry point e, of n steps.
Follows(s, e, n) ==
    /\ s \in Seq(StepName) /\ Len(s) = n
    /\ \A i \in 1 .. n : Due(s[i], e, n - i + 1)

\* Three steps, one by one.
LEMMA DueEach ==
    ASSUME NEW s, NEW e, Due(s[1], e, 3), Due(s[2], e, 2), Due(s[3], e, 1)
    PROVE  \A i \in 1 .. 3 : Due(s[i], e, 3 - i + 1)
  OBVIOUS

\* Every entry point begins with its script.
LEMMA Begins ==
    /\ Follows(Script("configure"), "configure", 7)
    /\ Follows(Script("destructor"), "destructor", 5)
    /\ Follows(Script("activate"), "activate", 3)
    /\ Follows(Script("read"), "read", 3)
    /\ Follows(GiveUp, "giveUp", 3)
    /\ \A e \in Teardowns : Follows(Script(e), e, 6)
    /\ \A e \in Stops : Follows(Script(e), e, 3)
  <1>1. Follows(Script("configure"), "configure", 7)
    <2> DEFINE s == <<"stopAuxiliary", "joinAuxiliary", "stopClient", "joinClient",
                      "destroy", "clear", "create">>
    <2>1. s \in Seq(StepName) /\ Len(s) = 7
      BY DEF StepName
    <2>2. Script("configure") = s
      BY DEF Script
    <2>3. /\ Due(s[1], "configure", 7) /\ Due(s[2], "configure", 6) /\ Due(s[3], "configure", 5)
          /\ Due(s[4], "configure", 4) /\ Due(s[5], "configure", 3) /\ Due(s[6], "configure", 2)
          /\ Due(s[7], "configure", 1)
      BY DEF Due, Stops, Teardowns
    <2> HIDE DEF s
    <2>4. \A i \in 1 .. 7 : Due(s[i], "configure", 7 - i + 1)
      BY <2>3
    <2> QED BY <2>1, <2>2, <2>4 DEF Follows
  <1>2. Follows(Script("destructor"), "destructor", 5)
    <2> DEFINE s == <<"stopAuxiliary", "joinAuxiliary", "stopClient", "joinClient",
                      "destroy">>
    <2>1. s \in Seq(StepName) /\ Len(s) = 5
      BY DEF StepName
    <2>2. Script("destructor") = s
      BY DEF Script
    <2>3. /\ Due(s[1], "destructor", 5) /\ Due(s[2], "destructor", 4) /\ Due(s[3], "destructor", 3)
          /\ Due(s[4], "destructor", 2) /\ Due(s[5], "destructor", 1)
      BY DEF Due, Stops, Teardowns
    <2> HIDE DEF s
    <2>4. \A i \in 1 .. 5 : Due(s[i], "destructor", 5 - i + 1)
      BY <2>3
    <2> QED BY <2>1, <2>2, <2>4 DEF Follows
  <1>3. Follows(Script("activate"), "activate", 3)
    <2> DEFINE s == <<"prepare", "start", "wait">>
    <2>1. s \in Seq(StepName) /\ Len(s) = 3
      BY DEF StepName
    <2>2. Script("activate") = s
      BY DEF Script
    <2>3. /\ Due(s[1], "activate", 3) /\ Due(s[2], "activate", 2) /\ Due(s[3], "activate", 1)
      BY DEF Due, Stops, Teardowns
    <2> HIDE DEF s
    <2>4. \A i \in 1 .. 3 : Due(s[i], "activate", 3 - i + 1)
      BY <2>3, DueEach
    <2> QED BY <2>1, <2>2, <2>4 DEF Follows
  <1>4. Follows(Script("read"), "read", 3)
    <2> DEFINE s == <<"fetch", "check", "finish">>
    <2>1. s \in Seq(StepName) /\ Len(s) = 3
      BY DEF StepName
    <2>2. Script("read") = s
      BY DEF Script
    <2>3. /\ Due(s[1], "read", 3) /\ Due(s[2], "read", 2) /\ Due(s[3], "read", 1)
      BY DEF Due, Stops, Teardowns
    <2> HIDE DEF s
    <2>4. \A i \in 1 .. 3 : Due(s[i], "read", 3 - i + 1)
      BY <2>3, DueEach
    <2> QED BY <2>1, <2>2, <2>4 DEF Follows
  <1>5. Follows(GiveUp, "giveUp", 3)
    <2> DEFINE s == <<"stopClient", "joinClient", "invalidate">>
    <2>1. s \in Seq(StepName) /\ Len(s) = 3
      BY DEF StepName
    <2>2. GiveUp = s
      BY DEF GiveUp
    <2>3. /\ Due(s[1], "giveUp", 3) /\ Due(s[2], "giveUp", 2) /\ Due(s[3], "giveUp", 1)
      BY DEF Due, Stops, Teardowns
    <2> HIDE DEF s
    <2>4. \A i \in 1 .. 3 : Due(s[i], "giveUp", 3 - i + 1)
      BY <2>3, DueEach
    <2> QED BY <2>1, <2>2, <2>4 DEF Follows
  <1>6. ASSUME NEW e \in Teardowns PROVE Follows(Script(e), e, 6)
    <2> DEFINE s == <<"stopClient", "joinClient", "reset", "stopAuxiliary",
                      "joinAuxiliary", "destroy">>
    <2>1. s \in Seq(StepName) /\ Len(s) = 6
      BY DEF StepName
    <2>2. Script(e) = s
      BY DEF Script, Teardowns, Teardown
    <2>3. /\ Due(s[1], e, 6) /\ Due(s[2], e, 5) /\ Due(s[3], e, 4)
          /\ Due(s[4], e, 3) /\ Due(s[5], e, 2) /\ Due(s[6], e, 1)
      BY DEF Due, Stops, Teardowns
    <2> HIDE DEF s
    <2>4. \A i \in 1 .. 6 : Due(s[i], e, 6 - i + 1)
      BY <2>3
    <2> QED BY <2>1, <2>2, <2>4 DEF Follows
  <1>7. ASSUME NEW e \in Stops PROVE Follows(Script(e), e, 3)
    <2> DEFINE s == <<"stopClient", "joinClient", "reset">>
    <2>1. s \in Seq(StepName) /\ Len(s) = 3
      BY DEF StepName
    <2>2. Script(e) = s
      BY DEF Script, Stops
    <2>3. /\ Due(s[1], e, 3) /\ Due(s[2], e, 2) /\ Due(s[3], e, 1)
      BY DEF Due, Stops, Teardowns
    <2> HIDE DEF s
    <2>4. \A i \in 1 .. 3 : Due(s[i], e, 3 - i + 1)
      BY <2>3, DueEach
    <2> QED BY <2>1, <2>2, <2>4 DEF Follows
  <1> QED BY <1>1, <1>2, <1>3, <1>4, <1>5, <1>6, <1>7

-----------------------------------------------------------------------------
(* The inductive invariant *)

\* Where everyone is.
PhaseOK ==
    /\ lifecycle \in {"Unconfigured", "Inactive", "Active", "Failed", "Finalized", "Destroyed"}
    /\ worker \in {"none", "receiving", "callback", "stored", "counted", "threw", "ended"}
    /\ aux \in {"none", "spinning", "reporting", "reported", "biasing", "ended"}

RoleOK ==
    /\ entry = None \/ entry \in Entries
    /\ result \in {None, "OK", "ERROR"} /\ client \in {None, "stopped", "running"}

FlagOK ==
    /\ modern \in BOOLEAN /\ stopping \in BOOLEAN /\ delivered \in BOOLEAN
    /\ auxStopping \in BOOLEAN /\ writeFault \in BOOLEAN /\ errored \in BOOLEAN

ValueOK ==
    /\ clientFault \in FaultCode \cup {None} /\ fatal \in FaultCode \cup {None}
    /\ generation \in Nat /\ now \in Nat
    /\ count \in [configure : Nat, activate : Nat]

\* Which call the controller manager makes in which state, and how far it got.
CallOK ==
    /\ entry = "configure" => lifecycle = "Unconfigured"
    /\ entry \in {"activate", "cleanup", "giveUp"} => lifecycle = "Inactive"
    /\ entry \in {"deactivate", "read"} => lifecycle = "Active"
    /\ entry = "error" => lifecycle \in {"Failed", "Active"}
    /\ entry = "shutdown" => lifecycle \in {"Unconfigured", "Inactive", "Active"}
    /\ entry = "fail" => lifecycle \in {"Unconfigured", "Inactive"}
    /\ entry \in {None, "fail"} => left = 0

\* Every call that ends an activation has joined the receiver from here on.
WorkerOK ==
    /\ entry \in {"configure", "cleanup", "fail"} => worker = "none"
    /\ entry = "activate" /\ left \in {2, 3} => worker = "none"
    /\ entry \in {"deactivate", "error", "giveUp"} /\ left \in {0, 1} => worker = "none"
    /\ entry = "shutdown" /\ left \in {0, 1, 2, 3, 4} => worker = "none"
    /\ entry = "destructor" /\ left \in {0, 1} => worker = "none"
    /\ QuietUnlessActive

\* Both threads have a client, and the auxiliary thread is gone before it is.
AuxOK ==
    /\ aux # "none" \/ worker # "none" => client # None
    /\ entry = "configure" /\ left \in {1, 2, 3, 4, 5} => aux = "none"
    /\ entry \in Teardowns /\ left \in {0, 1} => aux = "none"
    /\ entry = "destructor" /\ left \in {0, 1, 2, 3} => aux = "none"

\* What made a read() fail is kept, and the next one sees it.
FaultKept ==
    /\ errored => fatal # None \/ writeFault
    /\ entry = "read" /\ left = 1 => ~ errored
    /\ result = "OK" => ~ errored
    /\ result = "OK" => entry = None \/ (entry = "read" /\ left = 0)

\* A report begun after a failed read() still finds what made it fail.
ReportOK ==
    /\ report \in [error : BOOLEAN, fault : FaultCode \cup {None}, late : BOOLEAN]
    /\ aux # "reported" => report = NoReport
    /\ report.late => report.error \/ writeFault
    /\ aux = "reporting" =>
        /\ snapshot \in [fault : FaultCode \cup {None}, stopped : BOOLEAN, late : BOOLEAN]
        /\ snapshot.late => fatal # None \/ writeFault

\* A sample that was received at all belongs to this configuration.
Current(s) == s \in Sample /\ (s.at # 0 => s.conf = count.configure)

SampleOK ==
    /\ buffer \in [rt : Sample, nonrt : Sample, fresh : BOOLEAN]
    /\ ~ (entry = "configure" /\ left \in {2, 3, 4, 5, 6, 7}) =>
        Current(buffer.rt) /\ Current(buffer.nonrt)
    /\ incoming \in Sample \cup {None} /\ held \in Sample \cup {None}
    /\ worker = "callback" => incoming \in Sample /\ incoming.conf = count.configure
    /\ entry = "read" /\ left \in {1, 2} => Current(held)

\* The calls that leave NaN on the interfaces, and from where on they have.
Cleared ==
    \/ entry \in {"configure", "activate", "cleanup", "giveUp", "fail"}
    \/ entry \in Stops /\ left = 0
    \/ entry = "shutdown" /\ left \in {0, 1, 2, 3}
    \/ entry = "read" /\ left = 0 /\ result # "OK"
    \/ entry = None /\ lifecycle # "Destroyed" /\ ~ (lifecycle = "Active" /\ result = "OK")

AxesOK ==
    /\ axes \in [Axes -> Sample \cup {NaN}]
    /\ refused \in SUBSET Axes /\ (refused # {} => modern)
    /\ Cleared => \A a \in Axes : axes[a] = NaN \/ a \in refused

IInv ==
    /\ Progress /\ PhaseOK /\ RoleOK /\ FlagOK /\ ValueOK /\ CallOK /\ WorkerOK /\ AuxOK
    /\ FaultKept /\ ReportOK /\ SampleOK /\ AxesOK /\ OnlyThisConfiguration

-----------------------------------------------------------------------------
(* The calls and their steps *)

\* A step that leaves todo alone leaves as many steps.
LEMMA SameLeft == todo' = todo => left' = left
  BY DEF left

\* None is no fault, no entry point, no client and no result.
LEMMA Distinct ==
    /\ None \notin FaultCode /\ None \notin Entries
    /\ None # "OK" /\ None # "ERROR" /\ None # "stopped" /\ None # "running"
  BY ControlPluginAssumption DEF FaultCode, Entries

\* The faults the plugin raises itself are faults.
LEMMA Codes ==
    /\ {"SensorConfiguration", "Timeout", "Callback"} \subseteq FaultCode
    /\ ClientFault \subseteq FaultCode
  BY DEF FaultCode

\* A step of the entry point under way.
Moves(step) == entry # None /\ Due(step, entry, left) /\ left' = left - 1

\* Every step is the one that is due.
LEMMA StepMoves ==
    ASSUME Progress
    PROVE  \A step : Step(step) => Moves(step)
  BY StepTakes DEF Moves, Step

\* What is due when todo begins with a step.
LEMMA HeadIsDue ==
    ASSUME Progress, todo # <<>>
    PROVE  Due(Head(todo), entry, left) /\ left \in Nat \ {0}
  BY DEF Progress, left

\* The actions that leave their entry point early.
LEMMA LeavesEarly ==
    ASSUME Progress
    PROVE  /\ RefusesToStart => entry = "activate" /\ left = 2 /\ left' = 0
           /\ Waits => /\ entry = "activate" /\ left = 1
                       /\ \/ left' = 0 /\ entry' = "activate"
                          \/ left' = 3 /\ entry' = "giveUp"
           /\ ReadIsStale \/ ReadCannotWrite => entry = "read" /\ left = 1 /\ left' = 0
           /\ ReadChecks => entry = "read" /\ left = 2
           /\ ReadChecks /\ todo' = <<>> => left' = 0
           /\ ReadChecks /\ todo' = Tail(todo) => left' = 1
  <1>1. RefusesToStart => entry = "activate" /\ left = 2 /\ left' = 0
    BY HeadIsDue DEF RefusesToStart, left, Due
  <1>2. Waits => /\ entry = "activate" /\ left = 1
                 /\ \/ left' = 0 /\ entry' = "activate"
                    \/ left' = 3 /\ entry' = "giveUp"
    BY HeadIsDue, Begins DEF Waits, left, Follows, Due
  <1>3. ReadIsStale \/ ReadCannotWrite => entry = "read" /\ left = 1 /\ left' = 0
    BY HeadIsDue DEF ReadIsStale, ReadCannotWrite, Fails, left, Due
  <1>4. ReadChecks => entry = "read" /\ left = 2
    BY HeadIsDue DEF ReadChecks, Due
  <1>5. ReadChecks /\ todo' = <<>> => left' = 0
    BY DEF left
  <1>6. ReadChecks /\ todo' = Tail(todo) => left' = 1
    <2> SUFFICES ASSUME ReadChecks, todo' = Tail(todo) PROVE left' = 1
      OBVIOUS
    <2>1. todo \in Seq(StepName) /\ Len(todo) = 2
      BY <1>4 DEF left, Progress
    <2> QED BY <2>1 DEF left
  <1> QED BY <1>1, <1>2, <1>3, <1>4, <1>5, <1>6

\* read() sees a fault and fails, or sees none and goes on.
LEMMA ReadDecides ==
    ASSUME Progress, FlagOK, ReadChecks
    PROVE  /\ entry = "read" /\ left = 2
           /\ \/ /\ Fails /\ Invalidates(axes) /\ left' = 0
                 /\ fatal' # None \/ writeFault' = TRUE
                 /\ writeFault' = writeFault /\ first' = first
              \/ /\ left' = 1 /\ fatal = None /\ writeFault = FALSE
                 /\ UNCHANGED <<component, entry, clientVars, auxVars, generation, buffer, now,
                                exported, readVars, count, fatal, writeFault, first>>
  <1>1. entry = "read" /\ left = 2
    BY LeavesEarly
  <1>2. CASE fatal # None \/ clientFault # None \/ writeFault
    <2>1. Fails /\ Invalidates(axes)
      BY <1>2 DEF ReadChecks
    <2>2. fatal' # None \/ writeFault' = TRUE
      BY <1>2, Zenon DEF ReadChecks, FaultSeen, FlagOK
    <2>3. left' = 0
      BY <2>1 DEF Fails, left
    <2>4. writeFault' = writeFault /\ first' = first
      BY DEF ReadChecks
    <2> QED BY <1>1, <2>1, <2>2, <2>3, <2>4
  <1>3. CASE ~ (fatal # None \/ clientFault # None \/ writeFault)
    <2>1. /\ todo' = Tail(todo)
          /\ UNCHANGED <<component, entry, clientVars, auxVars, generation, buffer, now,
                         exported, readVars, count, writeFault, first>>
      BY <1>3 DEF ReadChecks
    <2>2. fatal = None /\ fatal' = None /\ writeFault = FALSE
      BY <1>3, Zenon DEF ReadChecks, FaultSeen, FlagOK
    <2>3. left' = 1
      BY <2>1, LeavesEarly
    <2> QED BY <1>1, <2>1, <2>2, <2>3
  <1> QED BY <1>2, <1>3

\* What the controller manager may call, and how many steps that has.
LEMMA EnterCalls ==
    ASSUME Enter
    PROVE  /\ entry = None
           /\ \/ entry' = "configure" /\ lifecycle = "Unconfigured" /\ left' = 7
              \/ entry' = "activate" /\ lifecycle = "Inactive" /\ left' = 3
              \/ entry' = "deactivate" /\ lifecycle = "Active" /\ left' = 3
              \/ entry' = "error" /\ lifecycle \in {"Failed", "Active"} /\ left' = 3
              \/ entry' = "cleanup" /\ lifecycle = "Inactive" /\ left' = 6
              \/ entry' = "shutdown" /\ left' = 6
                  /\ lifecycle \in {"Unconfigured", "Inactive", "Active"}
              \/ entry' = "destructor" /\ lifecycle # "Destroyed" /\ left' = 5
              \/ entry' = "read" /\ lifecycle = "Active" /\ left' = 3
  <1>1. PICK e \in {"configure", "activate", "deactivate", "error", "cleanup", "shutdown",
                    "destructor", "read"} :
            MayEnter(e) /\ entry' = e /\ todo' = Script(e)
    BY DEF Enter
  <1>2. /\ e = "configure" => lifecycle = "Unconfigured"
        /\ e \in {"activate", "cleanup"} => lifecycle = "Inactive"
        /\ e \in {"deactivate", "read"} => lifecycle = "Active"
        /\ e = "error" => lifecycle \in {"Failed", "Active"}
        /\ e = "shutdown" => lifecycle \in {"Unconfigured", "Inactive", "Active"}
        /\ e = "destructor" => lifecycle # "Destroyed"
    BY <1>1, Zenon DEF MayEnter
  <1>3. /\ Len(Script("configure")) = 7 /\ Len(Script("destructor")) = 5
        /\ Len(Script("activate")) = 3 /\ Len(Script("read")) = 3
        /\ Len(Script("deactivate")) = 3 /\ Len(Script("error")) = 3
        /\ Len(Script("cleanup")) = 6 /\ Len(Script("shutdown")) = 6
    BY Begins DEF Follows, Stops, Teardowns
  <1>4. left' = Len(Script(e))
    BY <1>1 DEF left
  <1> QED BY <1>1, <1>2, <1>3, <1>4 DEF Enter

\* A call changes nothing but what it has to do and the count.
LEMMA EnterKeeps ==
    ASSUME Enter
    PROVE  /\ result' = None
           /\ UNCHANGED <<component, clientVars, auxVars, fatal, writeFault, generation, buffer,
                          exported, now, held, errored, first>>
  BY DEF Enter

\* A call is counted.
LEMMA EnterCounts ==
    ASSUME ValueOK, Enter
    PROVE  /\ count' \in [configure : Nat, activate : Nat]
           /\ entry' # "configure" => count'.configure = count.configure
  <1>1. PICK e : /\ entry' = e
                 /\ count' = [count EXCEPT !.configure = IF e = "configure" THEN @ + 1 ELSE @,
                                           !.activate = IF e = "activate" THEN @ + 1 ELSE @]
    BY DEF Enter
  <1>2. count \in [configure : Nat, activate : Nat]
    BY DEF ValueOK
  <1>3. /\ (IF e = "configure" THEN count.configure + 1 ELSE count.configure) \in Nat
        /\ (IF e = "activate" THEN count.activate + 1 ELSE count.activate) \in Nat
    BY <1>2
  <1> QED BY <1>1, <1>2, <1>3

\* The state the controller manager is in after a call.
LEMMA LeaveTakes ==
    ASSUME Leave
    PROVE  /\ entry # None /\ entry' = None /\ left = 0 /\ left' = 0
           /\ entry \in {"configure", "deactivate"} => lifecycle' = "Inactive"
           /\ entry = "activate" => lifecycle' = "Active"
           /\ entry \in {"error", "cleanup"} => lifecycle' = "Unconfigured"
           /\ entry = "shutdown" => lifecycle' = "Finalized"
           /\ entry = "destructor" => lifecycle' = "Destroyed"
           /\ entry \in {"giveUp", "fail"} => lifecycle' = "Failed"
           /\ entry = "read" => lifecycle' = lifecycle
           /\ UNCHANGED <<modern, todo, clientVars, auxVars, fatal, writeFault, generation, buffer,
                          exported, now, readVars, first, count>>
  <1>1. /\ entry # None /\ entry' = None /\ todo = <<>>
        /\ UNCHANGED <<modern, todo, clientVars, auxVars, fatal, writeFault, generation, buffer,
                       exported, now, readVars, first, count>>
    BY DEF Leave
  <1>2. left = 0 /\ left' = 0
    BY <1>1 DEF left
  <1>3. /\ entry \in {"configure", "deactivate"} => lifecycle' = "Inactive"
        /\ entry = "activate" => lifecycle' = "Active"
        /\ entry \in {"error", "cleanup"} => lifecycle' = "Unconfigured"
        /\ entry = "shutdown" => lifecycle' = "Finalized"
        /\ entry = "destructor" => lifecycle' = "Destroyed"
        /\ entry \in {"giveUp", "fail"} => lifecycle' = "Failed"
        /\ entry = "read" => lifecycle' = lifecycle
    BY Zenon DEF Leave
  <1> QED BY <1>1, <1>2, <1>3

\* What is left stays the end of a script.
LEMMA ProgressStep ==
    ASSUME Progress, [Next]_vars
    PROVE  Progress'
  <1>1. CASE Enter
    <2>1. PICK e \in {"configure", "activate", "deactivate", "error", "cleanup", "shutdown",
                      "destructor", "read"} : entry' = e /\ todo' = Script(e)
      BY <1>1 DEF Enter
    <2>2. \E n \in Nat : Follows(Script(e), e, n)
      BY Begins DEF Stops, Teardowns
    <2> QED BY <2>1, <2>2 DEF Follows, Progress, left
  <1>2. ASSUME todo' = <<>> PROVE Progress'
    BY <1>2 DEF Progress, left
  <1>3. ASSUME todo' = todo, entry' = entry PROVE Progress'
    BY <1>3 DEF Progress, left
  <1>4. CASE Leave
    BY <1>4, <1>2 DEF Leave
  <1>5. ASSUME NEW step, Step(step), entry' = entry PROVE Progress'
    BY <1>5, StepTakes
  <1>6. CASE StopsAuxiliary \/ JoinsAuxiliary \/ StopsClient \/ JoinsClient \/ DestroysClient
    BY <1>5, <1>6 DEF StopsAuxiliary, JoinsAuxiliary, StopsClient, JoinsClient, DestroysClient
  <1>7. CASE Clears \/ Resets \/ Starts \/ GivesUp \/ ReadFetches \/ ReadSucceeds
    BY <1>5, <1>7 DEF Clears, Resets, Starts, GivesUp, ReadFetches, ReadSucceeds
  <1>8. CASE Creates
    <2>1. left' = 0
      BY <1>8, StepMoves DEF Creates, Moves, Due
    <2>2. todo' \in Seq(StepName)
      BY <1>8 DEF Creates, Step, Progress
    <2> QED BY <2>1, <2>2 DEF Progress, left
  <1>9. CASE RefusesToStart \/ ReadIsStale \/ ReadCannotWrite
    BY <1>2, <1>9 DEF RefusesToStart, ReadIsStale, ReadCannotWrite, Fails
  <1>10. CASE Waits
    <2>1. Follows(GiveUp, "giveUp", 3)
      BY Begins
    <2>2. CASE todo' = GiveUp /\ entry' = "giveUp"
      BY <2>1, <2>2 DEF Follows, Progress, left
    <2> QED BY <1>10, <2>2, <1>2 DEF Waits
  <1>11. CASE ReadChecks
    <2>1. CASE Fails
      BY <1>2, <2>1 DEF Fails
    <2>2. CASE todo' = Tail(todo) /\ entry' = entry
      <3>1. Step("check")
        BY <1>11, <2>2, Distinct DEF ReadChecks, Step, Entries
      <3> QED BY <2>2, <3>1, <1>5
    <2> QED BY <1>11, <2>1, <2>2 DEF ReadChecks
  <1>12. CASE \/ ClientReceives \/ CallbackStores \/ CallbackOverflows \/ CallbackCounts
              \/ ClientDelivers \/ ClientFails \/ ClientStops
    BY <1>3, <1>12 DEF ClientReceives, CallbackStores, CallbackOverflows, CallbackCounts,
       ClientDelivers, ClientFails, ClientStops
  <1>13. CASE \/ AuxTakesHealth \/ AuxPublishes \/ AuxReturns \/ AuxServesBias \/ AuxFails
              \/ AuxEnds \/ Tick
    BY <1>3, <1>13 DEF AuxTakesHealth, AuxPublishes, AuxReturns, AuxServesBias, AuxFails,
       AuxEnds, Tick
  <1>14. CASE UNCHANGED vars
    BY <1>3, <1>14 DEF vars
  <1> QED BY <1>1, <1>4, <1>6, <1>7, <1>8, <1>9, <1>10, <1>11, <1>12, <1>13, <1>14 DEF Next

-----------------------------------------------------------------------------
(* One lemma per part of the invariant *)

\* The inductive invariant holds when the program begins.
LEMMA InitIInv == Init => IInv
  <1> SUFFICES ASSUME Init PROVE IInv
    OBVIOUS
  <1> USE Distinct DEF Init
  <1>1. Progress /\ left = 0
    BY DEF Progress, left
  <1>2. PhaseOK /\ RoleOK /\ ValueOK
    BY DEF PhaseOK, RoleOK, ValueOK
  <1>3. CallOK /\ WorkerOK /\ QuietUnlessActive /\ AuxOK
    BY <1>1 DEF CallOK, WorkerOK, QuietUnlessActive, AuxOK, Entries, Teardowns, Stops
  <1>4. FlagOK /\ FaultKept
    BY ControlPluginAssumption DEF FlagOK, FaultKept, Entries
  <1>5. ReportOK
    BY DEF ReportOK, NoReport
  <1>6. SampleOK
    <2>1. InitialSample \in Sample /\ InitialSample.at = 0
      BY DEF InitialSample, Sample
    <2>2. Current(InitialSample)
      BY <2>1 DEF Current
    <2>3. /\ buffer \in [rt : Sample, nonrt : Sample, fresh : BOOLEAN]
          /\ buffer.rt = InitialSample /\ buffer.nonrt = InitialSample
      BY <2>1
    <2> QED BY <2>2, <2>3 DEF SampleOK, Entries
  <1>7. AxesOK /\ OnlyThisConfiguration
    BY DEF AxesOK, OnlyThisConfiguration, Invalid
  <1> QED BY <1>1, <1>2, <1>3, <1>4, <1>5, <1>6, <1>7 DEF IInv

\* Component and threads stay somewhere.
LEMMA PhaseStep ==
    ASSUME RoleOK, PhaseOK, [Next]_vars
    PROVE  PhaseOK'
  <1> USE DEF component, clientVars, auxVars, exported, readVars, PhaseOK
  <1>1. CASE Enter
    BY <1>1 DEF Enter
  <1>2. CASE Leave
    BY <1>2, LeaveTakes DEF RoleOK, Entries
  <1>3. CASE \/ StopsAuxiliary \/ JoinsAuxiliary \/ StopsClient \/ JoinsClient
             \/ DestroysClient \/ Clears \/ Creates \/ Resets \/ Starts \/ RefusesToStart
             \/ Waits \/ GivesUp
    BY <1>3 DEF StopsAuxiliary, JoinsAuxiliary, StopsClient, JoinsClient, DestroysClient,
       Clears, Creates, Resets, Starts, RefusesToStart, Waits, GivesUp
  <1>4. CASE \/ ReadFetches \/ ReadChecks \/ ReadIsStale \/ ReadSucceeds \/ ReadCannotWrite
    BY <1>4 DEF ReadFetches, ReadChecks, Fails, FaultSeen, ReadIsStale, LatchFatalFault,
       ReadSucceeds, ReadCannotWrite
  <1>5. CASE \/ ClientReceives \/ CallbackStores \/ CallbackOverflows \/ CallbackCounts
             \/ ClientDelivers \/ ClientFails \/ ClientStops
    BY <1>5 DEF ClientReceives, CallbackStores, CallbackOverflows, LatchFatalFault,
       CallbackCounts, ClientDelivers, ClientFails, ClientStops
  <1>6. CASE \/ AuxTakesHealth \/ AuxPublishes \/ AuxReturns \/ AuxServesBias \/ AuxFails
             \/ AuxEnds \/ Tick
    BY <1>6 DEF AuxTakesHealth, AuxPublishes, AuxReturns, AuxServesBias, AuxFails,
       LatchFatalFault, AuxEnds, Tick
  <1>7. CASE UNCHANGED vars
    BY <1>7 DEF vars
  <1> QED BY <1>1, <1>2, <1>3, <1>4, <1>5, <1>6, <1>7 DEF Next

\* So do the calls and the client.
LEMMA RoleStep ==
    ASSUME RoleOK, [Next]_vars
    PROVE  RoleOK'
  <1> USE DEF component, clientVars, auxVars, exported, readVars, RoleOK
  <1>1. CASE Enter
    BY <1>1 DEF Enter, Entries
  <1>2. CASE Leave
    BY <1>2 DEF Leave
  <1>3. CASE \/ StopsAuxiliary \/ JoinsAuxiliary \/ StopsClient \/ JoinsClient
             \/ DestroysClient \/ Clears \/ Creates \/ Resets \/ Starts \/ RefusesToStart
             \/ Waits \/ GivesUp
    BY <1>3 DEF StopsAuxiliary, JoinsAuxiliary, StopsClient, JoinsClient, DestroysClient,
       Clears, Creates, Entries, Resets, Starts, RefusesToStart, Waits, GivesUp
  <1>4. CASE \/ ReadFetches \/ ReadChecks \/ ReadIsStale \/ ReadSucceeds \/ ReadCannotWrite
    BY <1>4 DEF ReadFetches, ReadChecks, Fails, FaultSeen, ReadIsStale, LatchFatalFault,
       ReadSucceeds, ReadCannotWrite
  <1>5. CASE \/ ClientReceives \/ CallbackStores \/ CallbackOverflows \/ CallbackCounts
             \/ ClientDelivers \/ ClientFails \/ ClientStops
    BY <1>5 DEF ClientReceives, CallbackStores, CallbackOverflows, LatchFatalFault,
       CallbackCounts, ClientDelivers, ClientFails, ClientStops
  <1>6. CASE \/ AuxTakesHealth \/ AuxPublishes \/ AuxReturns \/ AuxServesBias \/ AuxFails
             \/ AuxEnds \/ Tick
    BY <1>6 DEF AuxTakesHealth, AuxPublishes, AuxReturns, AuxServesBias, AuxFails,
       LatchFatalFault, AuxEnds, Tick
  <1>7. CASE UNCHANGED vars
    BY <1>7 DEF vars
  <1> QED BY <1>1, <1>2, <1>3, <1>4, <1>5, <1>6, <1>7 DEF Next

\* Flags stay flags.
LEMMA FlagStep ==
    ASSUME FlagOK, [Next]_vars
    PROVE  FlagOK'
  <1> USE DEF component, clientVars, auxVars, exported, readVars, FlagOK
  <1>1. CASE Enter
    BY <1>1 DEF Enter
  <1>2. CASE Leave
    BY <1>2 DEF Leave
  <1>3. CASE \/ StopsAuxiliary \/ JoinsAuxiliary \/ StopsClient \/ JoinsClient
             \/ DestroysClient \/ Clears \/ Creates \/ Resets \/ Starts \/ RefusesToStart
             \/ Waits \/ GivesUp
    BY <1>3 DEF StopsAuxiliary, JoinsAuxiliary, StopsClient, JoinsClient, DestroysClient,
       Clears, Creates, Resets, Starts, RefusesToStart, Waits, GivesUp
  <1>4. CASE \/ ReadFetches \/ ReadChecks \/ ReadIsStale \/ ReadSucceeds \/ ReadCannotWrite
    BY <1>4 DEF ReadFetches, ReadChecks, Fails, FaultSeen, ReadIsStale, LatchFatalFault,
       ReadSucceeds, ReadCannotWrite
  <1>5. CASE \/ ClientReceives \/ CallbackStores \/ CallbackOverflows \/ CallbackCounts
             \/ ClientDelivers \/ ClientFails \/ ClientStops
    BY <1>5 DEF ClientReceives, CallbackStores, CallbackOverflows, LatchFatalFault,
       CallbackCounts, ClientDelivers, ClientFails, ClientStops
  <1>6. CASE \/ AuxTakesHealth \/ AuxPublishes \/ AuxReturns \/ AuxServesBias \/ AuxFails
             \/ AuxEnds \/ Tick
    BY <1>6 DEF AuxTakesHealth, AuxPublishes, AuxReturns, AuxServesBias, AuxFails,
       LatchFatalFault, AuxEnds, Tick
  <1>7. CASE UNCHANGED vars
    BY <1>7 DEF vars
  <1> QED BY <1>1, <1>2, <1>3, <1>4, <1>5, <1>6, <1>7 DEF Next

\* Faults, counters and the clock keep their types.
LEMMA ValueStep ==
    ASSUME ValueOK, [Next]_vars
    PROVE  ValueOK'
  <1> USE Codes DEF component, clientVars, auxVars, exported, readVars, ValueOK
  <1>1. CASE Enter
    BY <1>1, EnterCounts DEF Enter
  <1>2. CASE Leave
    BY <1>2 DEF Leave
  <1>3. CASE \/ StopsAuxiliary \/ JoinsAuxiliary \/ StopsClient \/ JoinsClient
             \/ DestroysClient \/ Clears \/ Creates \/ Resets \/ Starts \/ RefusesToStart
             \/ Waits \/ GivesUp
    BY <1>3 DEF StopsAuxiliary, JoinsAuxiliary, StopsClient, JoinsClient, DestroysClient,
       Clears, Creates, Resets, Starts, RefusesToStart, Waits, GivesUp
  <1>4. CASE \/ ReadFetches \/ ReadChecks \/ ReadIsStale \/ ReadSucceeds \/ ReadCannotWrite
    BY <1>4 DEF ReadFetches, ReadChecks, Fails, FaultSeen, ReadIsStale, LatchFatalFault,
       ReadSucceeds, ReadCannotWrite
  <1>5. CASE \/ ClientReceives \/ CallbackStores \/ CallbackOverflows \/ CallbackCounts
             \/ ClientDelivers \/ ClientFails \/ ClientStops
    BY <1>5 DEF ClientReceives, CallbackStores, CallbackOverflows, LatchFatalFault,
       CallbackCounts, ClientDelivers, ClientFails, ClientStops
  <1>6. CASE \/ AuxTakesHealth \/ AuxPublishes \/ AuxReturns \/ AuxServesBias \/ AuxFails
             \/ AuxEnds
    BY <1>6 DEF AuxTakesHealth, AuxPublishes, AuxReturns, AuxServesBias, AuxFails,
       LatchFatalFault, AuxEnds
  <1>7. CASE Tick
    BY <1>7 DEF Tick
  <1>8. CASE UNCHANGED vars
    BY <1>8 DEF vars
  <1> QED BY <1>1, <1>2, <1>3, <1>4, <1>5, <1>6, <1>7, <1>8 DEF Next

\* Calls stay where the controller manager makes them.
LEMMA CallStep ==
    ASSUME Progress, RoleOK, FlagOK, CallOK, [Next]_vars
    PROVE  CallOK'
  <1> USE Distinct DEF component, clientVars, auxVars, exported, readVars, CallOK, RoleOK,
      Entries
  <1>1. CASE Enter
    BY <1>1, EnterCalls, EnterKeeps
  <1>2. CASE Leave
    BY <1>2, LeaveTakes
  <1>3. CASE \/ StopsAuxiliary \/ JoinsAuxiliary \/ StopsClient \/ JoinsClient
             \/ DestroysClient \/ Clears \/ Creates \/ Resets \/ Starts \/ GivesUp
             \/ ReadFetches \/ ReadSucceeds
    BY <1>3, StepMoves DEF StopsAuxiliary, JoinsAuxiliary, StopsClient, JoinsClient,
       DestroysClient, Clears, Creates, Resets, Starts, GivesUp, ReadFetches, ReadSucceeds,
       Moves, Due, Teardowns, Stops
  <1>4. CASE RefusesToStart
    <2>1. entry = "activate" /\ left = 2 /\ left' = 0
      BY <1>4, LeavesEarly
    <2> QED BY <1>4, <2>1 DEF RefusesToStart
  <1>5. CASE Waits
    <2>1. /\ entry = "activate" /\ left = 1
          /\ (left' = 0 /\ entry' = "activate") \/ (left' = 3 /\ entry' = "giveUp")
      BY <1>5, LeavesEarly
    <2> QED BY <1>5, <2>1 DEF Waits
  <1>6. CASE ReadChecks
    <2>1. CASE Fails /\ left' = 0 /\ (fatal' # None \/ writeFault' = TRUE)
      BY <1>6, <2>1, ReadDecides DEF Fails
    <2>2. CASE /\ left' = 1 /\ fatal = None /\ writeFault = FALSE
               /\ UNCHANGED <<lifecycle, entry, clientVars, auxVars, readVars, fatal, writeFault>>
      BY <1>6, <2>2, ReadDecides
    <2> QED BY <1>6, <2>1, <2>2, ReadDecides
  <1>7. CASE ReadIsStale
    <2>1. entry = "read" /\ left = 1 /\ left' = 0
      BY <1>7, LeavesEarly
    <2> QED BY <1>7, <2>1 DEF ReadIsStale, Fails, LatchFatalFault
  <1>8. CASE ReadCannotWrite
    <2>1. entry = "read" /\ left = 1 /\ left' = 0
      BY <1>8, LeavesEarly
    <2> QED BY <1>8, <2>1 DEF ReadCannotWrite, Fails
  <1>9. CASE \/ ClientReceives \/ CallbackStores \/ CallbackOverflows \/ CallbackCounts
             \/ ClientDelivers \/ ClientFails \/ ClientStops
    BY <1>9, SameLeft DEF ClientReceives, CallbackStores, CallbackOverflows, LatchFatalFault,
       CallbackCounts, ClientDelivers, ClientFails, ClientStops
  <1>10. CASE \/ AuxTakesHealth \/ AuxPublishes \/ AuxReturns \/ AuxServesBias \/ AuxFails
              \/ AuxEnds \/ Tick
    BY <1>10, SameLeft DEF AuxTakesHealth, AuxPublishes, AuxReturns, AuxServesBias, AuxFails,
       LatchFatalFault, AuxEnds, Tick
  <1>11. CASE UNCHANGED vars
    BY <1>11, SameLeft DEF vars
  <1> QED BY <1>1, <1>2, <1>3, <1>4, <1>5, <1>6, <1>7, <1>8, <1>9, <1>10, <1>11 DEF Next

\* A receiver is stopped by the call that has to stop it.
LEMMA WorkerStep ==
    ASSUME Progress, RoleOK, FlagOK, CallOK, WorkerOK, [Next]_vars
    PROVE  WorkerOK'
  <1> USE Distinct DEF component, clientVars, auxVars, exported, readVars, WorkerOK,
      QuietUnlessActive,
      RoleOK, Entries
  <1>1. CASE Enter
    BY <1>1, EnterCalls, EnterKeeps DEF CallOK
  <1>2. CASE Leave
    BY <1>2, LeaveTakes DEF CallOK
  <1>3. CASE \/ StopsAuxiliary \/ JoinsAuxiliary \/ StopsClient \/ JoinsClient
             \/ DestroysClient \/ Clears \/ Creates \/ Resets \/ Starts \/ GivesUp
             \/ ReadFetches \/ ReadSucceeds
    BY <1>3, StepMoves DEF StopsAuxiliary, JoinsAuxiliary, StopsClient, JoinsClient,
       DestroysClient, Clears, Creates, Resets, Starts, GivesUp, ReadFetches, ReadSucceeds,
       Moves, Due, Teardowns, Stops
  <1>4. CASE RefusesToStart
    <2>1. entry = "activate" /\ left = 2 /\ left' = 0
      BY <1>4, LeavesEarly
    <2> QED BY <1>4, <2>1 DEF RefusesToStart
  <1>5. CASE Waits
    <2>1. /\ entry = "activate" /\ left = 1
          /\ (left' = 0 /\ entry' = "activate") \/ (left' = 3 /\ entry' = "giveUp")
      BY <1>5, LeavesEarly
    <2> QED BY <1>5, <2>1 DEF Waits
  <1>6. CASE ReadChecks
    <2>1. CASE Fails /\ left' = 0 /\ (fatal' # None \/ writeFault' = TRUE)
      BY <1>6, <2>1, ReadDecides DEF Fails
    <2>2. CASE /\ left' = 1 /\ fatal = None /\ writeFault = FALSE
               /\ UNCHANGED <<lifecycle, entry, clientVars, auxVars, readVars, fatal, writeFault>>
      BY <1>6, <2>2, ReadDecides
    <2> QED BY <1>6, <2>1, <2>2, ReadDecides
  <1>7. CASE ReadIsStale
    <2>1. entry = "read" /\ left = 1 /\ left' = 0
      BY <1>7, LeavesEarly
    <2> QED BY <1>7, <2>1 DEF ReadIsStale, Fails, LatchFatalFault
  <1>8. CASE ReadCannotWrite
    <2>1. entry = "read" /\ left = 1 /\ left' = 0
      BY <1>8, LeavesEarly
    <2> QED BY <1>8, <2>1 DEF ReadCannotWrite, Fails
  <1>9. CASE \/ ClientReceives \/ CallbackStores \/ CallbackOverflows \/ CallbackCounts
             \/ ClientDelivers \/ ClientFails \/ ClientStops
    BY <1>9, SameLeft DEF ClientReceives, CallbackStores, CallbackOverflows, LatchFatalFault,
       CallbackCounts, ClientDelivers, ClientFails, ClientStops
  <1>10. CASE \/ AuxTakesHealth \/ AuxPublishes \/ AuxReturns \/ AuxServesBias \/ AuxFails
              \/ AuxEnds \/ Tick
    BY <1>10, SameLeft DEF AuxTakesHealth, AuxPublishes, AuxReturns, AuxServesBias, AuxFails,
       LatchFatalFault, AuxEnds, Tick
  <1>11. CASE UNCHANGED vars
    BY <1>11, SameLeft DEF vars
  <1> QED BY <1>1, <1>2, <1>3, <1>4, <1>5, <1>6, <1>7, <1>8, <1>9, <1>10, <1>11 DEF Next

\* Neither thread outlives the client.
LEMMA AuxStep ==
    ASSUME Progress, RoleOK, FlagOK, CallOK, WorkerOK, AuxOK, [Next]_vars
    PROVE  AuxOK'
  <1> USE Distinct DEF component, clientVars, auxVars, exported, readVars, AuxOK, RoleOK,
      Entries, Teardowns, Stops
  <1>1. CASE Enter
    BY <1>1, EnterCalls, EnterKeeps DEF CallOK
  <1>2. CASE Leave
    BY <1>2, LeaveTakes DEF CallOK
  <1>3. CASE \/ StopsAuxiliary \/ JoinsAuxiliary \/ StopsClient \/ JoinsClient
             \/ DestroysClient \/ Clears \/ Creates \/ Resets \/ Starts \/ GivesUp
             \/ ReadFetches \/ ReadSucceeds
    BY <1>3, StepMoves DEF StopsAuxiliary, JoinsAuxiliary, StopsClient, JoinsClient,
       DestroysClient, WorkerOK, Clears, Creates, Resets, Starts, GivesUp, ReadFetches,
       ReadSucceeds, Moves, Due, Teardowns, Stops
  <1>4. CASE RefusesToStart
    <2>1. entry = "activate" /\ left = 2 /\ left' = 0
      BY <1>4, LeavesEarly
    <2> QED BY <1>4, <2>1 DEF RefusesToStart
  <1>5. CASE Waits
    <2>1. /\ entry = "activate" /\ left = 1
          /\ (left' = 0 /\ entry' = "activate") \/ (left' = 3 /\ entry' = "giveUp")
      BY <1>5, LeavesEarly
    <2> QED BY <1>5, <2>1 DEF Waits
  <1>6. CASE ReadChecks
    <2>1. CASE Fails /\ left' = 0 /\ (fatal' # None \/ writeFault' = TRUE)
      BY <1>6, <2>1, ReadDecides DEF Fails
    <2>2. CASE /\ left' = 1 /\ fatal = None /\ writeFault = FALSE
               /\ UNCHANGED <<lifecycle, entry, clientVars, auxVars, readVars, fatal, writeFault>>
      BY <1>6, <2>2, ReadDecides
    <2> QED BY <1>6, <2>1, <2>2, ReadDecides
  <1>7. CASE ReadIsStale
    <2>1. entry = "read" /\ left = 1 /\ left' = 0
      BY <1>7, LeavesEarly
    <2> QED BY <1>7, <2>1 DEF ReadIsStale, Fails, LatchFatalFault
  <1>8. CASE ReadCannotWrite
    <2>1. entry = "read" /\ left = 1 /\ left' = 0
      BY <1>8, LeavesEarly
    <2> QED BY <1>8, <2>1 DEF ReadCannotWrite, Fails
  <1>9. CASE \/ ClientReceives \/ CallbackStores \/ CallbackOverflows \/ CallbackCounts
             \/ ClientDelivers \/ ClientFails \/ ClientStops
    BY <1>9, SameLeft DEF ClientReceives, CallbackStores, CallbackOverflows, LatchFatalFault,
       CallbackCounts, ClientDelivers, ClientFails, ClientStops
  <1>10. CASE \/ AuxTakesHealth \/ AuxPublishes \/ AuxReturns \/ AuxServesBias \/ AuxFails
              \/ AuxEnds \/ Tick
    BY <1>10, SameLeft DEF AuxTakesHealth, AuxPublishes, AuxReturns, AuxServesBias, AuxFails,
       LatchFatalFault, AuxEnds, Tick
  <1>11. CASE UNCHANGED vars
    BY <1>11, SameLeft DEF vars
  <1> QED BY <1>1, <1>2, <1>3, <1>4, <1>5, <1>6, <1>7, <1>8, <1>9, <1>10, <1>11 DEF Next

\* What made a read() fail is kept until on_configure().
LEMMA FaultStep ==
    ASSUME Progress, RoleOK, FlagOK, FaultKept, [Next]_vars
    PROVE  FaultKept'
  <1> USE Distinct, Codes DEF component, clientVars, auxVars, exported, readVars, FaultKept,
      RoleOK,
      Entries
  <1>0. ASSUME UNCHANGED <<entry, todo, fatal, writeFault, readVars>> PROVE FaultKept'
    BY <1>0, SameLeft
  <1>1. CASE Enter
    BY <1>1, EnterCalls, EnterKeeps
  <1>2. CASE Leave
    BY <1>2, LeaveTakes
  <1>3. CASE \/ StopsAuxiliary \/ JoinsAuxiliary \/ StopsClient \/ JoinsClient
             \/ DestroysClient \/ Clears \/ Creates \/ Resets \/ Starts \/ GivesUp
             \/ ReadFetches \/ ReadSucceeds
    BY <1>3, StepMoves DEF StopsAuxiliary, JoinsAuxiliary, StopsClient, JoinsClient,
       DestroysClient, Clears, Creates, Resets, Starts, GivesUp, ReadFetches, ReadSucceeds,
       Moves, Due, Teardowns, Stops
  <1>4. CASE RefusesToStart
    <2>1. entry = "activate" /\ left = 2 /\ left' = 0
      BY <1>4, LeavesEarly
    <2> QED BY <1>4, <2>1 DEF RefusesToStart
  <1>5. CASE Waits
    <2>1. /\ entry = "activate" /\ left = 1
          /\ (left' = 0 /\ entry' = "activate") \/ (left' = 3 /\ entry' = "giveUp")
      BY <1>5, LeavesEarly
    <2> QED BY <1>5, <2>1 DEF Waits
  <1>6. CASE ReadChecks
    <2>1. CASE Fails /\ left' = 0 /\ (fatal' # None \/ writeFault' = TRUE)
      BY <1>6, <2>1, ReadDecides DEF Fails
    <2>2. CASE /\ left' = 1 /\ fatal = None /\ writeFault = FALSE
               /\ UNCHANGED <<lifecycle, entry, clientVars, auxVars, readVars, fatal, writeFault>>
      BY <1>6, <2>2, ReadDecides
    <2> QED BY <1>6, <2>1, <2>2, ReadDecides
  <1>7. CASE ReadIsStale
    <2>1. entry = "read" /\ left = 1 /\ left' = 0
      BY <1>7, LeavesEarly
    <2> QED BY <1>7, <2>1 DEF ReadIsStale, Fails, LatchFatalFault
  <1>8. CASE ReadCannotWrite
    <2>1. entry = "read" /\ left = 1 /\ left' = 0
      BY <1>8, LeavesEarly
    <2> QED BY <1>8, <2>1 DEF ReadCannotWrite, Fails
  <1>9. CASE \/ ClientReceives \/ CallbackStores \/ CallbackCounts \/ ClientDelivers
             \/ ClientFails \/ ClientStops
    BY <1>9, <1>0 DEF ClientReceives, CallbackStores, CallbackCounts, ClientDelivers,
       ClientFails, ClientStops
  <1>10. CASE \/ CallbackOverflows \/ AuxFails
    BY <1>10, SameLeft DEF CallbackOverflows, AuxFails, LatchFatalFault
  <1>11. CASE \/ AuxTakesHealth \/ AuxPublishes \/ AuxReturns \/ AuxServesBias \/ AuxEnds
              \/ Tick
    BY <1>11, <1>0 DEF AuxTakesHealth, AuxPublishes, AuxReturns, AuxServesBias, AuxEnds, Tick
  <1>12. CASE UNCHANGED vars
    BY <1>12, <1>0 DEF vars
  <1> QED BY <1>1, <1>2, <1>3, <1>4, <1>5, <1>6, <1>7, <1>8, <1>9, <1>10, <1>11, <1>12 DEF Next

\* A report begun after a failed read() finds what made it fail: on_configure()
\* forgets it only when the auxiliary thread is gone.
LEMMA ReportStep ==
    ASSUME Progress, RoleOK, FlagOK, ValueOK, AuxOK, FaultKept, ReportOK, [Next]_vars
    PROVE  ReportOK'
  <1> USE Distinct DEF component, clientVars, auxVars, exported, readVars
  <1>1. ASSUME UNCHANGED <<aux, snapshot, report>>,
               fatal # None => fatal' # None, writeFault => writeFault'
        PROVE  ReportOK'
    BY <1>1 DEF ReportOK
  <1>2. ASSUME aux' # "reported", aux' # "reporting", report' = NoReport
        PROVE  ReportOK'
    BY <1>2 DEF ReportOK, NoReport
  <1>3. NoReport \in [error : BOOLEAN, fault : FaultCode \cup {None}, late : BOOLEAN]
    BY DEF NoReport
  <1>4. CASE Enter \/ Leave
    BY <1>4, <1>1 DEF Enter, Leave
  <1>5. CASE Clears
    <2>1. aux = "none"
      BY <1>5, StepMoves DEF Clears, Moves, Due, AuxOK, Teardowns, Stops
    <2> QED BY <1>2, <1>5, <2>1 DEF Clears, ReportOK
  <1>6. CASE JoinsAuxiliary
    BY <1>2, <1>6 DEF JoinsAuxiliary, ReportOK
  <1>7. CASE Creates
    <2>1. aux = "none"
      BY <1>7, StepMoves DEF Creates, Moves, Due, AuxOK, Teardowns, Stops
    <2> QED BY <1>2, <1>7, <2>1 DEF Creates, ReportOK
  <1>8. CASE \/ StopsAuxiliary \/ StopsClient \/ JoinsClient \/ DestroysClient \/ Resets
             \/ Starts \/ RefusesToStart \/ Waits \/ GivesUp
    BY <1>1, <1>8 DEF StopsAuxiliary, StopsClient, JoinsClient, DestroysClient, Resets,
       Starts, RefusesToStart, Waits, GivesUp
  <1>9. CASE ReadFetches \/ ReadIsStale \/ ReadSucceeds \/ ReadCannotWrite
    BY <1>1, <1>9, Codes DEF ReadFetches, ReadIsStale, ReadSucceeds, ReadCannotWrite, Fails,
       LatchFatalFault
  <1>10. CASE ReadChecks
    <2>1. /\ UNCHANGED <<aux, snapshot, report>> /\ writeFault' = writeFault
          /\ fatal' = IF fatal = None THEN clientFault ELSE fatal
      BY <1>10 DEF ReadChecks, FaultSeen, Fails
    <2> QED BY <1>1, <2>1
  <1>11. CASE \/ ClientReceives \/ CallbackStores \/ CallbackOverflows \/ CallbackCounts
              \/ ClientDelivers \/ ClientFails \/ ClientStops
    BY <1>1, <1>11, Codes DEF ClientReceives, CallbackStores, CallbackOverflows,
       LatchFatalFault, CallbackCounts, ClientDelivers, ClientFails, ClientStops
  <1>12. CASE AuxTakesHealth
    <2>1. /\ aux = "spinning" /\ aux' = "reporting"
          /\ UNCHANGED <<report, fatal, writeFault>>
          /\ snapshot' = [fault |-> clientFault, stopped |-> client = "stopped", late |-> errored]
      BY <1>12 DEF AuxTakesHealth
    <2>2. clientFault \in FaultCode \cup {None} /\ errored \in BOOLEAN
      BY DEF ValueOK, FlagOK
    <2>3. snapshot' \in [fault : FaultCode \cup {None}, stopped : BOOLEAN, late : BOOLEAN]
      BY <2>1, <2>2, Zenon
    <2>4. snapshot'.late = errored
      BY <2>1, Zenon
    <2>5. errored => fatal' # None \/ writeFault'
      BY <2>1 DEF FaultKept
    <2>6. report = NoReport /\ report' = NoReport
      BY <2>1 DEF ReportOK
    <2> QED BY <1>3, <2>1, <2>3, <2>4, <2>5, <2>6 DEF ReportOK, NoReport
  <1>13. CASE AuxPublishes
    <2>1. PICK error \in IF ReportedFault # None \/ snapshot.stopped THEN {TRUE} ELSE BOOLEAN :
            report' = [error |-> error, fault |-> ReportedFault, late |-> snapshot.late]
      BY <1>13 DEF AuxPublishes
    <2>2. /\ aux = "reporting" /\ aux' = "reported" /\ UNCHANGED <<fatal, writeFault>>
      BY <1>13 DEF AuxPublishes
    <2>3. /\ snapshot \in [fault : FaultCode \cup {None}, stopped : BOOLEAN, late : BOOLEAN]
          /\ snapshot.late => fatal # None \/ writeFault
      BY <2>2 DEF ReportOK
    <2>4. ReportedFault \in FaultCode \cup {None} /\ (fatal # None => ReportedFault # None)
      BY <2>3 DEF ReportedFault, ValueOK
    <2>5. error \in BOOLEAN /\ (ReportedFault # None => error)
      BY <2>1, Zenon
    <2>6. /\ report' \in [error : BOOLEAN, fault : FaultCode \cup {None}, late : BOOLEAN]
          /\ report'.error = error /\ report'.late = snapshot.late
      BY <2>1, <2>3, <2>4, <2>5, Zenon
    <2>7. report'.late => report'.error \/ writeFault'
      BY <2>2, <2>3, <2>4, <2>5, <2>6
    <2> QED BY <2>2, <2>6, <2>7 DEF ReportOK
  <1>14. CASE AuxReturns \/ AuxServesBias \/ AuxEnds
    BY <1>2, <1>14 DEF AuxReturns, AuxServesBias, AuxEnds, ReportOK
  <1>15. CASE AuxFails
    BY <1>2, <1>15 DEF AuxFails, ReportOK
  <1>16. CASE Tick
    BY <1>1, <1>16 DEF Tick
  <1>17. CASE UNCHANGED vars
    BY <1>1, <1>17 DEF vars
  <1> QED BY <1>4, <1>5, <1>6, <1>7, <1>8, <1>9, <1>10, <1>11, <1>12, <1>13, <1>14, <1>15,
             <1>16, <1>17 DEF Next

\* A sample in the buffer belongs to this configuration: on_configure() empties
\* the buffer after the receiver of the last one has ended.
LEMMA SampleStep ==
    ASSUME Progress, RoleOK, FlagOK, ValueOK, CallOK, WorkerOK, SampleOK, [Next]_vars
    PROVE  SampleOK'
  <1> USE Distinct DEF component, clientVars, auxVars, exported, readVars, RoleOK, Entries
  <1>1. ASSUME UNCHANGED <<buffer, incoming, count>>, worker' = "callback" => worker = "callback",
               held' = None \/ held' = held,
               entry' = "read" /\ left' \in {1, 2} =>
                  held' = held /\ entry = "read" /\ left \in {1, 2},
               ~ (entry' = "configure" /\ left' \in {2, 3, 4, 5, 6, 7}) =>
                  ~ (entry = "configure" /\ left \in {2, 3, 4, 5, 6, 7})
        PROVE  SampleOK'
    BY <1>1 DEF SampleOK, Current
  <1>2. CASE Enter
    <2>1. CASE entry' = "configure"
      <3>1. worker = "none" /\ worker' = "none" /\ left' = 7
        BY <1>2, <2>1, EnterCalls, EnterKeeps DEF WorkerOK, QuietUnlessActive
      <3>2. UNCHANGED <<buffer, incoming, held>>
        BY <1>2, EnterKeeps
      <3> QED BY <2>1, <3>1, <3>2 DEF SampleOK
    <2>2. CASE entry' # "configure"
      <3>1. /\ count'.configure = count.configure /\ UNCHANGED <<buffer, incoming, held, worker>>
            /\ entry = None /\ ~ (entry' = "read" /\ left' \in {1, 2})
        BY <1>2, <2>2, EnterCalls, EnterKeeps, EnterCounts
      <3> QED BY <2>2, <3>1 DEF SampleOK, Current
    <2> QED BY <2>1, <2>2
  <1>3. CASE Leave
    BY <1>1, <1>3, LeaveTakes
  <1>4. CASE \/ StopsAuxiliary \/ JoinsAuxiliary \/ StopsClient \/ JoinsClient
             \/ DestroysClient \/ Creates \/ Resets \/ Starts \/ GivesUp \/ ReadSucceeds
    <2>1. /\ UNCHANGED <<buffer, incoming, count>> /\ (held' = None \/ held' = held)
          /\ worker' = "callback" => worker = "callback"
      BY <1>4 DEF StopsAuxiliary, JoinsAuxiliary, StopsClient, JoinsClient, DestroysClient,
         Creates, Resets, Starts, GivesUp, ReadSucceeds
    <2>2. ~ (entry' = "read" /\ left' \in {1, 2})
      BY <1>4, StepMoves DEF StopsAuxiliary, JoinsAuxiliary, StopsClient, JoinsClient,
         DestroysClient, Creates, Resets, Starts, GivesUp, ReadSucceeds, Moves, Due,
         Teardowns, Stops
    <2>3. entry = "configure" /\ left \in {2, 3, 4, 5, 6, 7} =>
             entry' = "configure" /\ left' \in {2, 3, 4, 5, 6, 7}
      BY <1>4, StepMoves DEF StopsAuxiliary, JoinsAuxiliary, StopsClient, JoinsClient,
         DestroysClient, Creates, Resets, Starts, GivesUp, ReadSucceeds, Moves, Due,
         Teardowns, Stops
    <2> QED BY <1>1, <2>1, <2>2, <2>3
  <1>5. CASE Clears
    <2>1. entry' = "configure" /\ left' = 1
      BY <1>5, StepMoves DEF Clears, Moves, Due, Teardowns, Stops
    <2>2. InitialSample \in Sample /\ InitialSample.at = 0
      BY DEF InitialSample, Sample
    <2>3. /\ buffer' \in [rt : Sample, nonrt : Sample, fresh : BOOLEAN]
          /\ buffer'.rt = InitialSample /\ buffer'.nonrt = InitialSample
          /\ UNCHANGED <<incoming, held, worker, count>>
      BY <1>5, <2>2 DEF Clears
    <2> QED BY <2>1, <2>2, <2>3 DEF SampleOK, Current
  <1>6. CASE RefusesToStart
    <2>1. entry = "activate" /\ entry' = "fail"
      BY <1>6 DEF RefusesToStart
    <2> QED BY <1>1, <1>6, <2>1 DEF RefusesToStart
  <1>7. CASE Waits
    <2>1. entry = "activate" /\ entry' \in {"activate", "giveUp"}
      BY <1>7 DEF Waits
    <2> QED BY <1>1, <1>7, <2>1 DEF Waits
  <1>8. CASE ReadFetches
    <2>1. entry = "read" /\ entry' = "read" /\ left' = 2 /\ UNCHANGED <<incoming, worker, count>>
      BY <1>8, StepMoves DEF ReadFetches, Moves, Due, Teardowns, Stops
    <2>2. /\ buffer \in [rt : Sample, nonrt : Sample, fresh : BOOLEAN]
          /\ Current(buffer.rt) /\ Current(buffer.nonrt)
      BY <2>1 DEF SampleOK
    <2>3. /\ buffer' \in [rt : Sample, nonrt : Sample, fresh : BOOLEAN]
          /\ {buffer'.rt, buffer'.nonrt, held'} \subseteq {buffer.rt, buffer.nonrt}
      <3>1. CASE /\ held' = buffer.nonrt
                 /\ buffer' = [rt |-> buffer.nonrt, nonrt |-> buffer.rt, fresh |-> FALSE]
        BY <2>2, <3>1
      <3>2. CASE held' = buffer.rt /\ UNCHANGED buffer
        BY <2>2, <3>2
      <3> QED BY <1>8, <3>1, <3>2 DEF ReadFetches
    <2> QED BY <2>1, <2>2, <2>3 DEF SampleOK, Current
  <1>9. CASE ReadChecks
    <2>1. CASE Fails /\ left' = 0
      BY <1>9, <1>1, <2>1, ReadDecides DEF Fails
    <2>2. CASE left' = 1 /\ UNCHANGED <<entry, clientVars, buffer, readVars, count>>
      BY <1>9, <1>1, <2>2, ReadDecides
    <2> QED BY <1>9, <2>1, <2>2, ReadDecides
  <1>10. CASE ReadIsStale \/ ReadCannotWrite
    <2>1. entry = "read" /\ left' = 0
      BY <1>10, LeavesEarly
    <2>2. Fails
      BY <1>10 DEF ReadIsStale, ReadCannotWrite
    <2> QED BY <1>1, <2>1, <2>2 DEF Fails
  <1>11. CASE ClientReceives
    <2>1. incoming' \in Sample /\ incoming'.conf = count.configure
      BY <1>11 DEF ClientReceives, Sample, ValueOK
    <2>2. UNCHANGED <<entry, left, buffer, held, count>>
      BY <1>11, SameLeft DEF ClientReceives
    <2> QED BY <2>1, <2>2 DEF SampleOK, Current
  <1>12. CASE CallbackStores
    <2>1. incoming \in Sample /\ incoming.conf = count.configure
      BY <1>12 DEF CallbackStores, SampleOK
    <2>2. /\ buffer' \in [rt : Sample, nonrt : Sample, fresh : BOOLEAN]
          /\ buffer'.rt = buffer.rt /\ buffer'.nonrt = incoming
      BY <1>12, <2>1 DEF CallbackStores, SampleOK
    <2>3. /\ UNCHANGED <<entry, left, held, count>>
          /\ incoming' = None /\ worker' = "stored"
      BY <1>12, SameLeft DEF CallbackStores
    <2> QED BY <2>1, <2>2, <2>3 DEF SampleOK, Current
  <1>13. CASE CallbackOverflows
    <2>1. /\ UNCHANGED <<entry, left, held, count, buffer>>
          /\ incoming' = None /\ worker' = "threw"
      BY <1>13, SameLeft DEF CallbackOverflows
    <2> QED BY <2>1 DEF SampleOK, Current
  <1>14. CASE CallbackCounts \/ ClientDelivers \/ ClientFails \/ ClientStops
    BY <1>1, <1>14, SameLeft DEF CallbackCounts, ClientDelivers, ClientFails, ClientStops
  <1>15. CASE \/ AuxTakesHealth \/ AuxPublishes \/ AuxReturns \/ AuxServesBias \/ AuxFails
              \/ AuxEnds \/ Tick
    BY <1>1, <1>15, SameLeft DEF AuxTakesHealth, AuxPublishes, AuxReturns, AuxServesBias,
       AuxFails, AuxEnds, Tick
  <1>16. CASE UNCHANGED vars
    BY <1>1, <1>16, SameLeft DEF vars
  <1> QED BY <1>2, <1>3, <1>4, <1>5, <1>6, <1>7, <1>8, <1>9, <1>10, <1>11, <1>12, <1>13,
             <1>14, <1>15, <1>16 DEF Next

-----------------------------------------------------------------------------
(* What the controllers see *)

\* invalidate_interfaces() leaves NaN on an interface, or its old number if its handle
\* refused.
LEMMA InvalidatesAll ==
    ASSUME NEW values \in [Axes -> Sample \cup {NaN}], Invalidates(values)
    PROVE  /\ axes' \in [Axes -> Sample \cup {NaN}]
           /\ refused' \in SUBSET Axes /\ (refused' # {} => modern)
           /\ \A a \in Axes : axes'[a] = NaN \/ a \in refused'
  <1>1. PICK refusing \in IF modern THEN SUBSET Axes ELSE {{}} :
            /\ axes' = [a \in Axes |-> IF a \in refusing THEN values[a] ELSE NaN]
            /\ refused' = {a \in refusing : values[a] # NaN}
    BY DEF Invalidates
  <1>2. refusing \in SUBSET Axes /\ (~ modern => refusing = {})
    OBVIOUS
  <1>3. \A a \in Axes : axes'[a] = NaN \/ a \in refused'
    BY <1>1
  <1> QED BY <1>1, <1>2, <1>3

\* Only a read() that succeeds leaves anything but NaN to be seen.
LEMMA AxesStep ==
    ASSUME Progress, RoleOK, FlagOK, CallOK, FaultKept, SampleOK, AxesOK, [Next]_vars
    PROVE  AxesOK'
  <1> USE Distinct DEF component, clientVars, auxVars, exported, readVars, RoleOK, Entries,
      Teardowns, Stops
  <1>1. ASSUME UNCHANGED <<modern, exported>>, Cleared' => Cleared
        PROVE  AxesOK'
    BY <1>1 DEF AxesOK
  <1>2. ASSUME UNCHANGED modern, NEW values \in [Axes -> Sample \cup {NaN}], Invalidates(values)
        PROVE  AxesOK'
    BY <1>2, InvalidatesAll DEF AxesOK
  <1>3. axes \in [Axes -> Sample \cup {NaN}]
    BY DEF AxesOK
  <1>4. CASE Enter
    <2>1. UNCHANGED <<modern, exported>>
      BY <1>4, EnterKeeps
    <2>2. Cleared' => Cleared
      BY <1>4, EnterCalls, EnterKeeps DEF Cleared
    <2> QED BY <1>1, <2>1, <2>2
  <1>5. CASE Leave
    <2>1. UNCHANGED <<modern, exported>>
      BY <1>5, LeaveTakes
    <2>2. Cleared' => Cleared
      BY <1>5, LeaveTakes DEF Cleared, CallOK
    <2> QED BY <1>1, <2>1, <2>2
  <1>6. CASE \/ StopsAuxiliary \/ JoinsAuxiliary \/ StopsClient \/ JoinsClient
             \/ DestroysClient \/ Creates \/ Starts \/ ReadFetches
    <2>1. UNCHANGED <<modern, exported>>
      BY <1>6 DEF StopsAuxiliary, JoinsAuxiliary, StopsClient, JoinsClient, DestroysClient,
         Creates, Starts, ReadFetches
    <2>2. Cleared' => Cleared
      BY <1>6, StepMoves DEF StopsAuxiliary, JoinsAuxiliary, StopsClient, JoinsClient,
         DestroysClient, Creates, Starts, ReadFetches, Moves, Due, Cleared
    <2> QED BY <1>1, <2>1, <2>2
  <1>7. CASE Clears \/ Resets \/ GivesUp \/ RefusesToStart
    BY <1>2, <1>3, <1>7 DEF Clears, Resets, GivesUp, RefusesToStart
  <1>8. CASE Waits
    BY <1>1, <1>8 DEF Waits, Cleared
  <1>9. CASE ReadChecks
    <2>1. CASE Fails /\ Invalidates(axes)
      BY <1>2, <1>3, <2>1 DEF Fails
    <2>2. CASE left' = 1 /\ UNCHANGED <<component, entry, exported>>
      BY <1>9, <1>1, <2>2, ReadDecides DEF Cleared
    <2> QED BY <1>9, <2>1, <2>2, ReadDecides
  <1>10. CASE ReadIsStale
    BY <1>2, <1>3, <1>10 DEF ReadIsStale, Fails
  <1>11. CASE ReadSucceeds
    <2>1. entry = "read" /\ entry' = "read" /\ left = 1 /\ left' = 0 /\ result' = "OK"
      BY <1>11, StepMoves DEF ReadSucceeds, Moves, Due
    <2>2. held \in Sample
      BY <2>1 DEF SampleOK, Current
    <2>3. axes' \in [Axes -> Sample \cup {NaN}] /\ refused' = {}
      BY <1>11, <2>2 DEF ReadSucceeds
    <2> QED BY <2>1, <2>3 DEF AxesOK, Cleared
  <1>12. CASE ReadCannotWrite
    <2>1. entry = "read" /\ left = 1
      BY <1>12, LeavesEarly
    <2>2. held \in Sample
      BY <2>1 DEF SampleOK, Current
    <2>3. PICK written : Invalidates([a \in Axes |-> IF a \in written THEN held ELSE axes[a]])
      BY <1>12 DEF ReadCannotWrite
    <2>4. [a \in Axes |-> IF a \in written THEN held ELSE axes[a]] \in [Axes -> Sample \cup {NaN}]
      BY <1>3, <2>2
    <2>5. modern' = modern
      BY <1>12 DEF ReadCannotWrite, Fails
    <2> QED BY <1>2, <2>3, <2>4, <2>5
  <1>13. CASE \/ ClientReceives \/ CallbackStores \/ CallbackOverflows \/ CallbackCounts
              \/ ClientDelivers \/ ClientFails \/ ClientStops
    BY <1>1, <1>13, SameLeft DEF ClientReceives, CallbackStores, CallbackOverflows,
       CallbackCounts, ClientDelivers, ClientFails, ClientStops, Cleared
  <1>14. CASE \/ AuxTakesHealth \/ AuxPublishes \/ AuxReturns \/ AuxServesBias \/ AuxFails
              \/ AuxEnds \/ Tick
    BY <1>1, <1>14, SameLeft DEF AuxTakesHealth, AuxPublishes, AuxReturns, AuxServesBias,
       AuxFails, AuxEnds, Tick, Cleared
  <1>15. CASE UNCHANGED vars
    BY <1>1, <1>15, SameLeft DEF vars, Cleared
  <1> QED BY <1>4, <1>5, <1>6, <1>7, <1>8, <1>9, <1>10, <1>11, <1>12, <1>13, <1>14, <1>15
      DEF Next

\* No call but on_configure() starts a configuration, and it finds NaN everywhere.
LEMMA ConfigurationStep ==
    ASSUME Progress, RoleOK, FlagOK, ValueOK, FaultKept, SampleOK, AxesOK,
           OnlyThisConfiguration, [Next]_vars
    PROVE  OnlyThisConfiguration'
  <1> USE Distinct DEF component, clientVars, auxVars, exported, readVars, RoleOK, Entries,
      Teardowns, Stops
  <1>1. axes \in [Axes -> Sample \cup {NaN}]
    BY DEF AxesOK
  <1>2. ASSUME UNCHANGED exported, count'.configure = count.configure
        PROVE  OnlyThisConfiguration'
    BY <1>2 DEF OnlyThisConfiguration
  <1>3. ASSUME NEW values \in [Axes -> Sample \cup {NaN}], Invalidates(values)
        PROVE  OnlyThisConfiguration'
    BY <1>3, InvalidatesAll DEF OnlyThisConfiguration
  <1>4. CASE Enter
    <2>1. UNCHANGED exported
      BY <1>4, EnterKeeps
    <2>2. CASE entry' = "configure"
      <3>1. entry = None /\ lifecycle = "Unconfigured"
        BY <1>4, <2>2, EnterCalls
      <3>2. \A a \in Axes : axes[a] = NaN \/ a \in refused
        BY <3>1 DEF AxesOK, Cleared
      <3> QED BY <2>1, <3>2 DEF OnlyThisConfiguration
    <2>3. CASE entry' # "configure"
      BY <1>2, <1>4, <2>1, <2>3, EnterCounts
    <2> QED BY <2>2, <2>3
  <1>5. CASE Leave
    BY <1>2, <1>5 DEF Leave
  <1>6. CASE \/ StopsAuxiliary \/ JoinsAuxiliary \/ StopsClient \/ JoinsClient
             \/ DestroysClient \/ Creates \/ Starts \/ Waits \/ ReadFetches
    BY <1>2, <1>6 DEF StopsAuxiliary, JoinsAuxiliary, StopsClient, JoinsClient,
       DestroysClient, Creates, Starts, Waits, ReadFetches
  <1>7. CASE Clears \/ Resets \/ GivesUp
    BY <1>1, <1>3, <1>7 DEF Clears, Resets, GivesUp
  <1>8. CASE RefusesToStart
    BY <1>1, <1>3, <1>8 DEF RefusesToStart
  <1>9. CASE ReadChecks
    <2>1. CASE Fails /\ Invalidates(axes)
      BY <1>1, <1>3, <2>1
    <2>2. CASE UNCHANGED <<component, exported, count, readVars>>
      BY <1>2, <2>2
    <2> QED BY <1>9, <2>1, <2>2, ReadDecides
  <1>10. CASE ReadIsStale
    BY <1>1, <1>3, <1>10 DEF ReadIsStale
  <1>11. CASE ReadSucceeds
    <2>1. entry = "read" /\ left = 1
      BY <1>11, StepMoves DEF ReadSucceeds, Moves, Due
    <2>2. held.conf = count.configure
      BY <1>11, <2>1 DEF ReadSucceeds, Stale, SampleOK, Current
    <2>3. axes' = [a \in Axes |-> held] /\ count' = count
      BY <1>11 DEF ReadSucceeds
    <2> QED BY <2>2, <2>3 DEF OnlyThisConfiguration
  <1>12. CASE ReadCannotWrite
    <2>1. entry = "read" /\ left = 1
      BY <1>12, LeavesEarly
    <2>2. held \in Sample
      BY <2>1 DEF SampleOK, Current
    <2>3. PICK written : Invalidates([a \in Axes |-> IF a \in written THEN held ELSE axes[a]])
      BY <1>12 DEF ReadCannotWrite
    <2>4. [a \in Axes |-> IF a \in written THEN held ELSE axes[a]] \in [Axes -> Sample \cup {NaN}]
      BY <1>1, <2>2
    <2> QED BY <1>3, <2>3, <2>4
  <1>13. CASE \/ ClientReceives \/ CallbackStores \/ CallbackOverflows \/ CallbackCounts
              \/ ClientDelivers \/ ClientFails \/ ClientStops
    BY <1>2, <1>13 DEF ClientReceives, CallbackStores, CallbackOverflows, CallbackCounts,
       ClientDelivers, ClientFails, ClientStops
  <1>14. CASE \/ AuxTakesHealth \/ AuxPublishes \/ AuxReturns \/ AuxServesBias \/ AuxFails
              \/ AuxEnds \/ Tick
    BY <1>2, <1>14 DEF AuxTakesHealth, AuxPublishes, AuxReturns, AuxServesBias, AuxFails,
       AuxEnds, Tick
  <1>15. CASE UNCHANGED vars
    BY <1>2, <1>15 DEF vars
  <1> QED BY <1>4, <1>5, <1>6, <1>7, <1>8, <1>9, <1>10, <1>11, <1>12, <1>13, <1>14, <1>15
      DEF Next

-----------------------------------------------------------------------------
(* The theorems *)

\* Every step keeps the inductive invariant.
LEMMA NextIInv == IInv /\ [Next]_vars => IInv'
  <1> SUFFICES ASSUME IInv, [Next]_vars PROVE IInv'
    OBVIOUS
  <1> USE DEF IInv
  <1>1. Progress' /\ PhaseOK' /\ RoleOK' /\ FlagOK' /\ ValueOK'
    BY ProgressStep, PhaseStep, RoleStep, FlagStep, ValueStep
  <1>2. CallOK' /\ WorkerOK' /\ AuxOK'
    BY CallStep, WorkerStep, AuxStep
  <1>3. FaultKept' /\ ReportOK' /\ SampleOK'
    BY FaultStep, ReportStep, SampleStep
  <1>4. AxesOK' /\ OnlyThisConfiguration'
    BY AxesStep, ConfigurationStep
  <1> QED BY <1>1, <1>2, <1>3, <1>4

\* Every value has its type, the buffer of samples and the exported axes too.
THEOREM PluginTypes == Spec => []TypeOK
  <1>1. IInv => TypeOK
    BY DEF IInv, TypeOK, Progress, PhaseOK, RoleOK, FlagOK, ValueOK, SampleOK, AxesOK
  <1> QED BY <1>1, InitIInv, NextIInv, PTL DEF Spec

\* However the calls of the controller manager interleave with the auxiliary
\* thread and the receiver, neither uses a client that was destroyed: every
\* teardown joins them before client_.reset().
THEOREM ClientOutlivesThreads == Spec => []NoUseAfterFree
  <1>1. IInv => NoUseAfterFree
    BY DEF IInv, AuxOK, NoUseAfterFree
  <1> QED BY <1>1, InitIInv, NextIInv, PTL DEF Spec

\* After on_deactivate(), on_error() and an on_activate() that failed no sample
\* callback runs any more.
THEOREM InactiveIsQuiet == Spec => []QuietUnlessActive
  <1>1. IInv => QuietUnlessActive
    BY DEF IInv, WorkerOK
  <1> QED BY <1>1, InitIInv, NextIInv, PTL DEF Spec

\* A read() that failed is followed by no successful one before on_configure(),
\* however often the component is deactivated and activated in between.
THEOREM ReadFailureIsFinal == Spec => []FailureIsFinal
  <1>1. IInv => FailureIsFinal
    BY DEF IInv, FaultKept, FlagOK, FailureIsFinal
  <1> QED BY <1>1, InitIInv, NextIInv, PTL DEF Spec

\* publish_diagnostics() reports an error after a read() that failed for a fault,
\* although it looks at the client and at fatal_fault_ at two different times.
THEOREM FaultsAreReported == Spec => []FaultIsReported
  <1>1. IInv => FaultIsReported
    BY DEF IInv, ReportOK, FaultIsReported, ErrorIsReported
  <1> QED BY <1>1, InitIInv, NextIInv, PTL DEF Spec

\* read() never exports a sample of an earlier configuration, nor the buffer's
\* initial content; a number that a handle kept by refusing NaN is the only old one.
THEOREM SamplesAreCurrent == Spec => []OnlyThisConfiguration
  <1>1. IInv => OnlyThisConfiguration
    BY DEF IInv
  <1> QED BY <1>1, InitIInv, NextIInv, PTL DEF Spec

\* Between calls each interface holds NaN unless the last read() of the current
\* activation returned OK or its own handle refused the NaN.
THEOREM InterfacesFailSafe == Spec => []FailSafe
  <1>1. IInv => FailSafe
    BY DEF IInv, AxesOK, Cleared, FailSafe
  <1> QED BY <1>1, InitIInv, NextIInv, PTL DEF Spec

=============================================================================
