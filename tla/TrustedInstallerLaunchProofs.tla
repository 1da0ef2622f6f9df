-------------------- MODULE TrustedInstallerLaunchProofs --------------------
(***************************************************************************)
(* TLAPS proofs about TrustedInstallerLaunch, for any number of processes, *)
(* launches, polls, failing calls and crashes.                             *)
(***************************************************************************)
EXTENDS TrustedInstallerLaunch, SequenceTheorems, TLAPS

\* Labels before CreateProcessWithTokenW, and between the request and its outcome.
BeforeRequest == {"request"}
BeforeConsole == {"session", "start", "poll", "debug", "capture", "restore_debug",
                  "impersonate", "create"}
Unrecorded == BeforeConsole \cup
              {"restore_impersonate", "terminate_incomplete", "wait_incomplete",
               "terminate_unrestored", "wait_unrestored", "failed", "success"}
Unaudited == {"terminate_unaudited", "wait_unaudited", "return"}
Labels == {"idle"} \cup BeforeRequest \cup Unrecorded \cup Unaudited

\* Labels at which a PrivilegeGuard is alive.
Guarded == {"capture", "restore_debug", "create", "restore_impersonate",
            "terminate_incomplete", "wait_incomplete"}

Requested(l) == [launch |-> l, kind |-> "request"]

LabelOK == pc \in [Process -> Labels]

\* The operation guard excludes: whoever is launching holds it alone.
GuardExclusive == \A p \in Process : pc[p] # "idle" => guard = {p}

\* The launch under way is the last one begun and has no result yet.
CurrentInv ==
    /\ Len(console) = Len(result) /\ Len(result) <= MaxLaunches
    /\ \A p \in Process : pc[p] # "idle" =>
          /\ current[p] = Len(result) /\ Len(result) > 0
          /\ result[Len(result)] = "running"

\* Until the outcome is recorded, the request is the last event of the journal.
TrailInv ==
    \A p \in Process : pc[p] \in Unrecorded =>
        Len(trail) > 0 /\ trail[Len(trail)] = Requested(current[p])

\* What the worker knows of its console when it is about to report.
ConsoleInv ==
    \A p \in Process :
        /\ pc[p] \in BeforeRequest \cup BeforeConsole => console[current[p]] = "none"
        /\ pc[p] \in {"failed", "return"} /\ clean[p] => console[current[p]] \in {"none", "gone"}
        /\ pc[p] = "restore_impersonate" /\ clean[p] /\ ~process[p] =>
              console[current[p]] \in {"none", "gone"}

\* A live PrivilegeGuard remembers exactly what it enabled; without one nothing is left over.
PrivilegeInv ==
    \A p \in Process :
        /\ enabled[p] = initial[p] \cup kept[p] \cup previous[p]
        /\ previous[p] \cap (initial[p] \cup kept[p]) = {}
        /\ pc[p] \notin Guarded => previous[p] = {}

ConsoleState == {"none", "running", "ending", "gone"}
Result == {"running", "not_requested", "failed", "uncompensated", "ok", "crashed"}
Event == [launch : Launch, kind : Kind]

LaunchInv ==
    /\ TypeOK /\ LabelOK /\ GuardExclusive /\ CurrentInv /\ TrailInv /\ ConsoleInv
    /\ PrivilegeInv /\ ConsoleAccounted /\ OutcomeFollowsRequest
-----------------------------------------------------------------------------

\* What a step of p may do to the journal, the results and the consoles.
LEMMA Effects ==
    ASSUME TypeOK, LabelOK, NEW p \in Process, Work(p) \/ Crash(p)
    PROVE  /\ pc[p] # "idle"
           /\ \A q \in Process \ {p} :
                 /\ pc'[q] = pc[q] /\ current'[q] = current[q] /\ clean'[q] = clean[q]
                 /\ process'[q] = process[q]
                 /\ enabled'[q] = enabled[q] /\ initial'[q] = initial[q]
                 /\ previous'[q] = previous[q] /\ kept'[q] = kept[q]
           /\ \/ trail' = trail
              \/ \E k \in Kind : trail' = Append(trail, [launch |-> current[p], kind |-> k])
           /\ \/ /\ result' = result /\ current' = current /\ guard' = guard
                 /\ pc'[p] # "idle"
              \/ /\ \E o \in Result : result' = [result EXCEPT ![current[p]] = o]
                 /\ pc'[p] = "idle" /\ guard' = guard \ {p} /\ console' = console
           /\ \/ console' = console
              \/ \E c \in ConsoleState : console' = [console EXCEPT ![current[p]] = c]
<1> USE DEF TypeOK, LabelOK, Labels, BeforeRequest, BeforeConsole, Unrecorded, Unaudited,
   Return, Step, Goto, Fault, Recorded, RecordFails, Kind, Result, ConsoleState, SetConsole,
   local, tokenVars
<1>1. CASE Crash(p)
    BY <1>1 DEF Crash
<1>2. CASE RecordRequest(p) \/ RecordRequestFails(p) \/ RecordFailure(p) \/ RecordSuccess(p)
           \/ RecordSuccessFails(p) \/ ReturnUnaudited(p)
    BY <1>2 DEF RecordRequest, RecordRequestFails, RecordFailure, RecordSuccess,
       RecordSuccessFails, ReturnUnaudited, Outcome
<1>3. CASE CheckSession(p) \/ SessionFails(p) \/ StartService(p) \/ StartServiceFails(p)
           \/ ServiceRunning(p) \/ PollAgain(p) \/ PollFails(p)
    BY <1>3 DEF CheckSession, SessionFails, StartService, StartServiceFails, ServiceRunning,
       PollAgain, PollFails, LauncherFails
<1>4. CASE EnableDebug(p) \/ EnableDebugFails(p) \/ Capture(p) \/ EnableImpersonate(p)
           \/ EnableImpersonateFails(p)
    BY <1>4 DEF EnableDebug, EnableDebugFails, Capture, EnableImpersonate,
       EnableImpersonateFails, LauncherFails, EnablePrivilege
<1>5. CASE RestoreDebug(p) \/ RestoreDebugFails(p) \/ RestoreImpersonate(p)
           \/ RestoreImpersonateFails(p)
    BY <1>5 DEF RestoreDebug, RestoreDebugFails, RestoreImpersonate, RestoreImpersonateFails,
       RestorePrivileges, RestoreFails
<1>6. CASE CreateConsole(p) \/ CreateConsoleFails(p) \/ ThreadHandleMissing(p)
           \/ ProcessHandleMissing(p)
    BY <1>6 DEF CreateConsole, CreateConsoleFails, ThreadHandleMissing, ProcessHandleMissing
<1>7. CASE Terminate(p)
    BY <1>7 DEF Terminate, Compensation
<1>8. CASE WaitForExit(p)
    BY <1>8 DEF WaitForExit, AfterWait
<1> QED BY <1>1, <1>2, <1>3, <1>4, <1>5, <1>6, <1>7, <1>8 DEF Work

\* The service and the end of a console touch nothing of a worker.
LEMMA EnvironmentFrame ==
    /\ ServiceMoves => UNCHANGED <<guard, pc, local, tokenVars, console, result, trail, faults, crashes>>
    /\ \A l : ConsoleEnds(l) =>
          UNCHANGED <<guard, pc, local, tokenVars, service, result, trail, faults, crashes>>
BY DEF ServiceMoves, ConsoleEnds

\* A worker moves from label to label and takes the guard with it.
LEMMA GuardStep == ASSUME LaunchInv, Next PROVE LabelOK' /\ GuardExclusive'
<1> USE DEF LabelOK, GuardExclusive
<1>0. TypeOK /\ LabelOK /\ GuardExclusive
    BY DEF LaunchInv
<1>1. ASSUME NEW p \in Process, BeginLaunch(p) PROVE LabelOK' /\ GuardExclusive'
    BY <1>0, <1>1 DEF BeginLaunch, GuardFree, Step, Goto, Labels, BeforeRequest
<1>2. ASSUME NEW p \in Process, Work(p) \/ Crash(p) PROVE LabelOK' /\ GuardExclusive'
  <2>1. LabelOK'
    <3> USE DEF Labels, BeforeRequest, BeforeConsole, Unrecorded, Unaudited, Return, Step,
       Goto
    <3>1. CASE Crash(p)
        BY <1>0, <3>1 DEF Crash
    <3>2. CASE Terminate(p)
        BY <1>0, <3>2 DEF Terminate, Compensation
    <3>3. CASE WaitForExit(p)
        BY <1>0, <3>3 DEF WaitForExit, AfterWait
    <3>4. CASE Work(p) /\ ~Terminate(p) /\ ~WaitForExit(p)
        BY <1>0, <3>4 DEF Work, RecordRequest, RecordRequestFails, CheckSession, SessionFails,
           StartService, StartServiceFails, ServiceRunning, PollAgain, PollFails, EnableDebug,
           EnableDebugFails, Capture, RestoreDebug, RestoreDebugFails, EnableImpersonate,
           EnableImpersonateFails, CreateConsole, CreateConsoleFails, ThreadHandleMissing,
           ProcessHandleMissing, RestoreImpersonate, RestoreImpersonateFails, RecordFailure,
           RecordSuccess, RecordSuccessFails, ReturnUnaudited, LauncherFails
    <3> QED BY <1>2, <3>1, <3>2, <3>3, <3>4
  <2>2. GuardExclusive'
      BY <1>0, <1>2, Effects
  <2> QED BY <2>1, <2>2
<1>3. ASSUME UNCHANGED <<pc, guard>> PROVE LabelOK' /\ GuardExclusive'
    BY <1>0, <1>3
<1> QED BY <1>1, <1>2, <1>3, EnvironmentFrame DEF Next, GuardRefused, vars

\* The launch of a worker is an index of the three logs.
LEMMA CurrentIndex ==
    ASSUME LaunchInv, NEW p \in Process, pc[p] # "idle"
    PROVE  /\ current[p] \in 1 .. Len(result) /\ current[p] \in 1 .. Len(console)
           /\ current[p] \in Launch /\ current[p] = Len(result)
           /\ console[current[p]] \in ConsoleState
           /\ result[current[p]] = "running"
<1>1. /\ current[p] = Len(result) /\ Len(console) = Len(result) /\ Len(result) > 0
      /\ Len(result) <= MaxLaunches /\ result[Len(result)] = "running"
    BY DEF LaunchInv, CurrentInv
<1>2. Len(result) \in Nat /\ console \in Seq(ConsoleState)
    BY LenProperties DEF LaunchInv, TypeOK, Result, ConsoleState
<1>3. current[p] \in 1 .. Len(result) /\ current[p] \in 1 .. Len(console)
    BY <1>1, <1>2
<1> QED BY <1>1, <1>2, <1>3, ElementOfSeq, LaunchConstants DEF Launch

\* Journal, results and consoles stay sequences of their kind.
LEMMA LogsStep ==
    ASSUME LaunchInv, Next
    PROVE  console' \in Seq(ConsoleState) /\ result' \in Seq(Result) /\ trail' \in Seq(Event)
<1>0. console \in Seq(ConsoleState) /\ result \in Seq(Result) /\ trail \in Seq(Event)
    BY DEF LaunchInv, TypeOK, ConsoleState, Result, Event
<1>1. ASSUME NEW p \in Process, BeginLaunch(p)
      PROVE  console' \in Seq(ConsoleState) /\ result' \in Seq(Result) /\ trail' \in Seq(Event)
  <2>1. "none" \in ConsoleState /\ "running" \in Result
      BY DEF ConsoleState, Result
  <2>2. /\ console' = Append(console, "none") /\ result' = Append(result, "running")
        /\ trail' = trail
      BY <1>1 DEF BeginLaunch
  <2> QED BY <1>0, <2>1, <2>2, AppendProperties
<1>2. ASSUME NEW p \in Process, Work(p) \/ Crash(p)
      PROVE  console' \in Seq(ConsoleState) /\ result' \in Seq(Result) /\ trail' \in Seq(Event)
  <2>1. pc[p] # "idle"
      BY <1>2, Effects DEF LaunchInv
  <2>2. /\ current[p] \in 1 .. Len(result) /\ current[p] \in 1 .. Len(console)
        /\ current[p] \in Launch
      BY <2>1, CurrentIndex
  <2>3. \A k \in Kind : [launch |-> current[p], kind |-> k] \in Event
      BY <2>2 DEF Event
  <2>4. /\ \/ trail' = trail
           \/ \E k \in Kind : trail' = Append(trail, [launch |-> current[p], kind |-> k])
        /\ \/ result' = result
           \/ \E o \in Result : result' = [result EXCEPT ![current[p]] = o]
        /\ \/ console' = console
           \/ \E c \in ConsoleState : console' = [console EXCEPT ![current[p]] = c]
      BY <1>2, Effects DEF LaunchInv
  <2>5. trail' \in Seq(Event)
    <3>1. \A e \in Event : Append(trail, e) \in Seq(Event)
        BY <1>0, AppendProperties
    <3> QED BY <1>0, <2>3, <2>4, <3>1
  <2>6. result' \in Seq(Result)
      BY <1>0, <2>2, <2>4, ExceptSeq
  <2>7. console' \in Seq(ConsoleState)
      BY <1>0, <2>2, <2>4, ExceptSeq
  <2> QED BY <2>5, <2>6, <2>7
<1>3. ASSUME UNCHANGED <<console, result, trail>>
      PROVE  console' \in Seq(ConsoleState) /\ result' \in Seq(Result) /\ trail' \in Seq(Event)
    BY <1>0, <1>3
<1>4. ASSUME NEW l \in DOMAIN console, ConsoleEnds(l)
      PROVE  console' \in Seq(ConsoleState) /\ result' \in Seq(Result) /\ trail' \in Seq(Event)
  <2>1. l \in 1 .. Len(console) /\ "gone" \in ConsoleState
      BY <1>0, <1>4, LenProperties DEF ConsoleState
  <2> QED BY <1>0, <1>4, <2>1, ExceptSeq DEF ConsoleEnds
<1> QED BY <1>1, <1>2, <1>3, <1>4, EnvironmentFrame DEF Next, GuardRefused, vars

\* Every other variable stays in its range; the polls of a launch are bounded.
LEMMA TypeStep == ASSUME LaunchInv, Next PROVE TypeOK'
<1> USE LaunchConstants DEF Return, Step, Goto, Fault, Recorded, RecordFails, SetConsole,
   local, tokenVars
<1>0. TypeOK /\ LabelOK /\ LaunchInv
    BY DEF LaunchInv
<1> DEFINE Numbers == /\ current \in [Process -> {0} \cup Launch]
                      /\ polls \in [Process -> 0 .. PollAttempts - 1]
                      /\ faults \in 0 .. MaxFaults /\ crashes \in 0 .. MaxCrashes
           Flags == /\ token \in [Process -> BOOLEAN] /\ process \in [Process -> BOOLEAN]
                    /\ clean \in [Process -> BOOLEAN]
           Sets == /\ guard \in SUBSET Process /\ DOMAIN pc = Process
                   /\ enabled \in [Process -> SUBSET Privilege]
                   /\ initial \in [Process -> SUBSET Privilege]
                   /\ previous \in [Process -> SUBSET Privilege]
                   /\ kept \in [Process -> SUBSET Privilege]
                   /\ service \in {"stopped", "start_pending", "running", "stop_pending"}
           Workers == <<guard, pc, local, tokenVars, faults, crashes>>
<1>a. Numbers /\ Flags /\ Sets
    BY <1>0 DEF TypeOK
<1>1. ASSUME NEW p \in Process, BeginLaunch(p) PROVE Numbers' /\ Flags' /\ Sets'
  <2>1. Len(result) \in Nat
      BY <1>0, LenProperties DEF TypeOK
  <2> QED BY <1>a, <1>1, <2>1 DEF BeginLaunch, Launch
<1>2. ASSUME NEW p \in Process, Work(p) \/ Crash(p) PROVE Numbers'
  <2>1. \/ current' = current /\ polls' = polls
        \/ current' = [current EXCEPT ![p] = 0] /\ polls' = [polls EXCEPT ![p] = 0]
        \/ /\ current' = current /\ polls' = [polls EXCEPT ![p] = @ + 1]
           /\ polls[p] + 1 # PollAttempts
      BY <1>2 DEF Work, RecordRequest, RecordRequestFails, CheckSession, SessionFails,
         StartService, StartServiceFails, ServiceRunning, PollAgain, PollFails,
         EnableDebug, EnableDebugFails, Capture, RestoreDebug, RestoreDebugFails,
         EnableImpersonate, EnableImpersonateFails, CreateConsole, CreateConsoleFails,
         ThreadHandleMissing, ProcessHandleMissing, RestoreImpersonate, RestoreImpersonateFails,
         Terminate, WaitForExit, RecordFailure, RecordSuccess, RecordSuccessFails,
         ReturnUnaudited, LauncherFails, LastPoll, Crash
  <2>2. \/ faults' = faults /\ crashes' = crashes
        \/ faults < MaxFaults /\ faults' = faults + 1 /\ crashes' = crashes
        \/ crashes < MaxCrashes /\ crashes' = crashes + 1 /\ faults' = faults
      BY <1>2 DEF Work, RecordRequest, RecordRequestFails, CheckSession, SessionFails,
         StartService, StartServiceFails, ServiceRunning, PollAgain, PollFails,
         EnableDebug, EnableDebugFails, Capture, RestoreDebug, RestoreDebugFails,
         EnableImpersonate, EnableImpersonateFails, CreateConsole, CreateConsoleFails,
         ThreadHandleMissing, ProcessHandleMissing, RestoreImpersonate, RestoreImpersonateFails,
         Terminate, WaitForExit, RecordFailure, RecordSuccess, RecordSuccessFails,
         ReturnUnaudited, LauncherFails, RestorePrivileges, RestoreFails, Crash
  <2> QED BY <1>a, <2>1, <2>2
<1>3. ASSUME NEW p \in Process, Work(p) \/ Crash(p) PROVE Flags'
    BY <1>a, <1>3 DEF Work, RecordRequest, RecordRequestFails, CheckSession, SessionFails,
       StartService, StartServiceFails, ServiceRunning, PollAgain, PollFails,
       EnableDebug, EnableDebugFails, Capture, RestoreDebug, RestoreDebugFails,
       EnableImpersonate, EnableImpersonateFails, CreateConsole, CreateConsoleFails,
       ThreadHandleMissing, ProcessHandleMissing, RestoreImpersonate, RestoreImpersonateFails,
       Terminate, WaitForExit, RecordFailure, RecordSuccess, RecordSuccessFails,
       ReturnUnaudited, LauncherFails, Crash
<1>4. ASSUME NEW p \in Process, Work(p) \/ Crash(p) PROVE Sets'
  <2>1. /\ guard' = guard \/ guard' = guard \ {p}
        /\ pc' = pc \/ \E l : pc' = [pc EXCEPT ![p] = l]
        /\ service' = service \/ service' = "start_pending"
        /\ initial' = initial
      BY <1>4 DEF Work, RecordRequest, RecordRequestFails, CheckSession, SessionFails,
         StartService, StartServiceFails, ServiceRunning, PollAgain, PollFails,
         EnableDebug, EnableDebugFails, Capture, RestoreDebug, RestoreDebugFails,
         EnableImpersonate, EnableImpersonateFails, CreateConsole, CreateConsoleFails,
         ThreadHandleMissing, ProcessHandleMissing, RestoreImpersonate, RestoreImpersonateFails,
         Terminate, WaitForExit, RecordFailure, RecordSuccess, RecordSuccessFails,
         ReturnUnaudited, LauncherFails, EnablePrivilege, RestorePrivileges, RestoreFails, Crash
  <2>2. /\ enabled' = enabled \/ \E S \in SUBSET Privilege : enabled' = [enabled EXCEPT ![p] = S]
        /\ previous' = previous \/ \E S \in SUBSET Privilege : previous' = [previous EXCEPT ![p] = S]
        /\ kept' = kept \/ \E S \in SUBSET Privilege : kept' = [kept EXCEPT ![p] = S]
    <3>1. CASE EnableDebug(p) \/ EnableImpersonate(p)
        BY <1>a, <3>1 DEF EnableDebug, EnableImpersonate, EnablePrivilege, Privilege
    <3>2. CASE RestoreDebug(p) \/ RestoreDebugFails(p) \/ RestoreImpersonate(p)
               \/ RestoreImpersonateFails(p)
        BY <1>a, <3>2 DEF RestoreDebug, RestoreDebugFails, RestoreImpersonate,
           RestoreImpersonateFails, RestorePrivileges, RestoreFails
    <3>3. CASE Crash(p)
        BY <1>a, <3>3 DEF Crash
    <3>4. CASE UNCHANGED tokenVars
        BY <3>4
    <3> QED BY <1>4, <3>1, <3>2, <3>3, <3>4 DEF Work, RecordRequest, RecordRequestFails, CheckSession, SessionFails,
         StartService, StartServiceFails, ServiceRunning, PollAgain, PollFails,
         EnableDebugFails, Capture, 
         EnableImpersonateFails, CreateConsole, CreateConsoleFails,
         ThreadHandleMissing, ProcessHandleMissing, 
         Terminate, WaitForExit, RecordFailure, RecordSuccess, RecordSuccessFails,
         ReturnUnaudited, LauncherFails
  <2> QED BY <1>a, <2>1, <2>2
<1>5. ASSUME ServiceMoves PROVE Numbers' /\ Flags' /\ Sets'
    BY <1>a, <1>5 DEF ServiceMoves
<1>6. ASSUME UNCHANGED Workers, UNCHANGED service PROVE Numbers' /\ Flags' /\ Sets'
    BY <1>a, <1>6
<1>7. Numbers' /\ Flags' /\ Sets'
    BY <1>0, <1>1, <1>2, <1>3, <1>4, <1>5, <1>6, EnvironmentFrame DEF Next, GuardRefused, vars
<1> QED BY <1>0, <1>7, LogsStep DEF TypeOK, ConsoleState, Result, Event

\* A launch that begins finds every worker idle and becomes the last one.
LEMMA LaunchBegins ==
    ASSUME LaunchInv, NEW p \in Process, BeginLaunch(p)
    PROVE  /\ \A q \in Process : pc[q] = "idle"
           /\ \A q \in Process \ {p} : pc'[q] = "idle"
           /\ pc'[p] = "request" /\ current'[p] = Len(result) + 1
           /\ Len(result') = Len(result) + 1 /\ Len(console') = Len(console) + 1
           /\ \A l \in 1 .. Len(result) : result'[l] = result[l]
           /\ \A l \in 1 .. Len(console) : console'[l] = console[l]
           /\ result'[Len(result) + 1] = "running" /\ console'[Len(console) + 1] = "none"
           /\ Len(result) < MaxLaunches /\ trail' = trail
<1>1. /\ console \in Seq(ConsoleState) /\ result \in Seq(Result)
      /\ "none" \in ConsoleState /\ "running" \in Result
    BY DEF LaunchInv, TypeOK, ConsoleState, Result
<1>2. console' = Append(console, "none") /\ result' = Append(result, "running") /\ trail' = trail
    BY DEF BeginLaunch
<1>3. /\ Len(result') = Len(result) + 1 /\ Len(console') = Len(console) + 1
      /\ \A l \in 1 .. Len(result) : result'[l] = result[l]
      /\ \A l \in 1 .. Len(console) : console'[l] = console[l]
      /\ result'[Len(result) + 1] = "running" /\ console'[Len(console) + 1] = "none"
    BY <1>1, <1>2, AppendProperties
<1>4. \A q \in Process : pc[q] = "idle"
    BY DEF LaunchInv, GuardExclusive, BeginLaunch, GuardFree
<1>5. /\ \A q \in Process \ {p} : pc'[q] = "idle"
      /\ pc'[p] = "request" /\ current'[p] = Len(result) + 1 /\ Len(result) < MaxLaunches
    BY <1>4 DEF LaunchInv, TypeOK, LabelOK, BeginLaunch, Step, Goto
<1> QED BY <1>2, <1>3, <1>4, <1>5

\* While a worker launches every other one is idle.
LEMMA OthersIdle ==
    ASSUME LaunchInv, NEW p \in Process, Work(p) \/ Crash(p)
    PROVE  /\ pc[p] # "idle"
           /\ \A q \in Process \ {p} : pc[q] = "idle" /\ pc'[q] = "idle"
<1>1. TypeOK /\ LabelOK /\ GuardExclusive
    BY DEF LaunchInv
<1>2. pc[p] # "idle" /\ \A q \in Process \ {p} : pc'[q] = pc[q]
    BY <1>1, Effects
<1> QED BY <1>1, <1>2 DEF GuardExclusive

\* A worker changes the entry of its own launch and no other.
LEMMA EntriesKept ==
    ASSUME LaunchInv, NEW p \in Process, Work(p) \/ Crash(p)
    PROVE  /\ Len(result') = Len(result) /\ Len(console') = Len(console)
           /\ \A l \in 1 .. Len(result) : l # current[p] => result'[l] = result[l]
           /\ \A l \in 1 .. Len(console) : l # current[p] => console'[l] = console[l]
<1>1. console \in Seq(ConsoleState) /\ result \in Seq(Result) /\ TypeOK /\ LabelOK
    BY DEF LaunchInv, TypeOK, ConsoleState, Result
<1>2. current[p] \in 1 .. Len(result) /\ current[p] \in 1 .. Len(console)
    BY OthersIdle, CurrentIndex
<1>3. /\ \/ result' = result
         \/ \E o \in Result : result' = [result EXCEPT ![current[p]] = o]
      /\ \/ console' = console
         \/ \E c \in ConsoleState : console' = [console EXCEPT ![current[p]] = c]
    BY <1>1, Effects
<1>4. \A o \in Result : LET r == [result EXCEPT ![current[p]] = o]
                        IN  Len(r) = Len(result) /\ \A l \in 1 .. Len(result) : l # current[p] => r[l] = result[l]
    BY <1>1, <1>2, ExceptSeq
<1>5. \A c \in ConsoleState : LET k == [console EXCEPT ![current[p]] = c]
                              IN  Len(k) = Len(console) /\ \A l \in 1 .. Len(console) : l # current[p] => k[l] = console[l]
    BY <1>1, <1>2, ExceptSeq
<1> QED BY <1>3, <1>4, <1>5

\* The running launch is the last one.
LEMMA CurrentStep == ASSUME LaunchInv, Next PROVE CurrentInv'
<1>0. TypeOK /\ LabelOK /\ CurrentInv /\ Len(result) \in Nat
    BY LenProperties DEF LaunchInv, TypeOK
<1>1. ASSUME NEW p \in Process, BeginLaunch(p) PROVE CurrentInv'
    BY <1>0, <1>1, LaunchBegins, LaunchConstants DEF CurrentInv
<1>2. ASSUME NEW p \in Process, Work(p) \/ Crash(p) PROVE CurrentInv'
  <2>1. (result' = result /\ current' = current) \/ pc'[p] = "idle"
      BY <1>0, <1>2, Effects
  <2> QED BY <1>0, <1>2, <2>1, OthersIdle, EntriesKept DEF CurrentInv
<1>3. ASSUME UNCHANGED <<pc, current, console, result>> PROVE CurrentInv'
    BY <1>0, <1>3 DEF CurrentInv
<1>4. ASSUME NEW l \in DOMAIN console, ConsoleEnds(l) PROVE CurrentInv'
  <2>1. console \in Seq(ConsoleState) /\ l \in 1 .. Len(console) /\ "gone" \in ConsoleState
      BY <1>0, LenProperties DEF TypeOK, ConsoleState
  <2>2. Len(console') = Len(console) /\ UNCHANGED <<pc, current, result>>
      BY <1>4, <2>1, ExceptSeq DEF ConsoleEnds, local
  <2> QED BY <1>0, <2>2 DEF CurrentInv
<1> QED BY <1>1, <1>2, <1>3, <1>4, EnvironmentFrame DEF Next, GuardRefused, vars, local

\* Who writes to the journal: the request at its label, one outcome at the labels after it.
LEMMA JournalEffects ==
    ASSUME TypeOK, LabelOK, NEW p \in Process, Work(p) \/ Crash(p)
    PROVE  /\ \/ trail' = trail
              \/ pc[p] = "request" /\ trail' = Append(trail, Requested(current[p]))
              \/ /\ pc[p] \in {"failed", "success"}
                 /\ \E k \in Kind : trail' = Append(trail, [launch |-> current[p], kind |-> k])
           /\ pc'[p] \in Unrecorded =>
                 /\ current' = current
                 /\ \/ pc[p] = "request" /\ trail' = Append(trail, Requested(current[p]))
                    \/ pc[p] \in Unrecorded /\ trail' = trail
<1> USE DEF TypeOK, LabelOK, Unrecorded, BeforeConsole, Return, Step, Goto, Recorded,
   RecordFails, Requested, Kind, local
<1>1. CASE Crash(p)
    BY <1>1 DEF Crash
<1>2. CASE Terminate(p)
    BY <1>2 DEF Terminate, Compensation
<1>3. CASE WaitForExit(p)
    BY <1>3 DEF WaitForExit, AfterWait
<1>4. CASE Work(p) /\ ~Terminate(p) /\ ~WaitForExit(p)
    BY <1>4 DEF Work, RecordRequest, RecordRequestFails, CheckSession, SessionFails, StartService,
       StartServiceFails, ServiceRunning, PollAgain, PollFails, EnableDebug, EnableDebugFails,
       Capture, RestoreDebug, RestoreDebugFails, EnableImpersonate, EnableImpersonateFails,
       CreateConsole, CreateConsoleFails, ThreadHandleMissing, ProcessHandleMissing,
       RestoreImpersonate, RestoreImpersonateFails, RecordFailure, RecordSuccess,
       RecordSuccessFails, ReturnUnaudited, LauncherFails
<1> QED BY <1>1, <1>2, <1>3, <1>4

\* The journal only grows.
LEMMA TrailExtends ==
    ASSUME LaunchInv, NEW p \in Process, Work(p) \/ Crash(p)
    PROVE  /\ Len(trail) \in Nat /\ Len(trail') \in Nat /\ Len(trail) <= Len(trail')
           /\ DOMAIN trail = 1 .. Len(trail) /\ DOMAIN trail' = 1 .. Len(trail')
           /\ \A i \in 1 .. Len(trail) : trail'[i] = trail[i]
           /\ \A k \in Kind : trail' = Append(trail, [launch |-> current[p], kind |-> k]) =>
                 /\ Len(trail') = Len(trail) + 1
                 /\ trail'[Len(trail) + 1] = [launch |-> current[p], kind |-> k]
<1>1. TypeOK /\ LabelOK /\ trail \in Seq(Event)
    BY DEF LaunchInv, TypeOK, Event
<1>2. current[p] \in Launch
    BY OthersIdle, CurrentIndex
<1>3. \A k \in Kind : [launch |-> current[p], kind |-> k] \in Event
    BY <1>2 DEF Event
<1>4. \A e \in Event : /\ Append(trail, e) \in Seq(Event)
                       /\ Len(Append(trail, e)) = Len(trail) + 1
                       /\ \A i \in 1 .. Len(trail) : Append(trail, e)[i] = trail[i]
                       /\ Append(trail, e)[Len(trail) + 1] = e
    BY <1>1, AppendProperties
<1>5. \/ trail' = trail
      \/ \E k \in Kind : trail' = Append(trail, [launch |-> current[p], kind |-> k])
    BY <1>1, Effects
<1>6. trail' \in Seq(Event)
    BY <1>1, <1>3, <1>4, <1>5
<1>7. /\ Len(trail) \in Nat /\ Len(trail') \in Nat
      /\ DOMAIN trail = 1 .. Len(trail) /\ DOMAIN trail' = 1 .. Len(trail')
    BY <1>1, <1>6, LenProperties
<1>8. /\ Len(trail) <= Len(trail')
      /\ \A i \in 1 .. Len(trail) : trail'[i] = trail[i]
  <2>1. CASE trail' = trail
      BY <1>7, <2>1
  <2>2. CASE \E k \in Kind : trail' = Append(trail, [launch |-> current[p], kind |-> k])
      BY <1>3, <1>4, <1>7, <2>2
  <2> QED BY <1>5, <2>1, <2>2
<1>9. ASSUME NEW k \in Kind, trail' = Append(trail, [launch |-> current[p], kind |-> k])
      PROVE  /\ Len(trail') = Len(trail) + 1
             /\ trail'[Len(trail) + 1] = [launch |-> current[p], kind |-> k]
    BY <1>3, <1>4, <1>9
<1> QED BY <1>7, <1>8, <1>9

\* Nobody writes between the request of a launch and its outcome.
LEMMA TrailStep == ASSUME LaunchInv, Next PROVE TrailInv'
<1>0. TypeOK /\ LabelOK /\ TrailInv
    BY DEF LaunchInv
<1>1. ASSUME NEW p \in Process, BeginLaunch(p) PROVE TrailInv'
    BY <1>1, LaunchBegins DEF TrailInv, Unrecorded, BeforeConsole
<1>2. ASSUME NEW p \in Process, Work(p) \/ Crash(p) PROVE TrailInv'
  <2>1. SUFFICES ASSUME pc'[p] \in Unrecorded
                 PROVE  Len(trail') > 0 /\ trail'[Len(trail')] = Requested(current[p])'
      BY <1>2, OthersIdle DEF TrailInv, Unrecorded, BeforeConsole
  <2>2. Requested(current[p])' = Requested(current[p])
      BY <1>0, <1>2, <2>1, JournalEffects DEF Requested
  <2>3. CASE trail' = Append(trail, Requested(current[p]))
      BY <1>2, <2>2, <2>3, TrailExtends DEF Requested, Kind
  <2>4. CASE pc[p] \in Unrecorded /\ trail' = trail
      BY <1>0, <2>2, <2>4 DEF TrailInv
  <2> QED BY <1>0, <1>2, <2>1, <2>3, <2>4, JournalEffects
<1>3. ASSUME UNCHANGED <<pc, current, trail>> PROVE TrailInv'
    BY <1>0, <1>3 DEF TrailInv, Requested
<1> QED BY <1>1, <1>2, <1>3, EnvironmentFrame DEF Next, GuardRefused, vars, local

\* The outcome is written by the worker whose request is the last event.
LEMMA OutcomeStep == ASSUME LaunchInv, Next PROVE OutcomeFollowsRequest'
<1>0. TypeOK /\ LabelOK /\ TrailInv /\ OutcomeFollowsRequest
    BY DEF LaunchInv
<1>1. ASSUME NEW p \in Process, Work(p) \/ Crash(p) PROVE OutcomeFollowsRequest'
  <2>1. /\ Len(trail) \in Nat /\ DOMAIN trail = 1 .. Len(trail) /\ DOMAIN trail' = 1 .. Len(trail')
        /\ \A i \in 1 .. Len(trail) : trail'[i] = trail[i]
      BY <1>1, TrailExtends
  <2>2. CASE trail' = trail
      BY <1>0, <2>2 DEF OutcomeFollowsRequest
  <2>3. CASE pc[p] = "request" /\ trail' = Append(trail, Requested(current[p]))
    <3>1. Len(trail') = Len(trail) + 1 /\ trail'[Len(trail) + 1].kind = "request"
        BY <1>1, <2>3, TrailExtends DEF Requested, Kind
    <3> QED BY <1>0, <2>1, <3>1 DEF OutcomeFollowsRequest
  <2>4. CASE /\ pc[p] \in {"failed", "success"}
             /\ \E k \in Kind : trail' = Append(trail, [launch |-> current[p], kind |-> k])
    <3>1. Len(trail') = Len(trail) + 1 /\ trail'[Len(trail) + 1].launch = current[p]
        BY <1>1, <2>4, TrailExtends
    <3>2. Len(trail) > 0 /\ trail[Len(trail)] = [launch |-> current[p], kind |-> "request"]
        BY <1>0, <2>4 DEF TrailInv, Requested, Unrecorded
    <3>3. SUFFICES ASSUME NEW i \in 1 .. Len(trail'), trail'[i].kind # "request"
                   PROVE  i > 1 /\ trail'[i - 1] = [launch |-> trail'[i].launch, kind |-> "request"]
        BY <2>1 DEF OutcomeFollowsRequest
    <3>4. CASE i = Len(trail) + 1
        BY <2>1, <3>1, <3>2, <3>4
    <3>5. CASE i \in 1 .. Len(trail)
      <4>1. i > 1 /\ trail[i - 1] = [launch |-> trail[i].launch, kind |-> "request"]
          BY <1>0, <2>1, <3>3, <3>5 DEF OutcomeFollowsRequest
      <4> QED BY <2>1, <3>5, <4>1
    <3> QED BY <2>1, <3>1, <3>4, <3>5
  <2> QED BY <1>0, <1>1, <2>2, <2>3, <2>4, JournalEffects
<1>2. ASSUME UNCHANGED trail PROVE OutcomeFollowsRequest'
    BY <1>0, <1>2 DEF OutcomeFollowsRequest
<1> QED BY <1>1, <1>2, EnvironmentFrame DEF Next, GuardRefused, vars, BeginLaunch

\* A PrivilegeGuard gives back exactly what it took, unless its restoration failed twice.
LEMMA PrivilegeStep == ASSUME LaunchInv, Next PROVE PrivilegeInv'
<1>0. TypeOK /\ LabelOK /\ PrivilegeInv
    BY DEF LaunchInv
<1>1. ASSUME NEW p \in Process, Work(p) \/ Crash(p) PROVE PrivilegeInv'
  <2>0. /\ \A q \in Process \ {p} : /\ enabled'[q] = enabled[q] /\ initial'[q] = initial[q]
                                    /\ previous'[q] = previous[q] /\ kept'[q] = kept[q]
                                    /\ pc'[q] = pc[q]
        /\ pc[p] # "idle"
      BY <1>0, <1>1, Effects
  <2>1. SUFFICES /\ enabled'[p] = initial'[p] \cup kept'[p] \cup previous'[p]
                 /\ previous'[p] \cap (initial'[p] \cup kept'[p]) = {}
                 /\ pc'[p] \notin Guarded => previous'[p] = {}
      BY <1>0, <2>0 DEF PrivilegeInv
  <2>2. /\ enabled[p] = initial[p] \cup kept[p] \cup previous[p]
        /\ previous[p] \cap (initial[p] \cup kept[p]) = {}
        /\ pc[p] \notin Guarded => previous[p] = {}
      BY <1>0 DEF PrivilegeInv
  <2> USE DEF TypeOK, LabelOK, Guarded, Step, Goto, Return, local, tokenVars
  <2>3. CASE EnableDebug(p) \/ EnableImpersonate(p)
      BY <1>0, <2>2, <2>3 DEF EnableDebug, EnableImpersonate, EnablePrivilege
  <2>4. CASE RestoreDebug(p) \/ RestoreImpersonate(p)
      BY <1>0, <2>2, <2>4 DEF RestoreDebug, RestoreImpersonate, RestorePrivileges
  <2>5. CASE RestoreDebugFails(p) \/ RestoreImpersonateFails(p)
      BY <1>0, <2>2, <2>5 DEF RestoreDebugFails, RestoreImpersonateFails, RestoreFails
  <2>6. CASE Crash(p)
      BY <1>0, <2>2, <2>6 DEF Crash
  <2>7. CASE Terminate(p)
      BY <1>0, <2>2, <2>7 DEF Terminate, Compensation
  <2>8. CASE WaitForExit(p)
      BY <1>0, <2>2, <2>8 DEF WaitForExit, AfterWait
  <2>9. CASE UNCHANGED tokenVars /\ (pc[p] \in Guarded => pc'[p] \in Guarded)
      BY <1>0, <2>2, <2>9
  <2> QED BY <1>0, <1>1, <2>3, <2>4, <2>5, <2>6, <2>7, <2>8, <2>9 DEF Work, RecordRequest,
     RecordRequestFails, CheckSession, SessionFails, StartService, StartServiceFails,
     ServiceRunning, PollAgain, PollFails, EnableDebugFails, Capture, EnableImpersonateFails,
     CreateConsole, CreateConsoleFails, ThreadHandleMissing, ProcessHandleMissing,
     RecordFailure, RecordSuccess, RecordSuccessFails, ReturnUnaudited, LauncherFails
<1>2. ASSUME NEW p \in Process, BeginLaunch(p) PROVE PrivilegeInv'
    BY <1>0, <1>2, LaunchBegins DEF PrivilegeInv, Guarded, BeginLaunch, tokenVars
<1>3. ASSUME UNCHANGED <<pc, tokenVars>> PROVE PrivilegeInv'
    BY <1>0, <1>3 DEF PrivilegeInv, tokenVars
<1> QED BY <1>1, <1>2, <1>3, EnvironmentFrame DEF Next, GuardRefused, vars

\* The console of a launch is created after the request and, unless the error says otherwise,
\* has ended when the worker reports a failure.
LEMMA ConsoleStep == ASSUME LaunchInv, Next PROVE ConsoleInv'
<1>0. /\ TypeOK /\ LabelOK /\ ConsoleInv
      /\ console \in Seq(ConsoleState) /\ DOMAIN console = 1 .. Len(console)
    BY LenProperties DEF LaunchInv, TypeOK, ConsoleState
<1>1. ASSUME NEW p \in Process, Work(p) \/ Crash(p) PROVE ConsoleInv'
  <2>0. /\ pc[p] # "idle" /\ current[p] \in 1 .. Len(console)
        /\ \A q \in Process \ {p} : pc'[q] = "idle"
      BY <1>1, OthersIdle, CurrentIndex
  <2> DEFINE c == console[current[p]]
  <2>1. SUFFICES
          /\ pc'[p] \in BeforeRequest \cup BeforeConsole => console'[current'[p]] = "none"
          /\ pc'[p] \in {"failed", "return"} /\ clean'[p] => console'[current'[p]] \in {"none", "gone"}
          /\ pc'[p] = "restore_impersonate" /\ clean'[p] /\ ~process'[p] =>
                console'[current'[p]] \in {"none", "gone"}
      BY <2>0 DEF ConsoleInv, BeforeRequest, BeforeConsole
  <2>2. /\ pc[p] \in BeforeRequest \cup BeforeConsole => c = "none"
        /\ pc[p] \in {"failed", "return"} /\ clean[p] => c \in {"none", "gone"}
        /\ pc[p] = "restore_impersonate" /\ clean[p] /\ ~process[p] => c \in {"none", "gone"}
      BY <1>0 DEF ConsoleInv
  <2> USE DEF TypeOK, LabelOK, BeforeRequest, BeforeConsole, Step, Goto, Return, local
  <2>4. CASE CreateConsole(p) \/ ThreadHandleMissing(p) \/ ProcessHandleMissing(p)
      BY <1>0, <2>4 DEF CreateConsole, ThreadHandleMissing, ProcessHandleMissing
  <2>5. CASE CreateConsoleFails(p)
      BY <1>0, <2>2, <2>5 DEF CreateConsoleFails
  <2>6. CASE Terminate(p)
      BY <1>0, <2>6 DEF Terminate, Compensation
  <2>7. CASE WaitForExit(p)
    <3>1. /\ current' = current /\ console' = console
          /\ pc'[p] \notin BeforeRequest \cup BeforeConsole
        BY <1>0, <2>7 DEF WaitForExit, AfterWait
    <3>2. clean'[p] = (clean[p] /\ ~WaitTimedOut(p))
        BY <1>0, <2>7 DEF WaitForExit
    <3>3. clean'[p] => c = "gone"
        BY <3>2, Zenon DEF WaitTimedOut
    <3> QED BY <3>1, <3>3
  <2>8. CASE RestoreImpersonate(p) \/ RestoreImpersonateFails(p)
      BY <1>0, <2>2, <2>8 DEF RestoreImpersonate, RestoreImpersonateFails
  <2>9. CASE RestoreDebug(p) \/ RestoreDebugFails(p) \/ Capture(p)
      BY <1>0, <2>2, <2>9 DEF RestoreDebug, RestoreDebugFails, Capture
  <2>10. CASE RecordRequest(p) \/ RecordSuccessFails(p)
      BY <1>0, <2>2, <2>10 DEF RecordRequest, RecordSuccessFails
  <2>11. CASE CheckSession(p) \/ SessionFails(p) \/ StartService(p) \/ StartServiceFails(p)
              \/ ServiceRunning(p) \/ PollAgain(p) \/ PollFails(p) \/ EnableDebug(p)
              \/ EnableDebugFails(p) \/ EnableImpersonate(p) \/ EnableImpersonateFails(p)
      BY <1>0, <2>2, <2>11 DEF CheckSession, SessionFails, StartService, StartServiceFails,
         ServiceRunning, PollAgain, PollFails, EnableDebug, EnableDebugFails,
         EnableImpersonate, EnableImpersonateFails, LauncherFails
  <2>12. CASE Crash(p) \/ RecordRequestFails(p) \/ RecordFailure(p) \/ RecordSuccess(p)
              \/ ReturnUnaudited(p)
      BY <1>0, <2>12 DEF Crash, RecordRequestFails, RecordFailure, RecordSuccess,
         ReturnUnaudited
  <2> QED BY <1>1, <2>4, <2>5, <2>6, <2>7, <2>8, <2>9, <2>10, <2>11, <2>12 DEF Work
<1>2. ASSUME NEW p \in Process, BeginLaunch(p) PROVE ConsoleInv'
  <2>1. Len(console) = Len(result)
      BY DEF LaunchInv, CurrentInv
  <2> QED BY <1>2, <2>1, LaunchBegins DEF ConsoleInv, BeforeRequest, BeforeConsole
<1>3. ASSUME UNCHANGED <<pc, current, clean, process, console>> PROVE ConsoleInv'
    BY <1>0, <1>3 DEF ConsoleInv
<1>4. ASSUME NEW l \in DOMAIN console, ConsoleEnds(l) PROVE ConsoleInv'
  <2>1. UNCHANGED <<pc, current, clean, process>>
      BY <1>4 DEF ConsoleEnds, local
  <2>2. \A m \in DOMAIN console : console'[m] = console[m] \/
           (console[m] \in {"running", "ending"} /\ console'[m] = "gone")
      BY <1>4 DEF ConsoleEnds
  <2>3. \A p \in Process : pc[p] # "idle" => current[p] \in DOMAIN console
      BY <1>0, CurrentIndex
  <2> QED BY <1>0, <2>1, <2>2, <2>3 DEF ConsoleInv, BeforeRequest, BeforeConsole
<1> QED BY <1>1, <1>2, <1>3, <1>4, EnvironmentFrame DEF Next, GuardRefused, vars, local

\* A report of failure without a complaint means there is no console, and every console was
\* requested in the journal.
LEMMA AccountedStep == ASSUME LaunchInv, Next PROVE ConsoleAccounted'
<1>0. /\ TypeOK /\ LabelOK /\ ConsoleInv /\ TrailInv /\ ConsoleAccounted
      /\ Len(console) = Len(result)
      /\ console \in Seq(ConsoleState) /\ console' \in Seq(ConsoleState)
    BY LogsStep DEF LaunchInv, CurrentInv, TypeOK, ConsoleState
<1>a. /\ Len(console) \in Nat /\ DOMAIN console = 1 .. Len(console)
      /\ DOMAIN console' = 1 .. Len(console')
    BY <1>0, LenProperties
<1>1. ASSUME NEW p \in Process, BeginLaunch(p) PROVE ConsoleAccounted'
  <2>1. /\ trail' = trail /\ Len(console') = Len(console) + 1
        /\ \A l \in 1 .. Len(console) : console'[l] = console[l] /\ result'[l] = result[l]
        /\ console'[Len(console) + 1] = "none"
      BY <1>0, <1>1, LaunchBegins
  <2>2. SUFFICES ASSUME NEW l \in 1 .. Len(console'), console'[l] # "none"
                 PROVE  /\ console'[l] \in {"running", "ending"} =>
                              result'[l] \in {"running", "ok", "uncompensated", "crashed"}
                        /\ [launch |-> l, kind |-> "request"] \in {trail'[i] : i \in DOMAIN trail'}
      BY <1>a DEF ConsoleAccounted
  <2>3. l \in DOMAIN console /\ console'[l] = console[l] /\ result'[l] = result[l]
      BY <1>a, <2>1, <2>2
  <2> QED BY <1>0, <2>1, <2>2, <2>3 DEF ConsoleAccounted
<1>2. ASSUME NEW p \in Process, Work(p) \/ Crash(p) PROVE ConsoleAccounted'
  <2>0. /\ pc[p] # "idle" /\ current[p] \in 1 .. Len(console) /\ current[p] \in 1 .. Len(result)
        /\ result[current[p]] = "running"
      BY <1>2, OthersIdle, CurrentIndex
  <2>1. {trail[i] : i \in DOMAIN trail} \subseteq {trail'[i] : i \in DOMAIN trail'}
      BY <1>2, TrailExtends
  <2>2. /\ DOMAIN console' = DOMAIN console
        /\ \A l \in DOMAIN console : l # current[p] => result'[l] = result[l] /\ console'[l] = console[l]
      BY <1>0, <1>a, <1>2, EntriesKept
  <2>3. console'[current[p]] \in {"running", "ending"} =>
           result'[current[p]] \in {"running", "ok", "uncompensated", "crashed"}
    <3>1. CASE result' = result
        BY <2>0, <3>1
    <3>2. CASE pc'[p] = "idle" /\ console' = console
      <4> USE DEF Return, LabelOK, TypeOK, Step, Goto, Labels, Outcome, BeforeRequest,
         BeforeConsole, Unrecorded, Unaudited
      <4>1. result \in Seq(Result) /\ DOMAIN result = 1 .. Len(result)
          BY <1>0, LenProperties DEF Result
      <4>2. CASE RecordRequestFails(p)
        <5>1. console[current[p]] = "none"
            BY <1>0, <4>2 DEF RecordRequestFails, ConsoleInv
        <5> QED BY <3>2, <5>1
      <4>3. CASE RecordFailure(p) \/ ReturnUnaudited(p)
        <5>1. clean[p] => console[current[p]] \in {"none", "gone"}
            BY <1>0, <4>3 DEF RecordFailure, ReturnUnaudited, ConsoleInv
        <5>2. clean[p] \/ result'[current[p]] = "uncompensated"
            BY <1>0, <2>0, <4>1, <4>3 DEF RecordFailure, ReturnUnaudited
        <5> QED BY <3>2, <5>1, <5>2
      <4>4. CASE RecordSuccess(p) \/ Crash(p)
          BY <1>0, <2>0, <4>1, <4>4 DEF RecordSuccess, Crash
      <4>5. CASE ~(RecordRequestFails(p) \/ RecordFailure(p) \/ ReturnUnaudited(p)
                  \/ RecordSuccess(p) \/ Crash(p))
        <5>1. CASE Terminate(p)
            BY <1>0, <3>2, <5>1 DEF Terminate, Compensation
        <5>2. CASE WaitForExit(p)
            BY <1>0, <3>2, <5>2 DEF WaitForExit, AfterWait
        <5> QED BY <1>0, <1>2, <2>0, <3>2, <4>5, <5>1, <5>2 DEF Work, RecordRequest,
           CheckSession, SessionFails, StartService, StartServiceFails, ServiceRunning,
           PollAgain, PollFails, EnableDebug, EnableDebugFails, Capture, RestoreDebug,
           RestoreDebugFails, EnableImpersonate, EnableImpersonateFails, CreateConsole,
           CreateConsoleFails, ThreadHandleMissing, ProcessHandleMissing, RestoreImpersonate,
           RestoreImpersonateFails, RecordSuccessFails, LauncherFails
      <4> QED BY <4>2, <4>3, <4>4, <4>5
    <3> QED BY <1>0, <1>2, <3>1, <3>2, Effects
  <2>4. console'[current[p]] # "none" =>
           [launch |-> current[p], kind |-> "request"] \in {trail'[i] : i \in DOMAIN trail'}
    <3>1. CASE console' = console
        BY <1>0, <1>a, <2>0, <2>1, <3>1 DEF ConsoleAccounted
    <3>2. CASE pc[p] = "create"
      <4>1. Len(trail) > 0 /\ trail[Len(trail)] = [launch |-> current[p], kind |-> "request"]
          BY <1>0, <3>2 DEF TrailInv, Requested, Unrecorded, BeforeConsole
      <4>2. Len(trail) \in DOMAIN trail
          BY <1>2, <4>1, TrailExtends
      <4> QED BY <2>1, <4>1, <4>2
    <3>3. CASE Terminate(p)
      <4>1. console[current[p]] # "none"
          BY <3>3 DEF Terminate
      <4> QED BY <1>0, <1>a, <2>0, <2>1, <4>1 DEF ConsoleAccounted
    <3> QED BY <1>2, <3>1, <3>2, <3>3 DEF Work, RecordRequest, RecordRequestFails,
       CheckSession, SessionFails, StartService, StartServiceFails, ServiceRunning, PollAgain,
       PollFails, EnableDebug, EnableDebugFails, Capture, RestoreDebug, RestoreDebugFails,
       EnableImpersonate, EnableImpersonateFails, CreateConsole, CreateConsoleFails,
       ThreadHandleMissing, ProcessHandleMissing, RestoreImpersonate, RestoreImpersonateFails,
       RecordFailure, RecordSuccess, RecordSuccessFails, ReturnUnaudited, LauncherFails,
       WaitForExit, Crash, Step
  <2> QED BY <1>0, <2>1, <2>2, <2>3, <2>4 DEF ConsoleAccounted
<1>3. ASSUME UNCHANGED <<console, result, trail>> PROVE ConsoleAccounted'
    BY <1>0, <1>3 DEF ConsoleAccounted
<1>4. ASSUME NEW l \in DOMAIN console, ConsoleEnds(l) PROVE ConsoleAccounted'
    BY <1>0, <1>4 DEF ConsoleAccounted, ConsoleEnds
<1> QED BY <1>1, <1>2, <1>3, <1>4, EnvironmentFrame DEF Next, GuardRefused, vars
-----------------------------------------------------------------------------

\* Before the first launch nothing is held, enabled or recorded.
LEMMA InitialInv == Init => LaunchInv
<1> SUFFICES ASSUME Init PROVE LaunchInv
    OBVIOUS
<1>1. TypeOK
  <2>1. << >> \in Seq(ConsoleState) /\ << >> \in Seq(Result) /\ << >> \in Seq(Event)
      BY EmptySeq
  <2>2. enabled \in [Process -> SUBSET Privilege]
      BY DEF Init, Privilege
  <2>3. 0 \in 0 .. PollAttempts - 1 /\ 0 \in 0 .. MaxFaults /\ 0 \in 0 .. MaxCrashes
      BY LaunchConstants
  <2> QED BY <2>1, <2>2, <2>3 DEF Init, TypeOK, ConsoleState, Result, Event
<1>2. LabelOK /\ GuardExclusive /\ TrailInv /\ ConsoleInv /\ PrivilegeInv
    BY DEF Init, LabelOK, Labels, GuardExclusive, TrailInv, ConsoleInv, PrivilegeInv,
       Unrecorded, BeforeRequest, BeforeConsole
<1>3. CurrentInv
    BY LaunchConstants DEF Init, CurrentInv
<1>4. ConsoleAccounted /\ OutcomeFollowsRequest
    BY DEF Init, ConsoleAccounted, OutcomeFollowsRequest
<1> QED BY <1>1, <1>2, <1>3, <1>4 DEF LaunchInv

\* Every reachable state satisfies the inductive invariant.
THEOREM Invariance == Spec => []LaunchInv
<1>1. LaunchInv /\ UNCHANGED vars => LaunchInv'
    BY DEF vars, local, tokenVars, LaunchInv, TypeOK, LabelOK, GuardExclusive, CurrentInv,
       TrailInv, Requested, ConsoleInv, PrivilegeInv, ConsoleAccounted, OutcomeFollowsRequest
<1>2. LaunchInv /\ Next => LaunchInv'
    BY TypeStep, GuardStep, CurrentStep, TrailStep, ConsoleStep, PrivilegeStep, AccountedStep,
       OutcomeStep DEF LaunchInv
<1> QED BY <1>1, <1>2, InitialInv, PTL DEF Spec

\* Every variable keeps its type; in particular the polls of the service are bounded.
THEOREM TypeCorrectness == Spec => []TypeOK
<1>1. LaunchInv => TypeOK
    BY DEF LaunchInv
<1> QED BY <1>1, Invariance, PTL

\* acquire_trustedinstaller_operation_guard: at most one worker is inside a launch.
THEOREM LaunchesExclude == Spec => []GuardExclusive
<1>1. LaunchInv => GuardExclusive
    BY DEF LaunchInv
<1> QED BY <1>1, Invariance, PTL

\* No console without its request, and none behind an error that does not report it.
THEOREM ConsolesAreAccounted == Spec => []ConsoleAccounted
<1>1. LaunchInv => ConsoleAccounted
    BY DEF LaunchInv
<1> QED BY <1>1, Invariance, PTL

\* PrivilegeGuard leaves the process token as it found it, or its failure was reported.
THEOREM PrivilegesAreRestored == Spec => []PrivilegesRestored
<1>1. LaunchInv => PrivilegesRestored
    BY DEF LaunchInv, PrivilegeInv, PrivilegesRestored, Guarded
<1> QED BY <1>1, Invariance, PTL

\* The journal pairs every outcome with the request directly before it.
THEOREM OutcomesFollowRequests == Spec => []OutcomeFollowsRequest
<1>1. LaunchInv => OutcomeFollowsRequest
    BY DEF LaunchInv
<1> QED BY <1>1, Invariance, PTL
=============================================================================
