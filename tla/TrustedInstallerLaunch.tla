----------------------- MODULE TrustedInstallerLaunch -----------------------
(***************************************************************************)
(* The audited TrustedInstaller console (execute_trustedinstaller_launch   *)
(* in crates/app-ui/src/controller.rs, crates/platform-win32/src/tokens.rs *)
(* and PrivilegeGuard in security.rs).                                     *)
(*                                                                         *)
(* Under the cross-process operation guard a worker records the request,   *)
(* starts the TrustedInstaller service and polls it, captures its token    *)
(* with SeDebugPrivilege, creates the console with SeImpersonatePrivilege  *)
(* and records the outcome.  When the console exists but a later step      *)
(* fails, the worker terminates it and waits a bounded time for its end.   *)
(* The service, the user and the kernel act on their own.                  *)
(***************************************************************************)
EXTENDS Naturals, Sequences

CONSTANTS
    Process,        \* WinProfile processes
    PollAttempts,   \* SERVICE_START_POLL_ATTEMPTS
    MaxLaunches,    \* bound: launches begun
    MaxFaults,      \* bound: calls that fail although they could succeed
    MaxCrashes      \* bound: process crashes

ASSUME LaunchConstants ==
    /\ PollAttempts \in Nat \ {0}
    /\ MaxLaunches \in Nat /\ MaxFaults \in Nat /\ MaxCrashes \in Nat

Privilege == {"debug", "impersonate"}
Launch == 1 .. MaxLaunches
Kind == {"request", "success", "failed"}

VARIABLES
    guard,      \* the processes holding the operation guard: none or one
    pc,         \* the next step of each process's worker
    current,    \* the launch each worker is making, or 0
    polls,      \* status queries the worker has made
    token,      \* does the worker own a duplicated token
    process,    \* does the worker own a usable process handle
    clean,      \* has every compensation of this launch worked so far
    enabled,    \* the privileges enabled in each process's token
    initial,    \* those enabled when the process started
    previous,   \* previous_states: what the live PrivilegeGuard will disable again
    kept,       \* history: privileges a reported restoration failure left enabled
    service,    \* the TrustedInstaller service
    console,    \* the console of each launch begun
    result,     \* how each launch ended
    trail,      \* the journal's events of launches
    faults, crashes

local == <<current, polls, token, process, clean>>
tokenVars == <<enabled, initial, previous, kept>>
vars == <<guard, pc, local, tokenVars, service, console, result, trail, faults, crashes>>

Init ==
    /\ guard = {}
    /\ pc = [p \in Process |-> "idle"]
    /\ current = [p \in Process |-> 0]
    /\ polls = [p \in Process |-> 0]
    /\ token = [p \in Process |-> FALSE]
    /\ process = [p \in Process |-> FALSE]
    /\ clean = [p \in Process |-> TRUE]
    /\ enabled \in [Process -> {{}, {"impersonate"}}]
    /\ initial = enabled
    /\ previous = [p \in Process |-> {}]
    /\ kept = [p \in Process |-> {}]
    /\ service \in {"stopped", "running"}
    /\ console = << >>
    /\ result = << >>
    /\ trail = << >>
    /\ faults = 0 /\ crashes = 0

Goto(p, label) == pc' = [pc EXCEPT ![p] = label]
Step(p, from, to) == pc[p] = from /\ Goto(p, to)

Fault ==
    /\ faults < MaxFaults
    /\ faults' = faults + 1

\* A journal write succeeds, or fails with or without its line in the file.
Recorded(p, kind) == trail' = Append(trail, [launch |-> current[p], kind |-> kind])
RecordFails(p, kind) == Fault /\ (Recorded(p, kind) \/ UNCHANGED trail)

\* The worker returns the given result and drops the guard and its handles.
Return(p, outcome) ==
    /\ Goto(p, "idle")
    /\ guard' = guard \ {p}
    /\ result' = [result EXCEPT ![current[p]] = outcome]
    /\ current' = [current EXCEPT ![p] = 0]
    /\ polls' = [polls EXCEPT ![p] = 0]
    /\ token' = [token EXCEPT ![p] = FALSE]
    /\ process' = [process EXCEPT ![p] = FALSE]
    /\ clean' = [clean EXCEPT ![p] = TRUE]

\* What an error returned after a compensation, or without one, says of the console.
Outcome(p) == IF clean[p] THEN "failed" ELSE "uncompensated"

-----------------------------------------------------------------------------
(* The guard and the request. *)

\* Mutant: the launch does not exclude other processes' operations.
GuardFree_Unchecked == TRUE

GuardFree == guard = {}

\* launch_ti_console and acquire_trustedinstaller_operation_guard.
BeginLaunch(p) ==
    /\ Step(p, "idle", "request")
    /\ Len(result) < MaxLaunches
    /\ GuardFree
    /\ guard' = guard \cup {p}
    /\ current' = [current EXCEPT ![p] = Len(result) + 1]
    /\ result' = Append(result, "running")
    /\ console' = Append(console, "none")
    /\ UNCHANGED <<polls, token, process, clean, tokenVars, service, trail, faults, crashes>>

\* TrustedInstallerLaunchError::OperationLock: nothing has happened yet.
GuardRefused(p) ==
    /\ pc[p] = "idle"
    /\ guard # {}
    /\ UNCHANGED vars

RecordRequest(p) ==
    /\ Step(p, "request", "session")
    /\ Recorded(p, "request")
    /\ UNCHANGED <<guard, local, tokenVars, service, console, result, faults, crashes>>

RecordRequestFails(p) ==
    /\ pc[p] = "request"
    /\ RecordFails(p, "request")
    /\ Return(p, "not_requested")
    /\ UNCHANGED <<tokenVars, service, console, crashes>>

-----------------------------------------------------------------------------
(* The session and the service. *)

\* A call of the launcher fails before there is a console; the failure is recorded next.
LauncherFails(p, from) ==
    /\ Step(p, from, "failed")
    /\ UNCHANGED <<guard, local, tokenVars, service, console, result, trail, crashes>>

\* The console's path and the requesting session are resolved.
CheckSession(p) ==
    /\ Step(p, "session", "start")
    /\ UNCHANGED <<guard, local, tokenVars, service, console, result, trail, faults, crashes>>

\* The path is missing, or the session is session 0 or disconnected.
SessionFails(p) == LauncherFails(p, "session") /\ Fault

\* StartServiceW; a service that is not stopped answers ERROR_SERVICE_ALREADY_RUNNING.
StartService(p) ==
    /\ Step(p, "start", "poll")
    /\ service' = IF service = "stopped" THEN "start_pending" ELSE service
    /\ UNCHANGED <<guard, local, tokenVars, console, result, trail, faults, crashes>>

StartServiceFails(p) == LauncherFails(p, "start") /\ Fault

ServiceRunning(p) ==
    /\ service = "running"
    /\ Step(p, "poll", "debug")
    /\ UNCHANGED <<guard, local, tokenVars, service, console, result, trail, faults, crashes>>

LastPoll(p) == polls[p] + 1 = PollAttempts

\* Mutant: the attempt is not counted.
PollAgain_Uncounted(p) ==
    /\ pc[p] = "poll"
    /\ service = "start_pending"
    /\ UNCHANGED vars

\* The service is still starting and an attempt is left.
PollAgain(p) ==
    /\ pc[p] = "poll"
    /\ service = "start_pending"
    /\ ~ LastPoll(p)
    /\ polls' = [polls EXCEPT ![p] = @ + 1]
    /\ UNCHANGED <<guard, pc, current, token, process, clean, tokenVars, service, console, result,
                   trail, faults, crashes>>

\* The service is stopped or stopping, or the last attempt still found it starting, or the
\* query failed.
PollFails(p) ==
    /\ LauncherFails(p, "poll")
    /\ \/ service \in {"stopped", "stop_pending"} /\ UNCHANGED faults
       \/ service = "start_pending" /\ LastPoll(p) /\ UNCHANGED faults
       \/ Fault

-----------------------------------------------------------------------------
(* PrivilegeGuard. *)

\* Mutant: the previous state is assumed to be disabled.
EnablePrivilege_Assumed(p, privilege) ==
    /\ previous' = [previous EXCEPT ![p] = {privilege}]
    /\ enabled' = [enabled EXCEPT ![p] = @ \cup {privilege}]
    /\ UNCHANGED <<initial, kept>>

\* PrivilegeGuard::new: an already enabled privilege leaves no previous state to restore.
EnablePrivilege(p, privilege) ==
    /\ previous' = [previous EXCEPT ![p] = {privilege} \ enabled[p]]
    /\ enabled' = [enabled EXCEPT ![p] = @ \cup {privilege}]
    /\ UNCHANGED <<initial, kept>>

\* PrivilegeGuard::restore.
RestorePrivileges(p) ==
    /\ enabled' = [enabled EXCEPT ![p] = @ \ previous[p]]
    /\ previous' = [previous EXCEPT ![p] = {}]
    /\ UNCHANGED <<initial, kept, faults>>

\* restore() fails; Drop tries once more and only traces its own failure.
RestoreFails(p) ==
    /\ previous[p] # {}
    /\ Fault
    /\ previous' = [previous EXCEPT ![p] = {}]
    /\ \/ enabled' = [enabled EXCEPT ![p] = @ \ previous[p]] /\ UNCHANGED kept
       \/ kept' = [kept EXCEPT ![p] = @ \cup previous[p]] /\ UNCHANGED enabled
    /\ UNCHANGED initial

-----------------------------------------------------------------------------
(* duplicate_trustedinstaller_token. *)

EnableDebug(p) ==
    /\ Step(p, "debug", "capture")
    /\ EnablePrivilege(p, "debug")
    /\ UNCHANGED <<guard, local, service, console, result, trail, faults, crashes>>

EnableDebugFails(p) == LauncherFails(p, "debug") /\ Fault

\* OpenProcess, OpenProcessToken and DuplicateTokenEx on the process id of the poll: they fail
\* when the service process has ended since, and may still succeed while it is stopping.
Capture(p) ==
    /\ Step(p, "capture", "restore_debug")
    /\ \/ service \in {"running", "stop_pending"} /\ token' = [token EXCEPT ![p] = TRUE] /\ UNCHANGED faults
       \/ service # "running" /\ UNCHANGED <<token, faults>>
       \/ Fault /\ UNCHANGED token
    /\ UNCHANGED <<guard, current, polls, process, clean, tokenVars, service, console, result, trail, crashes>>

\* restore_after_operation.
RestoreDebug(p) ==
    /\ Step(p, "restore_debug", IF token[p] THEN "impersonate" ELSE "failed")
    /\ RestorePrivileges(p)
    /\ UNCHANGED <<guard, local, service, console, result, trail, crashes>>

RestoreDebugFails(p) ==
    /\ Step(p, "restore_debug", "failed")
    /\ RestoreFails(p)
    /\ UNCHANGED <<guard, local, service, console, result, trail, crashes>>

EnableImpersonate(p) ==
    /\ Step(p, "impersonate", "create")
    /\ EnablePrivilege(p, "impersonate")
    /\ UNCHANGED <<guard, local, service, console, result, trail, faults, crashes>>

EnableImpersonateFails(p) == LauncherFails(p, "impersonate") /\ Fault

-----------------------------------------------------------------------------
(* launch_process_with_token. *)

SetConsole(p, state) == console' = [console EXCEPT ![current[p]] = state]

\* CreateProcessWithTokenW succeeds with both handles.
CreateConsole(p) ==
    /\ Step(p, "create", "restore_impersonate")
    /\ SetConsole(p, "running")
    /\ process' = [process EXCEPT ![p] = TRUE]
    /\ UNCHANGED <<guard, current, polls, token, clean, tokenVars, service, result, trail, faults, crashes>>

\* The environment block or the process cannot be created.
CreateConsoleFails(p) ==
    /\ Step(p, "create", "restore_impersonate")
    /\ Fault
    /\ UNCHANGED <<guard, local, tokenVars, service, console, result, trail, crashes>>

\* validate_created_process_information without a thread handle: the console is compensated.
ThreadHandleMissing(p) ==
    /\ Step(p, "create", "terminate_incomplete")
    /\ Fault
    /\ SetConsole(p, "running")
    /\ UNCHANGED <<guard, local, tokenVars, service, result, trail, crashes>>

\* validate_created_process_information without a process handle: "child cannot be
\* compensated".
ProcessHandleMissing(p) ==
    /\ Step(p, "create", "restore_impersonate")
    /\ Fault
    /\ SetConsole(p, "running")
    /\ clean' = [clean EXCEPT ![p] = FALSE]
    /\ UNCHANGED <<guard, current, polls, token, process, tokenVars, service, result, trail, crashes>>

\* finalize_process_privilege_restore.
RestoreImpersonate(p) ==
    /\ Step(p, "restore_impersonate", IF process[p] THEN "success" ELSE "failed")
    /\ RestorePrivileges(p)
    /\ UNCHANGED <<guard, local, service, console, result, trail, crashes>>

RestoreImpersonateFails(p) ==
    /\ Step(p, "restore_impersonate", IF process[p] THEN "terminate_unrestored" ELSE "failed")
    /\ RestoreFails(p)
    /\ UNCHANGED <<guard, local, service, console, result, trail, crashes>>

-----------------------------------------------------------------------------
(* compensate_process, and the compensation of a failed terminal audit. *)

\* Where a compensation was called from, and where the worker goes after it.
Compensation ==
    [terminate_incomplete |-> "wait_incomplete", terminate_unrestored |-> "wait_unrestored",
     terminate_unaudited |-> "wait_unaudited"]
AfterWait ==
    [wait_incomplete |-> "restore_impersonate", wait_unrestored |-> "failed",
     wait_unaudited |-> "return"]

\* TerminateProcess begins the end of a console; it fails on one that has already ended.
Terminate(p) ==
    /\ pc[p] \in DOMAIN Compensation
    /\ Goto(p, Compensation[pc[p]])
    /\ \/ console[current[p]] = "running" /\ SetConsole(p, "ending") /\ UNCHANGED <<clean, faults>>
       \/ /\ console[current[p]] = "gone" /\ UNCHANGED <<console, faults>>
          /\ clean' = [clean EXCEPT ![p] = FALSE]
       \/ /\ console[current[p]] = "running" /\ Fault /\ UNCHANGED console
          /\ clean' = [clean EXCEPT ![p] = FALSE]
    /\ UNCHANGED <<guard, current, polls, token, process, tokenVars, service, result, trail, crashes>>

\* Mutant: WAIT_TIMEOUT is taken for the end of the process.
WaitTimedOut_Ignored(p) == FALSE

WaitTimedOut(p) == console[current[p]] # "gone"

\* WaitForSingleObject returns when the console is gone or its timeout has passed.
WaitForExit(p) ==
    /\ pc[p] \in DOMAIN AfterWait
    /\ Goto(p, AfterWait[pc[p]])
    /\ process' = [process EXCEPT ![p] = FALSE]
    /\ clean' = [clean EXCEPT ![p] = @ /\ ~ WaitTimedOut(p)]
    /\ UNCHANGED <<guard, current, polls, token, tokenVars, service, console, result, trail, faults, crashes>>

-----------------------------------------------------------------------------
(* The terminal audit. *)

\* The launcher's error is recorded; a failure to record it is added to the error.
RecordFailure(p) ==
    /\ pc[p] = "failed"
    /\ \/ Recorded(p, "failed") /\ UNCHANGED faults
       \/ RecordFails(p, "failed")
    /\ Return(p, Outcome(p))
    /\ UNCHANGED <<tokenVars, service, console, crashes>>

RecordSuccess(p) ==
    /\ pc[p] = "success"
    /\ Recorded(p, "success")
    /\ Return(p, "ok")
    /\ UNCHANGED <<tokenVars, service, console, faults, crashes>>

RecordSuccessFails(p) ==
    /\ Step(p, "success", "terminate_unaudited")
    /\ RecordFails(p, "success")
    /\ UNCHANGED <<guard, local, tokenVars, service, console, result, crashes>>

\* TerminalAuditCompensated or TerminalAuditCompensationFailed.
ReturnUnaudited(p) ==
    /\ pc[p] = "return"
    /\ Return(p, Outcome(p))
    /\ UNCHANGED <<tokenVars, service, console, trail, faults, crashes>>

-----------------------------------------------------------------------------
(* The environment. *)

\* The service control manager moves the service; TrustedInstaller stops when idle.
ServiceMoves ==
    /\ \/ service = "start_pending" /\ service' \in {"running", "stopped"}
       \/ service = "running" /\ service' = "stop_pending"
       \/ service = "stop_pending" /\ service' = "stopped"
    /\ UNCHANGED <<guard, pc, local, tokenVars, console, result, trail, faults, crashes>>

\* The user closes a console, or the kernel completes its termination.
ConsoleEnds(l) ==
    /\ console[l] \in {"running", "ending"}
    /\ console' = [console EXCEPT ![l] = "gone"]
    /\ UNCHANGED <<guard, pc, local, tokenVars, service, result, trail, faults, crashes>>

\* The process ends during a launch and its token with it; the console does not.
Crash(p) ==
    /\ pc[p] # "idle"
    /\ crashes < MaxCrashes
    /\ crashes' = crashes + 1
    /\ Return(p, "crashed")
    /\ enabled' = [enabled EXCEPT ![p] = initial[p]]
    /\ previous' = [previous EXCEPT ![p] = {}]
    /\ kept' = [kept EXCEPT ![p] = {}]
    /\ UNCHANGED <<initial, service, console, trail, faults>>

Work(p) ==
    \/ RecordRequest(p) \/ RecordRequestFails(p)
    \/ CheckSession(p) \/ SessionFails(p) \/ StartService(p) \/ StartServiceFails(p)
    \/ ServiceRunning(p) \/ PollAgain(p) \/ PollFails(p)
    \/ EnableDebug(p) \/ EnableDebugFails(p) \/ Capture(p) \/ RestoreDebug(p) \/ RestoreDebugFails(p)
    \/ EnableImpersonate(p) \/ EnableImpersonateFails(p)
    \/ CreateConsole(p) \/ CreateConsoleFails(p) \/ ThreadHandleMissing(p) \/ ProcessHandleMissing(p)
    \/ RestoreImpersonate(p) \/ RestoreImpersonateFails(p) \/ Terminate(p) \/ WaitForExit(p)
    \/ RecordFailure(p) \/ RecordSuccess(p) \/ RecordSuccessFails(p) \/ ReturnUnaudited(p)

Next ==
    \/ \E p \in Process : BeginLaunch(p) \/ GuardRefused(p) \/ Work(p) \/ Crash(p)
    \/ ServiceMoves
    \/ \E l \in DOMAIN console : ConsoleEnds(l)

Spec == Init /\ [][Next]_vars

\* A worker thread that is not blocked keeps running.
FairSpec == Spec /\ \A p \in Process : WF_vars(Work(p))

-----------------------------------------------------------------------------

\* Every variable has its type.
TypeOK ==
    /\ guard \in SUBSET Process
    /\ DOMAIN pc = Process
    /\ current \in [Process -> {0} \cup Launch]
    /\ polls \in [Process -> 0 .. PollAttempts - 1]   \* the loop of the polls is bounded
    /\ token \in [Process -> BOOLEAN] /\ process \in [Process -> BOOLEAN]
    /\ clean \in [Process -> BOOLEAN]
    /\ enabled \in [Process -> SUBSET Privilege] /\ initial \in [Process -> SUBSET Privilege]
    /\ previous \in [Process -> SUBSET Privilege] /\ kept \in [Process -> SUBSET Privilege]
    /\ service \in {"stopped", "start_pending", "running", "stop_pending"}
    /\ console \in Seq({"none", "running", "ending", "gone"})
    /\ result \in Seq({"running", "not_requested", "failed", "uncompensated", "ok", "crashed"})
    /\ trail \in Seq([launch : Launch, kind : Kind])
    /\ faults \in 0 .. MaxFaults /\ crashes \in 0 .. MaxCrashes

\* A launch that reported failure and no trouble with its compensation has left no console,
\* and no console ever exists whose request is not in the journal: not after a failed
\* restoration, a failed terminal audit, a console that closes by itself or a late
\* termination (execute_trustedinstaller_launch, compensate_process).
ConsoleAccounted ==
    \A l \in DOMAIN console :
        /\ console[l] \in {"running", "ending"} =>
              result[l] \in {"running", "ok", "uncompensated", "crashed"}
        /\ console[l] # "none" => [launch |-> l, kind |-> "request"] \in {trail[i] : i \in DOMAIN trail}

\* The privileges a process has after a launch are those it started with, save those whose
\* restoration failed twice and was reported (PrivilegeGuard, restore_after_operation).
PrivilegesRestored ==
    \A p \in Process : pc[p] \in {"idle", "failed", "success"} => enabled[p] = initial[p] \cup kept[p]

\* In the journal the outcome of a launch directly follows its request: launches of two
\* processes never interleave, and none has two outcomes (the operation guard).
OutcomeFollowsRequest ==
    \A i \in DOMAIN trail : trail[i].kind # "request" =>
        i > 1 /\ trail[i - 1] = [launch |-> trail[i].launch, kind |-> "request"]

\* Every launch ends, whatever the service and the console do: the polls and the wait are
\* bounded.
LaunchEnds == \A l \in Launch : (l \in DOMAIN result /\ result[l] = "running") ~>
                                (l \in DOMAIN result /\ result[l] # "running")
=============================================================================
