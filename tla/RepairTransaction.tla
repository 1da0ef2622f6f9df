------------------------- MODULE RepairTransaction -------------------------
(***************************************************************************)
(* ProfileRepairEngine::execute_plan (crates/core-profiles/src/repair.rs)  *)
(* with the snapshots and the restore of crates/audit-journal.             *)
(*                                                                         *)
(* The profile of one SID is registered under ProfileList by up to three   *)
(* kinds of keys: the canonical name, the .bak name and timestamped        *)
(* .pre-repair-* names.  WinProfile processes repair it under a            *)
(* cross-process operation guard, Windows may log the user on meanwhile,   *)
(* and any call may fail or be the last one before a crash.  A key is its  *)
(* ProfileImagePath, State and RefCount; its path tells keys apart.        *)
(***************************************************************************)
EXTENDS Naturals, Sequences

CONSTANTS
    Proc,        \* WinProfile processes
    Path,        \* values of ProfileImagePath
    Empty,       \* an empty ProfileImagePath
    Backup,      \* .pre-repair-<timestamp> names
    None,        \* no key, no process, no name
    MaxFaults,   \* bound: calls that fail although they could succeed
    MaxCrashes,  \* bound: process crashes
    MaxLogons,   \* bound: logons of the profile's user
    MaxRepairs   \* bound: repairs begun

ASSUME RepairConstants ==
    /\ Empty \notin Path
    /\ None \notin Proc \cup Backup
    /\ {"canonical", "bak"} \cap Backup = {}
    /\ MaxFaults \in Nat /\ MaxCrashes \in Nat /\ MaxLogons \in Nat
    /\ MaxRepairs \in Nat

Name == {"canonical", "bak"} \cup Backup
Mask == {0, 1}
Key == [path : Path \cup {Empty}, state : Mask, refCount : Mask]
NoKey == [path |-> None]

\* struct RepairPlan, with the is_loaded flag of the scan that produced it.
Plan == [sid : {"canonical", "bak"}, path : Path, fixBak : BOOLEAN, resetState : BOOLEAN,
         dryRun : BOOLEAN, isLoaded : BOOLEAN]

Snapshot == [name : {"canonical", "bak"}, key : Key]

Event == {"RepairDryRun", "RepairStarted", "RepairSuccess", "RollbackCompleted",
          "RollbackIncomplete", "RepairFailed", "RepairRollbackFailed"}

VARIABLES
    registry,   \* the keys of the SID under ProfileList
    loaded,     \* is the user's hive loaded (HKEY_USERS\<sid> exists)
    guard,      \* the process holding the operation lock, or None
    pc,         \* where each process's repair worker is
    plan,       \* the plan it executes
    captured,   \* its snapshots, in the order they were taken; rollback consumes them
    todo,       \* names still to capture
    mutation,   \* struct RegistryMutation
    cause,      \* what made the repair roll back, or None
    errors,     \* did a step of the rollback fail
    auditLost,  \* history: did a journal write of this repair fail
    trail,      \* the journal's events of this repair
    result,     \* how the last repair ended
    before,     \* history: the registry when the guard was acquired
    left        \* remaining environment budget

locals == <<plan, captured, todo, mutation, cause, errors, auditLost, before>>
vars == <<registry, loaded, guard, pc, locals, trail, result, left>>

Labels == {"idle", "guard", "inspect", "validate", "reinspect", "dryRun", "paths", "snapshot",
           "openParent", "preserve", "renameBak", "resetState", "resetRefCount",
           "verify", "logSuccess", "unrenameBak", "unrenameCanonical", "restore", "logFailed",
           "logRollbackFailed"}

TypeOK ==
    /\ registry \in [Name -> Key \cup {NoKey}]
    /\ loaded \in BOOLEAN
    /\ guard \in Proc \cup {None}
    /\ pc \in [Proc -> Labels]
    /\ plan \in [Proc -> Plan \cup {None}]
    /\ captured \in [Proc -> Seq(Snapshot)]
    /\ todo \in [Proc -> Seq({"canonical", "bak"})]
    /\ mutation \in [Proc -> [bakMoved : BOOLEAN, backup : Backup \cup {None}]]
    /\ cause \in [Proc -> {None, "execution", "audit"}]
    /\ errors \in [Proc -> BOOLEAN]
    /\ auditLost \in [Proc -> BOOLEAN]
    /\ trail \in [Proc -> Seq(Event)]
    /\ result \in [Proc -> {None, "ok", "error", "rollbackError", "crashed"}]
    /\ before \in [Proc -> [Name -> Key \cup {NoKey}] \cup {None}]
    /\ left \in [fault : 0..MaxFaults, crash : 0..MaxCrashes, logon : 0..MaxLogons,
                repair : 0..MaxRepairs]

NoMutation == [bakMoved |-> FALSE, backup |-> None]

\* Any profile a scan can list: a canonical key, a .bak key or both.
Init ==
    /\ registry \in [Name -> Key \cup {NoKey}]
    /\ \A b \in Backup : registry[b] = NoKey
    /\ registry["canonical"] # NoKey \/ registry["bak"] # NoKey
    /\ registry["canonical"] # NoKey /\ registry["bak"] # NoKey =>
          registry["canonical"].path # registry["bak"].path
    /\ loaded = FALSE
    /\ guard = None
    /\ pc = [p \in Proc |-> "idle"]
    /\ plan = [p \in Proc |-> None]
    /\ captured = [p \in Proc |-> <<>>]
    /\ todo = [p \in Proc |-> <<>>]
    /\ mutation = [p \in Proc |-> NoMutation]
    /\ cause = [p \in Proc |-> None]
    /\ errors = [p \in Proc |-> FALSE]
    /\ auditLost = [p \in Proc |-> FALSE]
    /\ trail = [p \in Proc |-> <<>>]
    /\ result = [p \in Proc |-> None]
    /\ before = [p \in Proc |-> None]
    /\ left = [fault |-> MaxFaults, crash |-> MaxCrashes, logon |-> MaxLogons,
               repair |-> MaxRepairs]

-----------------------------------------------------------------------------
(* Registry calls.                                                         *)

Exists(n) == registry[n] # NoKey

\* rename_subkey (RegRenameKey): the old name must exist and the new one must not.
CanRename(m, n) == Exists(m) /\ ~Exists(n)
Renamed(m, n) == [registry EXCEPT ![n] = registry[m], ![m] = NoKey]

Goto(p, l) == pc' = [pc EXCEPT ![p] = l]

Record(p, e) == trail' = [trail EXCEPT ![p] = Append(@, e)]

\* execute_plan returns: locals and the guard are dropped.
Leave(p, r) ==
    /\ Goto(p, "idle")
    /\ result' = [result EXCEPT ![p] = r]
    /\ guard' = IF guard = p THEN None ELSE guard
    /\ plan' = [plan EXCEPT ![p] = None]
    /\ captured' = [captured EXCEPT ![p] = <<>>]
    /\ todo' = [todo EXCEPT ![p] = <<>>]
    /\ mutation' = [mutation EXCEPT ![p] = NoMutation]
    /\ cause' = [cause EXCEPT ![p] = None]
    /\ errors' = [errors EXCEPT ![p] = FALSE]
    /\ before' = [before EXCEPT ![p] = None]

Spend(kind) == left[kind] > 0 /\ left' = [left EXCEPT ![kind] = @ - 1]

-----------------------------------------------------------------------------
(* Preflight.                                                              *)

\* The operator confirms a plan or a dry run for a listed profile.
Begin(p) ==
    /\ pc[p] = "idle"
    /\ Spend("repair")
    /\ \E s \in Plan :
          /\ plan' = [plan EXCEPT ![p] = s]
          /\ Goto(p, IF s.dryRun THEN "inspect" ELSE "guard")
    /\ trail' = [trail EXCEPT ![p] = <<>>]
    /\ result' = [result EXCEPT ![p] = None]
    /\ auditLost' = [auditLost EXCEPT ![p] = FALSE]
    /\ UNCHANGED <<registry, loaded, guard, captured, todo, mutation, cause, errors, before>>

\* acquire_operation_guard
AcquireGuard(p) ==
    /\ pc[p] = "guard"
    /\ guard = None
    /\ guard' = p
    /\ before' = [before EXCEPT ![p] = registry]
    /\ Goto(p, "inspect")
    /\ UNCHANGED <<registry, loaded, plan, cause, captured, todo, mutation, errors, auditLost,
                   trail, result, left>>

\* validate_selected_actions and validate_lock_contract: nothing holds NTUSER.DAT.
InspectLocks(p) ==
    /\ \/ /\ pc[p] = "inspect"
          /\ plan[p].fixBak \/ plan[p].resetState
          /\ Goto(p, "validate")
       \/ /\ pc[p] = "reinspect"
          /\ Goto(p, IF plan[p].dryRun THEN "dryRun" ELSE "paths")
    /\ UNCHANGED <<registry, loaded, guard, locals, trail, result, left>>

\* ... or blockers are measured, or nothing is selected.
InspectionRefuses(p) ==
    /\ pc[p] \in {"inspect", "reinspect"}
    /\ Leave(p, "error")
    /\ UNCHANGED <<registry, loaded, auditLost, trail, left>>

\* validate_plan
PlanValid(s) ==
    /\ ~s.isLoaded /\ ~loaded
    /\ Exists(s.sid) /\ registry[s.sid].path = s.path
    /\ IF s.fixBak THEN Exists("bak") /\ registry["bak"].path # Empty
                   ELSE Exists("canonical")

ValidatePlan(p) ==
    /\ pc[p] = "validate"
    /\ PlanValid(plan[p])
    /\ Goto(p, "reinspect")
    /\ UNCHANGED <<registry, loaded, guard, locals, trail, result, left>>

LogDryRun(p) ==
    /\ pc[p] = "dryRun"
    /\ Record(p, "RepairDryRun")
    /\ Leave(p, "ok")
    /\ UNCHANGED <<registry, loaded, auditLost, left>>

-----------------------------------------------------------------------------
(* Snapshots.                                                              *)

\* create_required_snapshots: the list is fixed before the first key is saved.
RequiredSnapshots(p) ==
    IF plan[p].fixBak
    THEN IF Exists("canonical") THEN <<"bak", "canonical">> ELSE <<"bak">>
    ELSE <<"canonical">>

ChooseSnapshots(p) ==
    /\ pc[p] = "paths"
    /\ todo' = [todo EXCEPT ![p] = RequiredSnapshots(p)]
    /\ Goto(p, "snapshot")
    /\ UNCHANGED <<registry, loaded, guard, plan, cause, captured, mutation, errors, auditLost,
                   before, trail, result, left>>

\* create_registry_snapshot of the next name.
TakeSnapshot(p) ==
    /\ pc[p] = "snapshot" /\ todo[p] # <<>>
    /\ Exists(Head(todo[p]))
    /\ captured' = [captured EXCEPT
                       ![p] = Append(@, [name |-> Head(todo[p]),
                                         key |-> registry[Head(todo[p])]])]
    /\ todo' = [todo EXCEPT ![p] = Tail(@)]
    /\ UNCHANGED <<registry, loaded, guard, pc, plan, cause, mutation, errors, auditLost, before,
                   trail, result, left>>

LogStarted(p) ==
    /\ pc[p] = "snapshot" /\ todo[p] = <<>>
    /\ Record(p, "RepairStarted")
    /\ Goto(p, "openParent")
    /\ UNCHANGED <<registry, loaded, guard, locals, result, left>>

OpenParent(p) ==
    /\ pc[p] = "openParent"
    /\ Goto(p, IF plan[p].fixBak THEN "preserve" ELSE "resetState")
    /\ UNCHANGED <<registry, loaded, guard, locals, trail, result, left>>

-----------------------------------------------------------------------------
(* execute_steps and verify.                                               *)

\* Mutant: an existing canonical key is overwritten by the rename.
PreserveCanonical_Dropped(p) ==
    /\ pc[p] = "preserve"
    /\ registry' = [registry EXCEPT !["canonical"] = NoKey]
    /\ Goto(p, "renameBak")
    /\ UNCHANGED <<loaded, guard, locals, trail, result, left>>

\* The existing canonical key takes an unused timestamped name.
PreserveCanonical(p) ==
    /\ pc[p] = "preserve"
    /\ \/ /\ ~Exists("canonical")
          /\ UNCHANGED <<registry, mutation>>
       \/ \E b \in Backup :
             /\ CanRename("canonical", b)
             /\ registry' = Renamed("canonical", b)
             /\ mutation' = [mutation EXCEPT ![p].backup = b]
    /\ Goto(p, "renameBak")
    /\ UNCHANGED <<loaded, guard, plan, cause, captured, todo, errors, auditLost, before, trail,
                   result, left>>

\* Mutant: the moved .bak key is not remembered.
RenameBak_Forgotten(p) ==
    /\ pc[p] = "renameBak"
    /\ CanRename("bak", "canonical")
    /\ registry' = Renamed("bak", "canonical")
    /\ Goto(p, IF plan[p].resetState THEN "resetState" ELSE "verify")
    /\ UNCHANGED <<loaded, guard, locals, trail, result, left>>

RenameBak(p) ==
    /\ pc[p] = "renameBak"
    /\ CanRename("bak", "canonical")
    /\ registry' = Renamed("bak", "canonical")
    /\ mutation' = [mutation EXCEPT ![p].bakMoved = TRUE]
    /\ Goto(p, IF plan[p].resetState THEN "resetState" ELSE "verify")
    /\ UNCHANGED <<loaded, guard, plan, cause, captured, todo, errors, auditLost, before, trail,
                   result, left>>

\* Mutant: RefCount is decremented instead of reset.
ResetValue_Decrements(p) ==
    /\ pc[p] \in {"resetState", "resetRefCount"}
    /\ Exists("canonical")
    /\ IF pc[p] = "resetState"
       THEN registry' = [registry EXCEPT !["canonical"].state = 0] /\ Goto(p, "resetRefCount")
       ELSE registry' = [registry EXCEPT !["canonical"].refCount = @ - 1] /\ Goto(p, "verify")
    /\ UNCHANGED <<loaded, guard, locals, trail, result, left>>

\* set_value_u32 of State, then of RefCount.
ResetValue(p) ==
    /\ pc[p] \in {"resetState", "resetRefCount"}
    /\ Exists("canonical")
    /\ IF pc[p] = "resetState"
       THEN registry' = [registry EXCEPT !["canonical"].state = 0] /\ Goto(p, "resetRefCount")
       ELSE registry' = [registry EXCEPT !["canonical"].refCount = 0] /\ Goto(p, "verify")
    /\ UNCHANGED <<loaded, guard, locals, trail, result, left>>

Verified(s) ==
    /\ Exists("canonical") /\ registry["canonical"].path # Empty
    /\ s.fixBak => ~Exists("bak")
    /\ s.resetState => registry["canonical"].state = 0 /\ registry["canonical"].refCount = 0

Verify(p) ==
    /\ pc[p] = "verify"
    /\ Verified(plan[p])
    /\ Goto(p, "logSuccess")
    /\ UNCHANGED <<registry, loaded, guard, locals, trail, result, left>>

LogSuccess(p) ==
    /\ pc[p] = "logSuccess"
    /\ Record(p, "RepairSuccess")
    /\ Leave(p, "ok")
    /\ UNCHANGED <<registry, loaded, auditLost, left>>

-----------------------------------------------------------------------------
(* rollback: every step is attempted, whatever the earlier ones did.       *)

Failing(p, failed) == errors' = [errors EXCEPT ![p] = @ \/ failed]

UnrenameBak(p) ==
    /\ pc[p] = "unrenameBak"
    /\ IF mutation[p].bakMoved /\ Exists("canonical")
       THEN \/ /\ CanRename("canonical", "bak")
               /\ registry' = Renamed("canonical", "bak")
               /\ UNCHANGED <<errors, left>>
            \/ /\ ~CanRename("canonical", "bak")
               /\ Failing(p, TRUE)
               /\ UNCHANGED <<registry, left>>
            \/ /\ Spend("fault")
               /\ Failing(p, TRUE)
               /\ UNCHANGED registry
       ELSE UNCHANGED <<registry, errors, left>>
    /\ Goto(p, "unrenameCanonical")
    /\ UNCHANGED <<loaded, guard, plan, cause, captured, todo, mutation, auditLost, before,
                   trail, result>>

UnrenameCanonical(p) ==
    /\ pc[p] = "unrenameCanonical"
    /\ IF mutation[p].backup # None /\ Exists(mutation[p].backup)
       THEN \/ /\ CanRename(mutation[p].backup, "canonical")
               /\ registry' = Renamed(mutation[p].backup, "canonical")
               /\ UNCHANGED <<errors, left>>
            \/ /\ ~CanRename(mutation[p].backup, "canonical")
               /\ Failing(p, TRUE)
               /\ UNCHANGED <<registry, left>>
            \/ /\ Spend("fault")
               /\ Failing(p, TRUE)
               /\ UNCHANGED registry
       ELSE UNCHANGED <<registry, errors, left>>
    /\ Goto(p, "restore")
    /\ UNCHANGED <<loaded, guard, plan, cause, captured, todo, mutation, auditLost, before, trail,
                   result>>

\* create_key makes a key without values before RegRestoreKeyW fills it.
BlankKey == [path |-> Empty, state |-> 0, refCount |-> 0]

\* restore_registry_snapshot creates the key if it is missing and overwrites it.  It can fail
\* before, between or after the two: the privileges may not be dropped again
\* (finish_privileged_restore).
RestoreSnapshot(p) ==
    /\ pc[p] = "restore" /\ captured[p] # <<>>
    /\ \/ /\ registry' = [registry EXCEPT ![Head(captured[p]).name] = Head(captured[p]).key]
          /\ \/ UNCHANGED <<errors, left>>
             \/ Spend("fault") /\ Failing(p, TRUE)
       \/ /\ Spend("fault") /\ Failing(p, TRUE)
          /\ \/ UNCHANGED registry
             \/ /\ ~Exists(Head(captured[p]).name)
                /\ registry' = [registry EXCEPT ![Head(captured[p]).name] = BlankKey]
    /\ captured' = [captured EXCEPT ![p] = Tail(@)]
    /\ UNCHANGED <<loaded, guard, pc, plan, cause, todo, mutation, auditLost, before, trail,
                   result>>

\* A journal write that fails may still have appended its line (journal.rs, sync_data).
AuditFails(p, e) ==
    /\ Spend("fault")
    /\ auditLost' = [auditLost EXCEPT ![p] = TRUE]
    /\ Record(p, e) \/ UNCHANGED trail

SummaryEvent(p) == IF errors[p] THEN "RollbackIncomplete" ELSE "RollbackCompleted"

\* What follows rollback: a failed success log returns, an execution error is logged first.
AfterRollback(p, failed) ==
    IF cause[p] = "audit"
    THEN Leave(p, IF failed THEN "rollbackError" ELSE "error")
    ELSE /\ Goto(p, IF failed THEN "logRollbackFailed" ELSE "logFailed")
         /\ UNCHANGED <<guard, plan, captured, todo, mutation, cause, errors, before, result>>

\* attempt_all_then_audit: the summary follows the last attempt; losing it is an error too.
LogSummary(p) ==
    /\ pc[p] = "restore" /\ captured[p] = <<>>
    /\ \/ /\ Record(p, SummaryEvent(p))
          /\ AfterRollback(p, errors[p])
          /\ UNCHANGED <<auditLost, left>>
       \/ /\ AuditFails(p, SummaryEvent(p))
          /\ AfterRollback(p, TRUE)
    /\ UNCHANGED <<registry, loaded>>

\* RepairFailed or RepairRollbackFailed; the repair ends the same when the write fails.
LogFailure(p) ==
    /\ pc[p] \in {"logFailed", "logRollbackFailed"}
    /\ LET e == IF pc[p] = "logFailed" THEN "RepairFailed" ELSE "RepairRollbackFailed"
       IN  \/ Record(p, e) /\ UNCHANGED <<auditLost, left>>
           \/ AuditFails(p, e)
    /\ Leave(p, IF pc[p] = "logFailed" THEN "error" ELSE "rollbackError")
    /\ UNCHANGED <<registry, loaded>>

-----------------------------------------------------------------------------
(* Errors, crashes and Windows.                                            *)

\* Early returns: lock timeout, invalid plan, a key that vanished before its snapshot.
Refuse(p) ==
    /\ \/ pc[p] = "guard" /\ guard # None
       \/ pc[p] = "validate" /\ ~PlanValid(plan[p])
       \/ pc[p] = "snapshot" /\ todo[p] # <<>> /\ ~Exists(Head(todo[p]))
    /\ Leave(p, "error")
    /\ UNCHANGED <<registry, loaded, auditLost, trail, left>>

\* A call before the first mutation fails: execute_plan returns with ?.
EarlyFault(p) ==
    /\ pc[p] \in {"guard", "validate", "paths", "snapshot", "openParent"}
    /\ ~(pc[p] = "snapshot" /\ todo[p] = <<>>)
    /\ Spend("fault")
    /\ Leave(p, "error")
    /\ UNCHANGED <<registry, loaded, auditLost, trail>>

\* The dry-run or start event cannot be written.
EarlyAuditFault(p) ==
    /\ \/ pc[p] = "dryRun"
       \/ pc[p] = "snapshot" /\ todo[p] = <<>>
    /\ AuditFails(p, IF pc[p] = "dryRun" THEN "RepairDryRun" ELSE "RepairStarted")
    /\ Leave(p, "error")
    /\ UNCHANGED <<registry, loaded>>

\* A step of execute_steps cannot succeed.
Blocked(p) ==
    \/ pc[p] = "preserve" /\ Exists("canonical") /\ \A b \in Backup : Exists(b)
    \/ pc[p] = "renameBak" /\ ~CanRename("bak", "canonical")
    \/ pc[p] \in {"resetState", "resetRefCount"} /\ ~Exists("canonical")
    \/ pc[p] = "verify" /\ ~Verified(plan[p])

\* execute_steps returns an error: roll back.
StepFails(p) ==
    /\ \/ Blocked(p) /\ UNCHANGED left
       \/ /\ pc[p] \in {"preserve", "renameBak", "resetState", "resetRefCount", "verify"}
          /\ Spend("fault")
    /\ Goto(p, "unrenameBak")
    /\ cause' = [cause EXCEPT ![p] = "execution"]
    /\ UNCHANGED <<registry, loaded, guard, plan, captured, todo, mutation, errors, auditLost,
                   before, trail, result>>

\* Mutant: a success event that cannot be written leaves the repair in place.
SuccessAuditFails_Kept(p) ==
    /\ pc[p] = "logSuccess"
    /\ AuditFails(p, "RepairSuccess")
    /\ Leave(p, "error")
    /\ UNCHANGED <<registry, loaded>>

\* The success event cannot be written: roll back.
SuccessAuditFails(p) ==
    /\ pc[p] = "logSuccess"
    /\ AuditFails(p, "RepairSuccess")
    /\ Goto(p, "unrenameBak")
    /\ cause' = [cause EXCEPT ![p] = "audit"]
    /\ UNCHANGED <<registry, loaded, guard, plan, captured, todo, mutation, errors, before, result>>

\* The process ends between two calls; Windows closes its lock handle.
Crash(p) ==
    /\ pc[p] # "idle"
    /\ Spend("crash")
    /\ Leave(p, "crashed")
    /\ UNCHANGED <<registry, loaded, auditLost, trail>>

\* The user logs on: Windows uses the canonical key, or registers a new profile.
Logon ==
    /\ ~loaded
    /\ Spend("logon")
    /\ loaded' = TRUE
    /\ IF Exists("canonical")
       THEN registry' = [registry EXCEPT !["canonical"].refCount = 1]
       ELSE \E f \in Path :
               registry' = [registry EXCEPT !["canonical"] =
                               [path |-> f, state |-> 1, refCount |-> 1]]
    /\ UNCHANGED <<guard, pc, locals, trail, result>>

Logoff ==
    /\ loaded
    /\ loaded' = FALSE
    /\ UNCHANGED <<registry, guard, pc, locals, trail, result, left>>

-----------------------------------------------------------------------------

Next ==
    \/ \E p \in Proc :
          \/ Begin(p) \/ AcquireGuard(p) \/ InspectLocks(p) \/ InspectionRefuses(p)
          \/ ValidatePlan(p) \/ LogDryRun(p)
          \/ ChooseSnapshots(p) \/ TakeSnapshot(p) \/ LogStarted(p) \/ OpenParent(p)
          \/ PreserveCanonical(p) \/ RenameBak(p) \/ ResetValue(p) \/ Verify(p)
          \/ LogSuccess(p)
          \/ UnrenameBak(p) \/ UnrenameCanonical(p) \/ RestoreSnapshot(p) \/ LogSummary(p)
          \/ LogFailure(p)
          \/ Refuse(p) \/ EarlyFault(p) \/ EarlyAuditFault(p) \/ StepFails(p)
          \/ SuccessAuditFails(p) \/ Crash(p)
    \/ Logon \/ Logoff

Spec == Init /\ [][Next]_vars

-----------------------------------------------------------------------------
(* Properties.                                                             *)

\* The step by which p's repair returns r.
Returns(p, r) == pc[p] # "idle" /\ pc'[p] = "idle" /\ result'[p] = r

\* No logon has changed the registry besides the repairs.
Undisturbed == left.logon = MaxLogons

\* "A failed repair restores the captured registry state": a repair that returns an ordinary
\* error, wherever it failed, leaves every key of the profile as it found it.  (A rollback
\* that itself failed is reported as such.)
FailedRepairRestores ==
    [][\A p \in Proc :
          Returns(p, "error") /\ guard = p /\ Undisturbed => registry' = before[p]]_vars

\* A repair that returns success has made the .bak profile canonical, reset what it was asked
\* to reset, kept the rest, and preserved the key it displaced.
Repaired(s, old, new) ==
    LET src == old[IF s.fixBak THEN "bak" ELSE "canonical"]
    IN  /\ new["canonical"] = IF s.resetState THEN [src EXCEPT !.state = 0, !.refCount = 0]
                                              ELSE src
        /\ s.fixBak => new["bak"] = NoKey
        /\ s.fixBak /\ old["canonical"] # NoKey => \E b \in Backup : new[b] = old["canonical"]

SuccessRepairs ==
    [][\A p \in Proc :
          Returns(p, "ok") /\ guard = p /\ Undisturbed
             => Repaired(plan[p], before[p], registry')]_vars

\* The journal does not call a repair that was undone a success: when RepairSuccess is the
\* last event of a repair that returned, the repair stands or its rollback is reported broken.
SuccessIsTruthful ==
    \A p \in Proc : /\ pc[p] = "idle" /\ trail[p] # <<>>
                    /\ trail[p][Len(trail[p])] = "RepairSuccess"
                    => result[p] # "error"

\* No registration is lost silently, whatever fails, crashes or logs on between two calls: when
\* a repair returns or is cut off, each path it found registered is still registered under
\* some name, unless a step of its rollback failed (which it then reports).
Registered(f, r) == \E n \in Name : r[n] # NoKey /\ r[n].path = f

RegistrationsSurvive ==
    [][\A p \in Proc :
          /\ pc[p] # "idle" /\ pc'[p] = "idle" /\ guard = p
          /\ result'[p] \in {"ok", "error"} \/ (result'[p] = "crashed" /\ ~errors[p])
          => \A n \in Name :
                before[p][n] # NoKey => Registered(before[p][n].path, registry')]_vars

=============================================================================
