-------------------------- MODULE OperationControl --------------------------
(***************************************************************************)
(* AppController (crates/app-ui/src/controller.rs) behind the main window: *)
(* one UI thread, one worker thread per operation, and the event loop's    *)
(* queue of callbacks that workers post to the UI thread.                  *)
(*                                                                         *)
(* Operations are numbered as they begin.  The UI thread runs one handler  *)
(* at a time; a handler is one action unless it reads something that a     *)
(* live worker changes.  Hiding the window ends the event loop and with it *)
(* the process.  A draft is the migration the form describes: the selected *)
(* profile and, in one value, the target and the scope.                    *)
(***************************************************************************)
EXTENDS Naturals, Sequences, FiniteSets

CONSTANTS
    Profile,      \* listed profiles
    Target,       \* values of target path and scope
    None,         \* nothing selected, empty slot, no value
    MaxOps,       \* bound: operations begun
    MaxProgress   \* bound: progress reports of one migration

Op == 1 .. MaxOps

\* enum OperationKind (Unknown is no operation anyone begins); a dry run is a Repair too.
Kind == {"Scan", "Repair", "Migration", "TrustedInstaller", "Export"}

Draft == [profile : Profile \cup {None}, target : Target \cup {None}]
EmptyDraft == [profile |-> None, target |-> None]

\* None is no value of any kind.
ASSUME ControlConstants ==
    /\ None \notin Profile \cup Target \cup Nat \cup Kind \cup Draft
    /\ MaxOps \in Nat \ {0} /\ MaxProgress \in Nat

\* The confirmation overlay: what it is for and the profile its message names.
Confirmation == [kind : {"Repair", "TrustedInstaller"}, profile : Profile \cup {None}]

\* Callbacks posted with upgrade_in_event_loop.
Callback == [type : {"progress"}, op : Op]
       \cup [type : {"result"}, op : Op, reset : BOOLEAN, close : BOOLEAN]

VARIABLES
    active,      \* OperationState::active: the kind, or None for Idle
    closeFlag,   \* OperationState::close_after_finish
    slot,        \* migration_cancellation: the operation whose token is published, or None
    cancelled,   \* the operations whose cancellation token is set
    token,       \* migration_preflight: the validated draft, or None
    ops,         \* number of operations begun
    kind,        \* kind[n]: the kind of operation n
    worker,      \* worker[n]: where the thread of operation n is
    swapped,     \* swapped[n]: what finish returned to it
    scheduled,   \* MigrationProgressQueue::scheduled of operation n
    pending,     \* MigrationProgressQueue::pending of operation n is Some
    reports,     \* progress reports operation n has made
    loop,        \* the event loop's queue
    busy,        \* operation-busy
    running,     \* migration-running
    valid,       \* migration-preflight-valid
    draft,       \* the migration form and the selected row
    modal,       \* the confirmation overlay, or None
    closing,     \* the UI thread is inside handle_close_requested, past the load of active
    owed,        \* history: a close was acknowledged and the window is not hidden yet
    hidden       \* the window is hidden: the process ends

state == <<active, closeFlag, slot, cancelled, token>>
threads == <<ops, kind, worker, swapped, scheduled, pending, reports>>
window == <<busy, running, valid, draft, modal, closing, owed, hidden>>
vars == <<state, threads, loop, window>>

TypeOK ==
    /\ active \in Kind \cup {None}
    /\ closeFlag \in BOOLEAN
    /\ slot \in Op \cup {None}
    /\ cancelled \subseteq Op
    /\ token \in Draft \cup {None}
    /\ ops \in 0 .. MaxOps
    /\ kind \in [Op -> Kind \cup {None}]
    /\ worker \in [Op -> {"new", "run", "clear", "idle", "swap", "post", "gone"}]
    /\ swapped \in [Op -> BOOLEAN]
    /\ scheduled \in [Op -> BOOLEAN]
    /\ pending \in [Op -> BOOLEAN]
    /\ reports \in [Op -> 0 .. MaxProgress]
    /\ loop \in Seq(Callback)
    /\ busy \in BOOLEAN /\ running \in BOOLEAN /\ valid \in BOOLEAN
    /\ draft \in Draft
    /\ modal \in Confirmation \cup {None}
    /\ closing \in BOOLEAN /\ owed \in BOOLEAN /\ hidden \in BOOLEAN

\* present_startup_decision has just started the first scan.
Init ==
    /\ active = "Scan"
    /\ closeFlag = FALSE
    /\ slot = None
    /\ cancelled = {}
    /\ token = None
    /\ ops = 1
    /\ kind = [n \in Op |-> IF n = 1 THEN "Scan" ELSE None]
    /\ worker = [n \in Op |-> IF n = 1 THEN "run" ELSE "new"]
    /\ swapped = [n \in Op |-> FALSE]
    /\ scheduled = [n \in Op |-> FALSE]
    /\ pending = [n \in Op |-> FALSE]
    /\ reports = [n \in Op |-> 0]
    /\ loop = <<>>
    /\ busy = TRUE
    /\ running = FALSE
    /\ valid = FALSE
    /\ draft = EmptyDraft
    /\ modal = None
    /\ closing = FALSE
    /\ owed = FALSE
    /\ hidden = FALSE

-----------------------------------------------------------------------------
(* The window.                                                             *)

\* The UI thread is free to run a handler.
Free == ~closing /\ ~hidden

\* Mutant: the form stays enabled behind the confirmation overlay.
Enabled_BehindModal == Free /\ ~busy

\* Controls of the form and the buttons that begin operations.
Enabled == Free /\ ~busy /\ modal = None

\* reset_migration_draft, or the reset_selection part of cache_and_apply_report.
ResetDraft(profile) ==
    /\ draft' = [profile |-> profile, target |-> None]
    /\ token' = None
    /\ valid' = FALSE

\* Mutant: a different profile keeps the validated form.
SelectProfile_KeepsToken(s) ==
    /\ Enabled
    /\ draft' = [draft EXCEPT !.profile = s]
    /\ UNCHANGED <<active, closeFlag, slot, cancelled, token, threads, loop, busy, running, valid,
                   modal, closing, owed, hidden>>

SelectProfile(s) ==
    /\ Enabled
    /\ IF s # draft.profile THEN ResetDraft(s) ELSE UNCHANGED <<draft, token, valid>>
    /\ UNCHANGED <<active, closeFlag, slot, cancelled, threads, loop, busy, running, modal,
                   closing, owed, hidden>>

\* An edit of target or scope, or apply_migration_parent: invalidate_migration_preflight.
EditDraft(t) ==
    /\ Enabled
    /\ draft.profile # None
    /\ draft' = [draft EXCEPT !.target = t]
    /\ token' = None
    /\ valid' = FALSE
    /\ UNCHANGED <<active, closeFlag, slot, cancelled, threads, loop, busy, running, modal,
                   closing, owed, hidden>>

\* prevalidate_migration: accepted or refused by the core validation.
Validate ==
    /\ Enabled
    /\ draft.profile # None /\ draft.target # None
    /\ \/ token' = draft /\ valid' = TRUE
       \/ token' = None /\ valid' = FALSE
    /\ UNCHANGED <<active, closeFlag, slot, cancelled, threads, loop, busy, running, draft, modal,
                   closing, owed, hidden>>

-----------------------------------------------------------------------------
(* Beginning an operation.                                                 *)

\* begin_operation (try_begin succeeds) and the spawn of the worker.
BeginOperation(k) ==
    /\ active = None
    /\ ops < MaxOps
    /\ active' = k
    /\ busy' = TRUE
    /\ ops' = ops + 1
    /\ kind' = [kind EXCEPT ![ops + 1] = k]
    /\ worker' = [worker EXCEPT ![ops + 1] = "run"]
    /\ UNCHANGED <<swapped, scheduled, pending, reports>>

\* scan_profiles, export_audit and a dry run begin at once.
BeginDirectly(k) ==
    /\ Enabled
    /\ k \in {"Scan", "Export"} \/ (k = "Repair" /\ draft.profile # None)
    /\ BeginOperation(k)
    /\ UNCHANGED <<closeFlag, slot, cancelled, token, loop, running, valid, draft, modal,
                   closing, owed, hidden>>

\* request_repair_confirmation, request_ti_confirmation
RequestConfirmation(k) ==
    /\ Enabled
    /\ k = "Repair" => draft.profile # None
    /\ modal' = [kind |-> k, profile |-> draft.profile]
    /\ UNCHANGED <<state, threads, loop, busy, running, valid, draft, closing, owed, hidden>>

\* Confirm: the overlay closes and execute_repair or launch_ti_console begins the operation.
Confirm ==
    /\ Free
    /\ modal # None
    /\ modal' = None
    /\ BeginOperation(modal.kind)
    /\ UNCHANGED <<closeFlag, slot, cancelled, token, loop, running, valid, draft, closing, owed,
                   hidden>>

\* Cancel, or Confirm without elevation.
Dismiss ==
    /\ Free
    /\ modal # None
    /\ modal' = None
    /\ UNCHANGED <<state, threads, loop, busy, running, valid, draft, closing, owed, hidden>>

\* Mutant: a deferred close is not looked at when a migration publishes its token.
PublishToken_Unchecked(n) == slot' = n /\ UNCHANGED cancelled

\* cancel_if_close_deferred, then the slot is filled, under the slot's mutex.
PublishToken(n) ==
    /\ cancelled' = IF closeFlag THEN cancelled \cup {n} ELSE cancelled
    /\ slot' = n

\* start_migration.  The button needs a validated plan with its paths and scope and a source
\* that is not loaded, so the returns before take() for a loaded source and an incomplete form,
\* which keep the token, are not reached.  take() consumes the token whatever follows.
StartMigration ==
    /\ Enabled /\ valid
    /\ token' = None
    /\ valid' = FALSE
    /\ token = draft
    /\ BeginOperation("Migration")
    /\ PublishToken(ops + 1)
    /\ running' = TRUE
    /\ UNCHANGED <<closeFlag, loop, draft, modal, closing, owed, hidden>>

\* ... the token does not match the form, or the process is not elevated.
MigrationRefused ==
    /\ Enabled /\ valid
    /\ token' = None
    /\ valid' = FALSE
    /\ UNCHANGED <<active, closeFlag, slot, cancelled, threads, loop, busy, running, draft, modal,
                   closing, owed, hidden>>

\* cancel_migration
CancelMigration ==
    /\ Free /\ running /\ modal = None
    /\ slot # None
    /\ cancelled' = cancelled \cup {slot}
    /\ UNCHANGED <<active, closeFlag, slot, token, threads, loop, window>>

-----------------------------------------------------------------------------
(* handle_close_requested: active is loaded once.  When it was a migration *)
(* the worker can finish before the slot's mutex is taken.                 *)

\* Mutant: only a migration defers the close.
ClosePolicy_AllowsRepair(k) ==
    CASE k = "Migration" -> "CancelMigration"
      [] k \in {None, "Repair"} -> "Allow"
      [] OTHER -> "Block"

\* close_policy
ClosePolicy(k) ==
    CASE k = "Migration" -> "CancelMigration"
      [] k = None -> "Allow"
      [] OTHER -> "Block"

\* A blocked close only publishes a status.
CloseRequested ==
    /\ Free
    /\ ClosePolicy(active) # "Block"
    /\ hidden' = (ClosePolicy(active) = "Allow")
    /\ owed' = (owed /\ ~hidden')
    /\ closing' = (ClosePolicy(active) = "CancelMigration")
    /\ UNCHANGED <<state, threads, loop, busy, running, valid, draft, modal>>

\* request_close_after_finish and the token in the slot, if there still is one.
DeferClose ==
    /\ closing
    /\ closing' = FALSE
    /\ closeFlag' = TRUE
    /\ cancelled' = IF slot = None THEN cancelled ELSE cancelled \cup {slot}
    /\ owed' = TRUE
    /\ UNCHANGED <<active, slot, token, threads, loop, busy, running, valid, draft, modal, hidden>>

-----------------------------------------------------------------------------
(* Workers.                                                                *)

At(n, l) == n <= ops /\ worker[n] = l /\ ~hidden
Goto(n, l) == worker' = [worker EXCEPT ![n] = l]

\* queue_migration_progress: the newest report replaces a pending one.
ReportProgress(n) ==
    /\ At(n, "run") /\ kind[n] = "Migration"
    /\ reports[n] < MaxProgress
    /\ reports' = [reports EXCEPT ![n] = @ + 1]
    /\ pending' = [pending EXCEPT ![n] = TRUE]
    /\ scheduled' = [scheduled EXCEPT ![n] = TRUE]
    /\ loop' = IF scheduled[n] THEN loop ELSE Append(loop, [type |-> "progress", op |-> n])
    /\ UNCHANGED <<state, ops, kind, worker, swapped, window>>

\* The operation ends, in whatever way.
Finished(n) ==
    /\ At(n, "run")
    /\ Goto(n, IF kind[n] = "Migration" THEN "clear" ELSE "idle")
    /\ UNCHANGED <<state, ops, kind, swapped, scheduled, pending, reports, loop, window>>

\* A migration worker empties the slot.
ClearSlot(n) ==
    /\ At(n, "clear")
    /\ slot' = None
    /\ Goto(n, "idle")
    /\ UNCHANGED <<active, closeFlag, cancelled, token, ops, kind, swapped, scheduled, pending,
                   reports, loop, window>>

\* OperationState::finish, first half.
StoreIdle(n) ==
    /\ At(n, "idle")
    /\ active' = None
    /\ Goto(n, "swap")
    /\ UNCHANGED <<closeFlag, slot, cancelled, token, ops, kind, swapped, scheduled, pending,
                   reports, loop, window>>

\* ... second half; only a migration worker uses what it returns.
SwapFlag(n) ==
    /\ At(n, "swap")
    /\ swapped' = [swapped EXCEPT ![n] = closeFlag /\ kind[n] = "Migration"]
    /\ closeFlag' = FALSE
    /\ Goto(n, "post")
    /\ UNCHANGED <<active, slot, cancelled, token, ops, kind, scheduled, pending, reports, loop,
                   window>>

\* Mutant: a cancelled migration returns without posting its result.
PostResult_NotWhenCancelled(n) ==
    /\ At(n, "post")
    /\ \E reset \in BOOLEAN :
          loop' = IF n \in cancelled THEN loop
                  ELSE Append(loop, [type |-> "result", op |-> n,
                                     reset |-> reset, close |-> swapped[n]])
    /\ Goto(n, "gone")
    /\ UNCHANGED <<state, ops, kind, swapped, scheduled, pending, reports, window>>

\* A scan that succeeded, or the rescan after a repair, will reset the selection.
PostResult(n) ==
    /\ At(n, "post")
    /\ \E reset \in IF kind[n] \in {"Scan", "Repair"} THEN BOOLEAN ELSE {FALSE} :
          loop' = Append(loop, [type |-> "result", op |-> n,
                                reset |-> reset, close |-> swapped[n]])
    /\ Goto(n, "gone")
    /\ UNCHANGED <<state, ops, kind, swapped, scheduled, pending, reports, window>>

-----------------------------------------------------------------------------
(* Callbacks on the UI thread.                                             *)

ApplyProgress ==
    /\ Free
    /\ loop # <<>> /\ Head(loop).type = "progress"
    /\ scheduled' = [scheduled EXCEPT ![Head(loop).op] = FALSE]
    /\ pending' = [pending EXCEPT ![Head(loop).op] = FALSE]
    /\ loop' = Tail(loop)
    /\ UNCHANGED <<state, ops, kind, worker, swapped, reports, window>>

\* The result: the controls are released, a new report resets the selection, a deferred
\* close hides the window.
ApplyResult ==
    /\ Free
    /\ loop # <<>> /\ Head(loop).type = "result"
    /\ LET c == Head(loop)
       IN  /\ busy' = FALSE
           /\ running' = (running /\ kind[c.op] # "Migration")
           /\ IF c.reset THEN ResetDraft(None) ELSE UNCHANGED <<draft, token, valid>>
           /\ hidden' = c.close
           /\ owed' = (owed /\ ~c.close)
    /\ loop' = Tail(loop)
    /\ UNCHANGED <<active, closeFlag, slot, cancelled, threads, modal, closing>>

-----------------------------------------------------------------------------

Operator ==
    \/ \E s \in Profile : SelectProfile(s)
    \/ \E t \in Target \cup {None} : EditDraft(t)
    \/ \E k \in {"Scan", "Export", "Repair"} : BeginDirectly(k)
    \/ \E k \in {"Repair", "TrustedInstaller"} : RequestConfirmation(k)
    \/ Validate \/ Confirm \/ Dismiss \/ StartMigration \/ MigrationRefused \/ CancelMigration
    \/ CloseRequested

\* What the event loop does without the operator.
EventLoop == DeferClose \/ ApplyProgress \/ ApplyResult

Run(n) == Finished(n) \/ ClearSlot(n) \/ StoreIdle(n) \/ SwapFlag(n) \/ PostResult(n)

Next == Operator \/ EventLoop \/ \E n \in Op : ReportProgress(n) \/ Run(n)

Spec == Init /\ [][Next]_vars

\* The event loop and the worker threads are scheduled, and every operation ends.
FairSpec == Spec /\ WF_vars(EventLoop) /\ \A n \in Op : WF_vars(Run(n))

-----------------------------------------------------------------------------
(* Properties.                                                             *)

\* Hiding the window ends the process: no worker is cut off inside its operation.
NoExitDuringOperation == hidden => \A n \in Op : worker[n] \notin {"run", "clear"}

\* The controls are released only when the operation is over: while one is registered the
\* window shows busy, and while it shows busy exactly one result is still to come.
BusyCoversOperation ==
    /\ active # None => busy
    /\ busy => Cardinality({n \in Op : worker[n] \notin {"new", "gone"}})
               + Cardinality({i \in 1 .. Len(loop) : loop[i].type = "result"}) = 1

\* A migration never copies on while a close waits for it: in whatever order the request, the
\* start and the end of a migration happen, its token is set.
DeferredCloseCancels ==
    \A n \in Op : closeFlag /\ kind[n] = "Migration" /\ worker[n] = "run" => n \in cancelled

\* The form offers a migration exactly when the token in the slot is for what it shows:
\* neither a selection, an edit, a rescan nor a finished operation leaves a stale one.
PreflightIsCurrent == /\ valid <=> token # None
                      /\ valid => token = draft

\* What the overlay asks about is what a confirmation will act on.
ConfirmationIsCurrent == modal # None => modal.profile = draft.profile /\ active = None

\* Every operation releases the controls, cancelled or not.
OperationEnds == busy ~> (~busy \/ hidden)

\* A close that was acknowledged as waiting for the migration hides the window.
CloseHonoured == owed ~> hidden
=============================================================================
