--------------------------- MODULE LegacyRecovery ---------------------------
(***************************************************************************)
(* Start-up recovery of a permissive %ProgramData%\WinProfile root         *)
(* (crates/audit-journal/src/legacy.rs, storage.rs; driven by              *)
(* crates/app-ui/src/startup.rs and main.rs).                              *)
(*                                                                         *)
(* Several WinProfile processes share the ProgramData namespace, the       *)
(* bootstrap directory with its phase markers, and one share-zero lock.    *)
(* Any of them may crash between two system calls; a handle and the lock   *)
(* die with their process, names and published markers survive.            *)
(*                                                                         *)
(* A directory object is its FILE_ID_INFO identity.  Whether it satisfies  *)
(* validate_production_root is fixed when it is created: Protected objects *)
(* do, Permissive ones do not.                                             *)
(***************************************************************************)
EXTENDS Naturals

CONSTANTS
    Proc,          \* WinProfile processes
    Id,            \* random migration identifiers (random_id)
    Protected,     \* objects created with ROOT_SDDL
    Permissive,    \* objects of older releases or of other software
    None,          \* no object, no process, no record
    MaxFaults,     \* bound: system calls that fail although they could succeed
    MaxCrashes,    \* bound: process crashes
    MaxSubstitutions  \* bound: changes of the WinProfile name by other software

ASSUME LegacyConstants ==
    /\ Protected \cap Permissive = {}
    /\ None \notin Proc \cup Protected \cup Permissive
    /\ MaxFaults \in Nat /\ MaxCrashes \in Nat /\ MaxSubstitutions \in Nat

Object == Protected \cup Permissive

\* enum MigrationPhase; next() is the successor.
Prepared == 0
Detached == 1
RootReady == 2
AuditPending == 3
Done == 4
Phase == Prepared .. Done

\* struct MigrationStateRecord; legacy_name and next_name are functions of id.
Marker == [id : Id, phase : Phase, source : Object, next : Object]

\* struct LegacyStorageRecovery
Recovery == [identity : Object, resume : BOOLEAN]

VARIABLES
    active,    \* the object named WinProfile, or None
    next,      \* next[i]: the object named WinProfile.Next.i, or None
    legacy,    \* legacy[i]: the object named WinProfile.Legacy.Untrusted.i, or None
    bootstrap, \* does WinProfile.Bootstrap exist
    creator,   \* the process whose bootstrap handle was created with DELETE access, or None
    markers,   \* the published marker files of the bootstrap directory
    lock,      \* the process holding the share-zero bootstrap lock, or None
    events,    \* terminal audit events: <<journal's root object, migration id>>
    born,      \* objects that exist or existed
    used,      \* migration identifiers drawn so far
    pc,        \* where each process's start-up worker is
    recovery,  \* the recovery offered to the operator by each process
    state,     \* the MigrationStateRecord each worker is advancing
    held,      \* objects each process holds a list-directory or stronger handle on
    deleters,  \* ... those of them opened with DELETE access
    consented, \* history: identities an operator ticked the consent control for
    left       \* remaining environment budget

namespace == <<active, next, legacy, born, used>>
durable   == <<bootstrap, markers, events>>
locals    == <<pc, recovery, state>>
handles   == <<creator, lock, held, deleters>>
vars == <<namespace, durable, locals, handles, consented, left>>

Working == {"inspect", "classify", "identify", "create", "bootstrap", "lock", "load",
            "start", "createNext", "writePrepared", "detach", "writeDetached", "activate",
            "resume", "writeRootReady", "openRoot", "writeAuditPending", "audit", "writeDone"}
Waiting == {"offer", "error", "ready"}
PC == Working \cup Waiting \cup {"off"}

TypeOK ==
    /\ active \in Object \cup {None}
    /\ next \in [Id -> Object \cup {None}]
    /\ legacy \in [Id -> Object \cup {None}]
    /\ bootstrap \in BOOLEAN
    /\ creator \in Proc \cup {None}
    /\ markers \subseteq Marker
    /\ lock \in Proc \cup {None}
    /\ events \subseteq Object \X Id
    /\ born \subseteq Object
    /\ used \subseteq Id
    /\ pc \in [Proc -> PC]
    /\ recovery \in [Proc -> Recovery \cup {None}]
    /\ state \in [Proc -> Marker \cup {None}]
    /\ held \in [Proc -> SUBSET Object]
    /\ deleters \in [Proc -> SUBSET Object]
    /\ consented \subseteq Object
    /\ left \in [fault : 0..MaxFaults, crash : 0..MaxCrashes,
                 substitute : 0..MaxSubstitutions]

Init ==
    /\ active \in Permissive \cup {None}
    /\ next = [i \in Id |-> None]
    /\ legacy = [i \in Id |-> None]
    /\ bootstrap = FALSE
    /\ creator = None
    /\ markers = {}
    /\ lock = None
    /\ events = {}
    /\ born = {active} \ {None}
    /\ used = {}
    /\ pc = [p \in Proc |-> "off"]
    /\ recovery = [p \in Proc |-> None]
    /\ state = [p \in Proc |-> None]
    /\ held = [p \in Proc |-> {}]
    /\ deleters = [p \in Proc |-> {}]
    /\ consented = {}
    /\ left = [fault |-> MaxFaults, crash |-> MaxCrashes, substitute |-> MaxSubstitutions]

-----------------------------------------------------------------------------
(* Opening objects.  Every product handle shares READ and WRITE but never  *)
(* DELETE, so a plain open collides with any handle that has DELETE access *)
(* and an open with DELETE access collides with every handle.              *)

\* open_child: DIRECTORY_ACCESS, shared READ|WRITE.
OpenableShared(o) == \A q \in Proc : o \notin deleters[q]

\* Mutant: the retained root handle shares DELETE.
OpenableForDelete_RootShared(o) == \A q \in Proc : o \notin deleters[q]

\* open_object_for_detach, open_existing_child_for_rename: DELETE access.
OpenableForDelete(o) == \A q \in Proc : o \notin held[q]

\* StorageRoot::open_existing_under succeeds: opened and validate_production_root holds.
RootOpens == active \in Protected /\ OpenableShared(active)

\* verify_ready_root
ReadyRootVerified(s) == /\ RootOpens
                        /\ active = s.next
                        /\ legacy[s.id] = s.source

(* Reading the markers: load_pending_from_bootstrap.                       *)

MarkersOf(i) == {m \in markers : m.id = i}

\* Per migration: starts at Prepared, consecutive phases, equal identities.
SequenceValid(i) ==
    \/ MarkersOf(i) = {}
    \/ \E last \in MarkersOf(i) :
          /\ {m.phase : m \in MarkersOf(i)} = Prepared .. last.phase
          /\ \A m \in MarkersOf(i) : m.source = last.source /\ m.next = last.next

\* The latest marker of every migration that has no Done marker.
PendingSet ==
    {m \in markers : /\ m.phase # Done
                     /\ \A n \in MarkersOf(m.id) : n.phase <= m.phase}

\* bootstrap.entries() reopens the directory without sharing DELETE.
Loads == /\ creator = None
         /\ \A i \in Id : SequenceValid(i)
         /\ \A m, n \in PendingSet : m = n

-----------------------------------------------------------------------------
(* Ends of a worker.                                                       *)

Goto(p, l) == pc' = [pc EXCEPT ![p] = l]

\* Drop of every handle the process owns, the lock included.
Release(p) == /\ held' = [held EXCEPT ![p] = {}]
              /\ deleters' = [deleters EXCEPT ![p] = {}]
              /\ lock' = IF lock = p THEN None ELSE lock
              /\ creator' = IF creator = p THEN None ELSE creator
              /\ recovery' = [recovery EXCEPT ![p] = None]
              /\ state' = [state EXCEPT ![p] = None]

\* present_startup_error: the worker's locals are dropped, the recovery slot is cleared.
Abort(p) == Goto(p, "error") /\ Release(p)

-----------------------------------------------------------------------------
(* inspect_under_with_identity: no lock is taken.                          *)

Launch(p) == /\ pc[p] = "off"
             /\ Goto(p, "inspect")
             /\ UNCHANGED <<namespace, durable, recovery, state, handles, consented, left>>

\* load_pending_state
InspectMarkers(p) ==
    /\ pc[p] = "inspect"
    /\ \/ /\ bootstrap => Loads /\ PendingSet = {}
          /\ Goto(p, "classify")
          /\ UNCHANGED recovery
       \/ /\ bootstrap /\ Loads
          /\ \E m \in PendingSet :
                recovery' = [recovery EXCEPT ![p] = [identity |-> m.source, resume |-> TRUE]]
          /\ Goto(p, "offer")
    /\ UNCHANGED <<namespace, durable, state, handles, consented, left>>

\* open_existing_under: accepted, not found, or any other error.
Classify(p) ==
    /\ pc[p] = "classify"
    /\ \/ /\ RootOpens
          /\ held' = [held EXCEPT ![p] = @ \cup {active}]
          /\ Goto(p, "ready")
       \/ /\ active = None
          /\ Goto(p, "create")
          /\ UNCHANGED held
       \/ /\ active # None /\ ~RootOpens
          /\ Goto(p, "identify")
          /\ UNCHANGED held
    /\ UNCHANGED <<namespace, durable, recovery, state, creator, lock, deleters, consented, left>>

\* open_or_create_under: the created handle keeps DELETE access while it is retained.
CreateRoot(p) ==
    /\ pc[p] = "create"
    /\ \/ /\ active = None
          /\ \E o \in Protected \ born :
                /\ active' = o
                /\ born' = born \cup {o}
                /\ held' = [held EXCEPT ![p] = @ \cup {o}]
                /\ deleters' = [deleters EXCEPT ![p] = @ \cup {o}]
       \/ /\ RootOpens
          /\ held' = [held EXCEPT ![p] = @ \cup {active}]
          /\ UNCHANGED <<active, born, deleters>>
    /\ Goto(p, "ready")
    /\ UNCHANGED <<next, legacy, used, durable, recovery, state, creator, lock, consented, left>>

\* Mutant: a failed identity capture still offers consent.
CaptureIdentity_Unchecked(p) ==
    /\ pc[p] = "identify"
    /\ recovery' = [recovery EXCEPT ![p] = [identity |-> active, resume |-> FALSE]]
    /\ Goto(p, "offer")
    /\ UNCHANGED <<namespace, durable, state, handles, consented, left>>

\* capture_identity (open_object_identity asks for attributes only, so it never collides).
CaptureIdentity(p) ==
    /\ pc[p] = "identify"
    /\ active # None
    /\ recovery' = [recovery EXCEPT ![p] = [identity |-> active, resume |-> FALSE]]
    /\ Goto(p, "offer")
    /\ UNCHANGED <<namespace, durable, state, handles, consented, left>>

-----------------------------------------------------------------------------
(* The operator: startup-proceed, startup-quit and closing the window.     *)

\* start_or_retry with a recovery in the slot; fresh detachments need the ticked control.
Proceed(p) ==
    /\ pc[p] = "offer"
    /\ consented' = IF recovery[p].resume THEN consented
                                          ELSE consented \cup {recovery[p].identity}
    /\ Goto(p, "bootstrap")
    /\ UNCHANGED <<namespace, durable, recovery, state, handles, left>>

\* start_or_retry with an empty slot inspects again.
Retry(p) == /\ pc[p] = "error"
            /\ Goto(p, "inspect")
            /\ UNCHANGED <<namespace, durable, recovery, state, handles, consented, left>>

\* Quit and close are refused while startup_busy; otherwise the process ends.
Quit(p) == /\ pc[p] \in Waiting
           /\ Goto(p, "off")
           /\ Release(p)
           /\ UNCHANGED <<namespace, durable, consented, left>>

-----------------------------------------------------------------------------
(* execute_recovery                                                        *)

\* open_or_create_bootstrap
OpenBootstrap(p) ==
    /\ pc[p] = "bootstrap"
    /\ creator = None
    /\ bootstrap' = TRUE
    /\ creator' = IF bootstrap THEN None ELSE p
    /\ Goto(p, "lock")
    /\ UNCHANGED <<namespace, markers, events, recovery, state, lock, held, deleters,
                   consented, left>>

\* Mutant: the lock file is opened shared.
AcquireLock_Shared(p) ==
    /\ pc[p] = "lock"
    /\ lock' = p
    /\ Goto(p, "load")
    /\ UNCHANGED <<namespace, durable, recovery, state, creator, held, deleters,
                   consented, left>>

\* acquire_protected_named_lock
AcquireLock(p) ==
    /\ pc[p] = "lock"
    /\ lock = None
    /\ lock' = p
    /\ Goto(p, "load")
    /\ UNCHANGED <<namespace, durable, recovery, state, creator, held, deleters,
                   consented, left>>

LoadPending(p) ==
    /\ pc[p] = "load"
    /\ Loads
    /\ \/ /\ PendingSet = {}
          /\ Goto(p, "start")
          /\ UNCHANGED state
       \/ /\ \E m \in PendingSet : state' = [state EXCEPT ![p] = m]
          /\ Goto(p, "resume")
    /\ UNCHANGED <<namespace, durable, recovery, handles, consented, left>>

\* Mutant: the detected identity is not compared.
OpenSource_AnyIdentity(p) ==
    /\ pc[p] = "start"
    /\ active # None
    /\ OpenableForDelete(active)
    /\ recovery' = [recovery EXCEPT ![p].identity = active]
    /\ held' = [held EXCEPT ![p] = @ \cup {active}]
    /\ deleters' = [deleters EXCEPT ![p] = @ \cup {active}]
    /\ Goto(p, "createNext")
    /\ UNCHANGED <<namespace, durable, state, creator, lock, consented, left>>

\* start_namespace: open_object_for_detach and the identity comparison.
OpenSource(p) ==
    /\ pc[p] = "start"
    /\ active = recovery[p].identity
    /\ OpenableForDelete(active)
    /\ held' = [held EXCEPT ![p] = @ \cup {active}]
    /\ deleters' = [deleters EXCEPT ![p] = @ \cup {active}]
    /\ Goto(p, "createNext")
    /\ UNCHANGED <<namespace, durable, recovery, state, creator, lock, consented, left>>

\* start_namespace: random_id and create_protected_child of the replacement root.
CreateNext(p) ==
    /\ pc[p] = "createNext"
    /\ \E i \in Id \ used, o \in Protected \ born :
          /\ next' = [next EXCEPT ![i] = o]
          /\ born' = born \cup {o}
          /\ used' = used \cup {i}
          /\ held' = [held EXCEPT ![p] = @ \cup {o}]
          /\ deleters' = [deleters EXCEPT ![p] = @ \cup {o}]
          /\ state' = [state EXCEPT ![p] = [id |-> i, phase |-> Prepared,
                                            source |-> recovery[p].identity, next |-> o]]
    /\ Goto(p, "writePrepared")
    /\ UNCHANGED <<active, legacy, durable, recovery, creator, lock, consented, left>>

\* write_state: a marker of that name is kept when equal and refused otherwise.
MarkerAccepted(s) == \A m \in markers : m.id = s.id /\ m.phase = s.phase => m = s

\* One durable phase: publish the marker of phase f and go on at label l.
Publish(p, f, l) ==
    LET s == [state[p] EXCEPT !.phase = f]
    IN  /\ MarkerAccepted(s)
        /\ markers' = markers \cup {s}
        /\ state' = [state EXCEPT ![p] = s]
        /\ Goto(p, l)

\* Mutant: Detached is published before the source is renamed.
WritePrepared_MarkFirst(p) ==
    /\ pc[p] = "writePrepared"
    /\ Publish(p, Prepared, "writeDetached")
    /\ UNCHANGED <<namespace, bootstrap, events, recovery, handles, consented, left>>

WritePrepared(p) ==
    /\ pc[p] = "writePrepared"
    /\ Publish(p, Prepared, "detach")
    /\ UNCHANGED <<namespace, bootstrap, events, recovery, handles, consented, left>>

\* Mutant: the source is removed instead of renamed.
RenameSource_Removes(p) ==
    /\ active' = None
    /\ Goto(p, "writeDetached")
    /\ UNCHANGED legacy

\* The exact source object is renamed through its handle; an existing name is not replaced.
RenameSource(p) ==
    /\ legacy[state[p].id] = None
    /\ legacy' = [legacy EXCEPT ![state[p].id] = active]
    /\ active' = None
    /\ Goto(p, "writeDetached")

DetachSource(p) ==
    /\ pc[p] = "detach"
    /\ active = state[p].source
    /\ RenameSource(p)
    /\ UNCHANGED <<next, born, used, durable, recovery, state, handles, consented, left>>

\* start_namespace goes on with the replacement it still holds, resume_namespace reopens it.
WriteDetached(p) ==
    /\ pc[p] = "writeDetached"
    /\ Publish(p, Detached, IF state[p].next \in held[p] THEN "activate" ELSE "resume")
    /\ UNCHANGED <<namespace, bootstrap, events, recovery, handles, consented, left>>

\* The replacement root takes the production name; an existing name is not replaced.
RenameNext(p) ==
    /\ active = None
    /\ active' = next[state[p].id]
    /\ next' = [next EXCEPT ![state[p].id] = None]
    /\ Goto(p, "writeRootReady")

ActivateNext(p) ==
    /\ pc[p] = "activate"
    /\ RenameNext(p)
    /\ UNCHANGED <<legacy, born, used, durable, recovery, state, handles, consented, left>>

\* Mutant: an interrupted detachment is rolled back.
ResumeDetach_RollsBack(p) ==
    /\ pc[p] = "resume" /\ state[p].phase = Prepared
    /\ active = None
    /\ active' = legacy[state[p].id]
    /\ legacy' = [legacy EXCEPT ![state[p].id] = None]
    /\ UNCHANGED <<next, born, used, durable, locals, handles, consented, left>>

\* resume_namespace at Prepared: detach, or recognise that it already happened.
ResumeDetach(p) ==
    /\ pc[p] = "resume" /\ state[p].phase = Prepared
    /\ \/ /\ active = state[p].source
          /\ OpenableForDelete(active)
          /\ RenameSource(p)
       \/ /\ active = None
          /\ legacy[state[p].id] = state[p].source
          /\ Goto(p, "writeDetached")
          /\ UNCHANGED <<active, legacy>>
    /\ UNCHANGED <<next, born, used, durable, recovery, state, handles, consented, left>>

\* Mutant: a replacement that already has the production name is not recognised.
ResumeActivate_NotIdempotent(p) ==
    /\ pc[p] = "resume" /\ state[p].phase = Detached
    /\ next[state[p].id] = state[p].next
    /\ OpenableForDelete(state[p].next)
    /\ RenameNext(p)
    /\ UNCHANGED <<legacy, born, used, durable, recovery, state, handles, consented, left>>

\* resume_namespace at Detached: activate, or recognise that it already happened.
ResumeActivate(p) ==
    /\ pc[p] = "resume" /\ state[p].phase = Detached
    /\ legacy[state[p].id] = state[p].source
    /\ \/ /\ next[state[p].id] = state[p].next
          /\ OpenableForDelete(state[p].next)
          /\ RenameNext(p)
       \/ /\ next[state[p].id] = None
          /\ ReadyRootVerified(state[p])
          /\ Goto(p, "writeRootReady")
          /\ UNCHANGED <<active, next>>
    /\ UNCHANGED <<legacy, born, used, durable, recovery, state, handles, consented, left>>

\* resume_namespace at RootReady or AuditPending: only verify.
ResumeVerify(p) ==
    /\ pc[p] = "resume" /\ state[p].phase \in {RootReady, AuditPending}
    /\ ReadyRootVerified(state[p])
    /\ Goto(p, "openRoot")
    /\ UNCHANGED <<namespace, durable, recovery, state, handles, consented, left>>

\* The last marker of the namespace work; source and replacement handles are closed after it.
WriteRootReady(p) ==
    /\ pc[p] = "writeRootReady"
    /\ Publish(p, RootReady, "openRoot")
    /\ held' = [held EXCEPT ![p] = {}]
    /\ deleters' = [deleters EXCEPT ![p] = {}]
    /\ UNCHANGED <<namespace, bootstrap, events, recovery, creator, lock, consented, left>>

\* open_existing_under, then recovery_plan.
OpenRoot(p) ==
    /\ pc[p] = "openRoot"
    /\ RootOpens
    /\ held' = [held EXCEPT ![p] = @ \cup {active}]
    /\ Goto(p, IF state[p].phase = RootReady THEN "writeAuditPending" ELSE "audit")
    /\ UNCHANGED <<namespace, durable, recovery, state, creator, lock, deleters, consented, left>>

WriteAuditPending(p) ==
    /\ pc[p] = "writeAuditPending"
    /\ Publish(p, AuditPending, "audit")
    /\ UNCHANGED <<namespace, bootstrap, events, recovery, handles, consented, left>>

\* complete_recovery: the terminal event is synchronized in the journal of the opened root.
LogTerminalEvent(p) ==
    /\ pc[p] = "audit"
    /\ events' = events \cup {<<o, state[p].id>> : o \in held[p]}
    /\ Goto(p, "writeDone")
    /\ UNCHANGED <<namespace, bootstrap, markers, recovery, state, handles, consented, left>>

\* PendingProductionStorage::complete drops the lock; the root handle stays with the controller.
WriteDone(p) ==
    LET s == [state[p] EXCEPT !.phase = Done]
    IN  /\ pc[p] = "writeDone"
        /\ MarkerAccepted(s)
        /\ markers' = markers \cup {s}
        /\ state' = [state EXCEPT ![p] = None]
        /\ recovery' = [recovery EXCEPT ![p] = None]
        /\ lock' = None
        /\ Goto(p, "ready")
        /\ UNCHANGED <<namespace, bootstrap, events, creator, held, deleters, consented, left>>

-----------------------------------------------------------------------------
(* Errors, crashes and other software.                                     *)

\* The error returns of the worker: the check of each step fails.  Running out of identifiers
\* or objects, the bounds of the model, is the failure of a creation.
Refused(p) ==
    LET s == state[p]
    IN  \/ pc[p] = "inspect" /\ bootstrap /\ ~Loads
        \/ pc[p] = "identify" /\ active = None
        \/ pc[p] = "create" /\ (IF active = None THEN Protected \subseteq born ELSE ~RootOpens)
        \/ pc[p] = "bootstrap" /\ creator # None
        \/ pc[p] = "lock" /\ lock # None
        \/ pc[p] = "load" /\ ~Loads
        \/ pc[p] = "start" /\ (active # recovery[p].identity \/ ~OpenableForDelete(active))
        \/ pc[p] = "createNext" /\ (Id \subseteq used \/ Protected \subseteq born)
        \/ pc[p] = "activate" /\ active # None
        \/ /\ pc[p] = "resume" /\ s.phase = Prepared
           /\ \/ active # None /\ (active # s.source \/ ~OpenableForDelete(active))
              \/ active = None /\ legacy[s.id] # s.source
        \/ /\ pc[p] = "resume" /\ s.phase = Detached
           /\ \/ legacy[s.id] # s.source
              \/ next[s.id] # None /\ (\/ next[s.id] # s.next
                                       \/ ~OpenableForDelete(next[s.id])
                                       \/ active # None)
              \/ next[s.id] = None /\ ~ReadyRootVerified(s)
        \/ pc[p] = "resume" /\ s.phase \in {RootReady, AuditPending} /\ ~ReadyRootVerified(s)
        \/ pc[p] = "openRoot" /\ ~RootOpens

Refuse(p) == /\ Refused(p)
             /\ Abort(p)
             /\ UNCHANGED <<namespace, durable, consented, left>>

Spend(kind) == left[kind] > 0 /\ left' = [left EXCEPT ![kind] = @ - 1]

\* A call that could succeed fails before its effect; the worker returns the error.
Fault(p) == /\ pc[p] \in Working
            /\ Spend("fault")
            /\ Abort(p)
            /\ UNCHANGED <<namespace, durable, consented>>

\* persist_prepared_state: a proven failure before publication removes the replacement.
FaultBeforePrepared(p) ==
    /\ pc[p] = "writePrepared"
    /\ Spend("fault")
    /\ next' = [next EXCEPT ![state[p].id] = None]
    /\ Abort(p)
    /\ UNCHANGED <<active, legacy, born, used, durable, consented>>

\* PublishedStateSync or StatePublication: the marker is there and the call still fails.
FaultAfterPublication(p) ==
    /\ pc[p] \in {"writePrepared", "writeDetached", "writeRootReady", "writeAuditPending",
                  "writeDone"}
    /\ Spend("fault")
    /\ LET s == IF pc[p] = "writePrepared" THEN state[p]
                                           ELSE [state[p] EXCEPT !.phase = @ + 1]
       IN  MarkerAccepted(s) /\ markers' = markers \cup {s}
    /\ Abort(p)
    /\ UNCHANGED <<namespace, bootstrap, events, consented>>

\* The terminal event reached the journal and its synchronization reports an error.
FaultAfterEvent(p) ==
    /\ pc[p] = "audit"
    /\ Spend("fault")
    /\ events' = events \cup {<<o, state[p].id>> : o \in held[p]}
    /\ Abort(p)
    /\ UNCHANGED <<namespace, bootstrap, markers, consented>>

Crash(p) == /\ pc[p] # "off"
            /\ Spend("crash")
            /\ Goto(p, "off")
            /\ Release(p)
            /\ UNCHANGED <<namespace, durable, consented>>

\* Other software replaces, removes or creates a permissive object at the production name.
\* It cannot touch a protected root, nor a directory a WinProfile handle pins.
Substitute ==
    /\ Spend("substitute")
    /\ active # None => active \in Permissive /\ OpenableForDelete(active)
    /\ \/ active' = None /\ active # None /\ UNCHANGED born
       \/ \E o \in Permissive \ born : active' = o /\ born' = born \cup {o}
    /\ UNCHANGED <<next, legacy, used, durable, locals, handles, consented>>

-----------------------------------------------------------------------------

\* Steps of the start-up worker thread that no one has to ask for.
Work(p) ==
    \/ InspectMarkers(p) \/ Classify(p) \/ CreateRoot(p) \/ CaptureIdentity(p)
    \/ OpenBootstrap(p) \/ AcquireLock(p) \/ LoadPending(p)
    \/ OpenSource(p) \/ CreateNext(p) \/ WritePrepared(p) \/ DetachSource(p)
    \/ WriteDetached(p) \/ ActivateNext(p)
    \/ ResumeDetach(p) \/ ResumeActivate(p) \/ ResumeVerify(p)
    \/ WriteRootReady(p) \/ OpenRoot(p) \/ WriteAuditPending(p)
    \/ LogTerminalEvent(p) \/ WriteDone(p)
    \/ Refuse(p)

Operate(p) == Launch(p) \/ Proceed(p) \/ Retry(p) \/ Quit(p)

Misfortune(p) == \/ Fault(p) \/ FaultBeforePrepared(p) \/ FaultAfterPublication(p)
                 \/ FaultAfterEvent(p) \/ Crash(p)

Next == \/ \E p \in Proc : Work(p) \/ Operate(p) \/ Misfortune(p)
        \/ Substitute

Spec == Init /\ [][Next]_vars

\* The worker thread runs; an operator who is offered a recovery or a retry again and again
\* eventually takes it (storage-recovery.md asks for exactly that) and relaunches.
FairSpec ==
    /\ Spec
    /\ \A p \in Proc : /\ WF_vars(Work(p)) /\ WF_vars(Launch(p))
                        /\ SF_vars(Proceed(p)) /\ SF_vars(Retry(p))

\* ... and every dashboard is eventually closed.
ClosingSpec == FairSpec /\ \A p \in Proc : WF_vars(pc[p] = "ready" /\ Quit(p))

-----------------------------------------------------------------------------
(* Properties.                                                             *)

\* The marker directory never reaches the states load_pending_from_bootstrap rejects:
\* every sequence is complete up to its latest phase with one pair of identities, and
\* AmbiguousState (two unfinished migrations) does not occur, whoever wrote the markers.
JournalConsistent == /\ \A i \in Id : SequenceValid(i)
                     /\ \A m, n \in PendingSet : m = n

\* A marker never runs ahead of the namespace: from Detached on the recorded source is at
\* its detached name, and while RootReady or AuditPending is the latest phase the recorded
\* replacement is the production root.
PhaseMatchesNamespace ==
    /\ \A m \in markers : m.phase >= Detached => legacy[m.id] = m.source
    /\ \A m \in PendingSet : m.phase >= RootReady => active = m.next

\* Only an object whose own identity an operator consented to is ever detached, also when
\* the object was substituted after detection or another process recovers at the same time.
DetachedWasConsented == \A i \in Id : legacy[i] # None => legacy[i] \in consented

\* Done is published only after the terminal event is in the journal of the replacement root.
AuditBeforeDone == \A m \in markers : m.phase = Done => <<m.next, m.id>> \in events

\* The root a running dashboard writes to keeps the production name: no recovery of another
\* process detaches it under the dashboard.
DashboardRootPinned == \A p \in Proc : pc[p] = "ready" => active \in held[p]

\* A journal that holds a terminal event is never lost: its root is the production root or
\* lies at a detached name.
AuditedRootKept ==
    \A e \in events : e[1] = active \/ \E i \in Id : legacy[i] = e[1]

\* "After Detached, recovery never moves the untrusted object back": no step of any process
\* changes what a detached name refers to.
DetachedStays == [][\A i \in Id : legacy[i] # None => legacy'[i] = legacy[i]]_vars

\* A recovery that is offered ends with the dashboard when the failures stop.
StartupCompletes == \A p \in Proc : pc[p] = "offer" ~> pc[p] = "ready"

\* Only permissive objects are renamed to WinProfile.Legacy.Untrusted.*.
OnlyPermissiveDetached == \A i \in Id : legacy[i] \notin Protected

\* A recorded migration is eventually finished.
MigrationSettles == (PendingSet # {}) ~> (PendingSet = {})
=============================================================================
