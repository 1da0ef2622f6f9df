---------------------------- MODULE StorageRoot ----------------------------
(***************************************************************************)
(* The protected storage root (crates/audit-journal/src/storage.rs) as its *)
(* two clients, the audit journal and the snapshot engine, use it: the     *)
(* .storage.lock file that every call opens without sharing, and the ways  *)
(* a call can stop half-way.                                               *)
(*                                                                         *)
(* A process keeps its handle to the root for as long as it runs.  The one *)
(* that created the root keeps DELETE access with it, which no other open  *)
(* of the root shares: while it runs no other process gets in, and its own *)
(* calls that open the root again by its path fail.                        *)
(*                                                                         *)
(* Each WinProfile process runs one storage call at a time; pc says which  *)
(* step of the call is next.  What a call computes before it has the lock  *)
(* is local, so a call begins with the lock.  A thread waits for another   *)
(* thread of its own process as another process would, because the lock is *)
(* a file handle.                                                          *)
(***************************************************************************)
EXTENDS Naturals

CONSTANTS
    Process,      \* WinProfile processes sharing the storage root
    MaxCalls,     \* bound: entries logged, exports made and snapshots taken
    MaxFaults,    \* bound: calls of the operating system that fail
    MaxCrashes    \* bound: process crashes and power losses

ASSUME StorageConstants == MaxCalls \in Nat /\ MaxFaults \in Nat /\ MaxCrashes \in Nat

VARIABLES
    lock,      \* the processes holding .storage.lock: none or one
    pc,        \* the next step of each process's call
    calls,     \* calls begun so far
    faults,    \* calls of the operating system that have failed
    crashes,   \* crashes and power losses so far
    root,      \* does the root exist
    creator    \* the running process that created the root: none or one

storageVars == <<lock, pc, calls, faults, crashes>>
rootVars == <<root, creator>>

StorageInit ==
    /\ lock = {}
    /\ pc = [p \in Process |-> "down"]
    /\ calls = 0
    /\ faults = 0
    /\ crashes = 0
    /\ root \in BOOLEAN
    /\ creator = {}

Goto(p, label) == pc' = [pc EXCEPT ![p] = label]

\* A call of the operating system fails.
Fault ==
    /\ faults < MaxFaults
    /\ faults' = faults + 1

\* An uncontended step from one label to the next.
Step(p, from, to) ==
    /\ pc[p] = from
    /\ Goto(p, to)
    /\ UNCHANGED <<lock, calls, faults, crashes>>

\* acquire_named_lock: the file opens only when no handle to it is open.
Acquire(p, from, to) ==
    /\ pc[p] = from
    /\ lock = {}
    /\ lock' = {p}
    /\ Goto(p, to)
    /\ UNCHANGED <<faults, crashes>>

\* The root shares reading and writing alone: it opens by its name or path only when no
\* handle to it has DELETE access.
RootOpens == creator = {}

\* open_or_create_under: the root is opened, or created with DELETE access.
OpenRoot(p) ==
    /\ RootOpens
    /\ root' = TRUE
    /\ creator' = IF root THEN {} ELSE {p}

\* The handles of the processes ps to the root are closed.
CloseRoot(ps) ==
    /\ creator' = creator \ ps
    /\ UNCHANGED root

\* acquire_named_lock gives up: the holder kept the lock for the whole timeout, or the
\* root failed its revalidation; or a start cannot open the root.  Whatever call it was, it
\* has touched nothing.
LockRefused(p) ==
    /\ pc[p] \in {"down", "idle"}
    /\ \/ lock # {} /\ UNCHANGED faults
       \/ pc[p] = "down" /\ ~ RootOpens /\ UNCHANGED faults
       \/ Fault
    /\ UNCHANGED <<lock, pc, calls, crashes>>

\* One of the calls that the bound counts.
CountCall ==
    /\ calls < MaxCalls
    /\ calls' = calls + 1

\* The call returns and drops its lock handle.
Return(p, to) ==
    /\ lock' = lock \ {p}
    /\ Goto(p, to)
    /\ UNCHANGED <<calls, crashes>>

\* The process ends without returning; its handles are closed by the kernel.
Stop(ps) ==
    /\ crashes < MaxCrashes
    /\ crashes' = crashes + 1
    /\ lock' = lock \ ps
    /\ pc' = [p \in Process |-> IF p \in ps THEN "down" ELSE pc[p]]
    /\ CloseRoot(ps)
    /\ UNCHANGED <<calls, faults>>
=============================================================================
