--------------------------- MODULE SnapshotEngine ---------------------------
(***************************************************************************)
(* SnapshotEngine (crates/audit-journal/src/snapshot.rs): a hive file and  *)
(* its .json metadata per snapshot, both captured under the storage lock   *)
(* or neither.                                                             *)
(*                                                                         *)
(* A successful capture returns an open handle on the hive (read and       *)
(* delete access, shared for reading only) that the repair keeps until its *)
(* transaction ends.  Snapshots are numbered in the order of their capture *)
(* because a file name is made of a timestamp, a process id and a sequence *)
(* number.                                                                 *)
(***************************************************************************)
EXTENDS StorageRoot, Sequences

VARIABLES
    snapshots,   \* the files of each capture and how it ended
    current,     \* the capture each process is working on, or 0
    held,        \* the captures whose hive each process has open
    purged       \* history: hives an administrator removed

snapshotVars == <<snapshots, current, held, purged>>

\* A "stray" metadata file is empty and left behind without a word: create_file could
\* neither inspect nor delete it and drops the second error.
Snapshot == [hive : {"none", "partial", "whole"},
             meta : {"none", "torn", "whole", "stray"},
             end  : {"running", "ok", "failed", "unclean", "crashed"}]

SnapshotInit ==
    /\ snapshots = << >>
    /\ current = [p \in Process |-> 0]
    /\ held = [p \in Process |-> {}]
    /\ purged = {}

Held(n) == \E p \in Process : n \in held[p]

-----------------------------------------------------------------------------
(* create_registry_snapshot. *)

CreateSnapshot(p) ==
    /\ CountCall
    /\ Acquire(p, "idle", "snap_save")
    /\ snapshots' = Append(snapshots, [hive |-> "none", meta |-> "none", end |-> "running"])
    /\ current' = [current EXCEPT ![p] = Len(snapshots) + 1]
    /\ UNCHANGED <<held, purged>>

\* The capture of p returns with the given files and end.
CaptureEnds(p, hive, meta, end) ==
    /\ snapshots' = [snapshots EXCEPT ![current[p]] = [hive |-> hive, meta |-> meta, end |-> end]]
    /\ current' = [current EXCEPT ![p] = 0]
    /\ Return(p, "idle")

SaveKey(p) ==
    /\ Step(p, "snap_save", "snap_open")
    /\ snapshots' = [snapshots EXCEPT ![current[p]].hive = "whole"]
    /\ UNCHANGED <<current, held, purged>>

\* A privilege or the key is not available, or RegSaveKey fails with part of the file
\* written.
SaveKeyFails(p) ==
    /\ pc[p] = "snap_save"
    /\ Fault
    /\ \E hive \in {"none", "partial"} :
          snapshots' = [snapshots EXCEPT ![current[p]].hive = hive]
    /\ Goto(p, "snap_discard")
    /\ UNCHANGED <<lock, calls, crashes, current, held, purged>>

\* cleanup_after_failed_save and cleanup_after_post_save_error remove the hive by name;
\* a removal that fails is part of the error returned.
DiscardHive(p) ==
    /\ pc[p] = "snap_discard"
    /\ \/ CaptureEnds(p, "none", "none", "failed") /\ UNCHANGED faults
       \/ /\ snapshots[current[p]].hive # "none" /\ Fault
          /\ CaptureEnds(p, snapshots[current[p]].hive, "none", "unclean")
    /\ UNCHANGED <<held, purged>>

\* The hive is opened, identified and hashed; the handle stays open.
OpenArtifact(p) ==
    /\ Step(p, "snap_open", "snap_meta")
    /\ snapshots[current[p]].hive = "whole"
    /\ held' = [held EXCEPT ![p] = @ \cup {current[p]}]
    /\ UNCHANGED <<snapshots, current, purged>>

OpenArtifactFails(p) ==
    /\ pc[p] = "snap_open"
    /\ \/ snapshots[current[p]].hive = "none" /\ UNCHANGED faults
       \/ Fault
    /\ Goto(p, "snap_discard")
    /\ UNCHANGED <<lock, calls, crashes, snapshotVars>>

CreateMetadata(p) ==
    /\ Step(p, "snap_meta", "snap_write")
    /\ snapshots' = [snapshots EXCEPT ![current[p]].meta = "torn"]
    /\ UNCHANGED <<current, held, purged>>

CreateMetadataFails(p) ==
    /\ pc[p] = "snap_meta"
    /\ Fault
    /\ \E meta \in {"none", "stray"} :
          snapshots' = [snapshots EXCEPT ![current[p]].meta = meta]
    /\ Goto(p, "snap_undo")
    /\ UNCHANGED <<lock, calls, crashes, current, held, purged>>

WriteMetadata(p) ==
    /\ Step(p, "snap_write", "snap_finish")
    /\ snapshots' = [snapshots EXCEPT ![current[p]].meta = "whole"]
    /\ UNCHANGED <<current, held, purged>>

\* Mutant: the error is returned at once; dropping the metadata file deletes it, but
\* nothing deletes the hive.
WriteMetadataFails_HiveStays(p) ==
    /\ pc[p] = "snap_write"
    /\ Fault
    /\ CaptureEnds(p, snapshots[current[p]].hive, "none", "failed")
    /\ held' = [held EXCEPT ![p] = @ \ {current[p]}]
    /\ UNCHANGED purged

WriteMetadataFails(p) ==
    /\ pc[p] = "snap_write"
    /\ Fault
    /\ Goto(p, "snap_undo")
    /\ UNCHANGED <<lock, calls, crashes, snapshotVars>>

\* finish_snapshot_operation after the privileges were given back: the metadata file is
\* committed and the capture returned with its open hive.
FinishSnapshot(p) ==
    /\ pc[p] = "snap_finish"
    /\ CaptureEnds(p, snapshots[current[p]].hive, "whole", "ok")
    /\ UNCHANGED <<faults, held, purged>>

\* Mutant: a capture whose privileges could not be given back only deletes the hive.
PrivilegesKept_MetadataStays(p) ==
    /\ pc[p] = "snap_finish"
    /\ Fault
    /\ CaptureEnds(p, "none", snapshots[current[p]].meta, "failed")
    /\ held' = [held EXCEPT ![p] = @ \ {current[p]}]
    /\ UNCHANGED purged

\* finish_snapshot_operation when they could not be given back: the capture is undone.
PrivilegesKept(p) ==
    /\ pc[p] = "snap_finish"
    /\ Fault
    /\ Goto(p, "snap_undo")
    /\ UNCHANGED <<lock, calls, crashes, snapshotVars>>

\* cleanup_transaction_artifacts: the metadata file is rolled back and the hive deleted
\* through its handle.  Each deletion may fail, which the error returned says.
UndoCapture(p) ==
    /\ pc[p] = "snap_undo"
    /\ LET files == snapshots[current[p]]
           noMeta == IF files.meta = "stray" THEN "stray" ELSE "none"
       IN \/ CaptureEnds(p, "none", noMeta, "failed") /\ UNCHANGED faults
          \/ \E hive \in {"none", files.hive}, meta \in {noMeta, files.meta} :
                /\ <<hive, meta>> # <<"none", noMeta>>
                /\ Fault
                /\ CaptureEnds(p, hive, meta, "unclean")
    /\ held' = [held EXCEPT ![p] = @ \ {current[p]}]
    /\ UNCHANGED purged

\* The repair that asked for the captures ends and drops their handles.
TransactionEnds(p) ==
    /\ pc[p] = "idle"
    /\ held[p] # {}
    /\ held' = [held EXCEPT ![p] = {}]
    /\ UNCHANGED <<storageVars, snapshots, current, purged>>

-----------------------------------------------------------------------------
(* list_snapshots. *)

List(p) ==
    /\ Acquire(p, "idle", "list_read")
    /\ UNCHANGED <<calls, snapshotVars>>

\* validate_inventory_entry.  The hive is opened for reading without sharing deletion,
\* which fails while a transaction holds its handle with delete access.
Listable(n) ==
    snapshots[n].meta = "none" \/
    (snapshots[n].meta = "whole" /\ snapshots[n].hive = "whole" /\ ~ Held(n))

\* StorageDirectory::entries opens the root again by its path before it reads the names.
ListSnapshots(p) ==
    /\ pc[p] = "list_read"
    /\ RootOpens
    /\ \A n \in DOMAIN snapshots : Listable(n)
    /\ Return(p, "idle")
    /\ UNCHANGED <<faults, snapshotVars>>

\* The root does not open, or one file that cannot be opened, parsed or matched fails the whole
\* listing.
ListFails(p) ==
    /\ pc[p] = "list_read"
    /\ \/ ~ RootOpens /\ UNCHANGED faults
       \/ (\E n \in DOMAIN snapshots : ~ Listable(n)) /\ UNCHANGED faults
       \/ Fault
    /\ Return(p, "idle")
    /\ UNCHANGED snapshotVars

-----------------------------------------------------------------------------
(* The environment. *)

\* Mutant: the protected handle shares deletion.
PurgeAllowed_SharedDelete(n) == snapshots[n].hive # "none"

\* An open handle that does not share deletion keeps the file.
PurgeAllowed(n) == snapshots[n].hive # "none" /\ ~ Held(n)

\* An administrator removes a hive from the snapshot directory.
Purge(n) ==
    /\ PurgeAllowed(n)
    /\ snapshots' = [snapshots EXCEPT ![n].hive = "none"]
    /\ purged' = purged \cup {n}
    /\ UNCHANGED <<storageVars, current, held>>

\* What a crash of the processes ps does to the snapshots.
SnapshotCrash(ps) ==
    /\ \E hive \in {"none", "partial"} :
          snapshots' = [n \in DOMAIN snapshots |->
             IF \E p \in ps : current[p] = n
               THEN [snapshots[n] EXCEPT !.end = "crashed",
                       !.hive = IF \E p \in ps : current[p] = n /\ pc[p] = "snap_save"
                                  THEN hive ELSE @]
               ELSE snapshots[n]]
    /\ current' = [p \in Process |-> IF p \in ps THEN 0 ELSE current[p]]
    /\ held' = [p \in Process |-> IF p \in ps THEN {} ELSE held[p]]
    /\ UNCHANGED purged

SnapshotNext ==
    \/ \E p \in Process :
          \/ CreateSnapshot(p) \/ SaveKey(p) \/ SaveKeyFails(p) \/ DiscardHive(p)
          \/ OpenArtifact(p) \/ OpenArtifactFails(p)
          \/ CreateMetadata(p) \/ CreateMetadataFails(p)
          \/ WriteMetadata(p) \/ WriteMetadataFails(p)
          \/ FinishSnapshot(p) \/ PrivilegesKept(p) \/ UndoCapture(p) \/ TransactionEnds(p)
          \/ List(p) \/ ListSnapshots(p) \/ ListFails(p)
    \/ \E n \in DOMAIN snapshots : Purge(n)
=============================================================================
