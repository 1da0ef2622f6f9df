--------------------------- MODULE ProtectedStore ---------------------------
(***************************************************************************)
(* The protected store: the audit journal and the snapshot engine of every *)
(* WinProfile process, composed over the one storage lock they share, with *)
(* crashes of a process and losses of power.                               *)
(***************************************************************************)
EXTENDS AuditJournal, SnapshotEngine

vars == <<storageVars, rootVars, journalVars, snapshotVars>>

Init == StorageInit /\ JournalInit /\ SnapshotInit

Crash(p) ==
    /\ pc[p] # "down"
    /\ Stop({p})
    /\ JournalCrash(p)
    /\ SnapshotCrash({p})

PowerLoss ==
    /\ Stop(Process)
    /\ JournalPowerLoss
    /\ SnapshotCrash(Process)

Next ==
    \/ JournalNext /\ UNCHANGED snapshotVars
    \/ SnapshotNext /\ UNCHANGED <<journalVars, rootVars>>
    \/ \E p \in Process : LockRefused(p) /\ UNCHANGED <<journalVars, snapshotVars, rootVars>>
    \/ \E p \in Process : Crash(p)
    \/ PowerLoss

Spec == Init /\ [][Next]_vars

-----------------------------------------------------------------------------

\* Every variable has its type, and at most one process holds the storage lock.
TypeOK ==
    /\ lock \in SUBSET Process /\ Cardinality(lock) <= 1
    /\ DOMAIN pc = Process
    /\ calls \in 0 .. MaxCalls
    /\ faults \in 0 .. MaxFaults /\ crashes \in 0 .. MaxCrashes
    /\ root \in BOOLEAN /\ creator \subseteq Process
    /\ DOMAIN files \subseteq Slot /\ \A n \in DOMAIN files : files[n] \in Seq(Piece)
    /\ unsynced \in BOOLEAN
    /\ entry \in [Process -> {NoEntry} \cup Entry]
    /\ slot \in Slot
    /\ memory \in [Process -> Seq(EntryId)]
    /\ written \in Seq(Piece)
    /\ acked \subseteq EntryId
    /\ snapshots \in Seq(Snapshot)
    /\ current \in [Process -> {0} \cup DOMAIN snapshots]
    /\ held \in [Process -> SUBSET DOMAIN snapshots]
    /\ purged \subseteq DOMAIN snapshots

\* The archives from the oldest to the newest, then the log.
History == FlattenSeq([n \in 1 .. MaxArchives + 1 |-> Content(MaxArchives + 1 - n)])

\* What is on disk, read from the oldest archive to the log, is an unbroken end of
\* everything that was ever appended: rotations by several processes, rotations that stop
\* half-way and retries only ever lose the oldest part (rotate_if_needed).
JournalIsSuffix == IsSuffix(History, written)

\* An entry whose log() returned Ok is never lost by a crash or a loss of power: sync_data
\* came first.  Only rotation may drop it later.
AckedIsDurable ==
    \A n \in acked : \E i \in DOMAIN written : written[i].id = n /\ written[i].part = "line"

\* No file of the journal outgrows max_log_bytes, whatever appends were cut short.
LogBounded == \A n \in DOMAIN files : Bytes(files[n]) <= MaxLogBytes

\* A file under its final export name is the complete log of the moment it was made; a copy
\* that fell short, failed or crashed keeps its pending name (export_copy_with).
ExportsComplete ==
    \A i \in DOMAIN exports : exports[i].state = "published" => exports[i].content = exports[i].source

\* While a repair holds a capture, the hive it would roll back to is complete on disk
\* (ProtectedSnapshotArtifact: "blocks mutation and deletion until the transaction ends").
HeldSnapshotIntact ==
    \A p \in Process : \A n \in held[p] : snapshots[n].hive = "whole"

\* A capture that failed left neither of its files, unless its error says what it could not
\* remove; the one silent exception is a metadata file create_file could not delete.
FailedSnapshotLeavesNothing ==
    \A n \in DOMAIN snapshots : snapshots[n].end = "failed" =>
        snapshots[n].hive = "none" /\ snapshots[n].meta \in {"none", "stray"}

\* Outside a capture the listing is refused only in the process that created the root and keeps
\* DELETE access to it (no other process is then running), or because of a hive some repair
\* holds, a hive an administrator removed, or files a crash or a reported failed removal left.
InventoryBrokenForCause ==
    /\ \/ RootOpens
       \/ \E p \in Process : /\ creator = {p} /\ pc[p] # "down"
                             /\ \A q \in Process \ {p} : pc[q] = "down"
    /\ \A n \in DOMAIN snapshots :
          \/ Listable(n)
          \/ Held(n) \/ n \in purged \/ snapshots[n].meta = "stray"
          \/ snapshots[n].end \in {"running", "crashed", "unclean"}

\* README: "rotated across five archives".  An archive is given up only when every archive
\* slot is in use.
ArchiveDroppedWhenFull ==
    [][(MaxArchives \in DOMAIN files /\ MaxArchives \notin DOMAIN files') =>
         1 .. MaxArchives \subseteq DOMAIN files]_vars
=============================================================================
