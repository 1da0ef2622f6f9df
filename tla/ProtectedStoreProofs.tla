------------------------ MODULE ProtectedStoreProofs ------------------------
(***************************************************************************)
(* TLAPS proofs about ProtectedStore, for any number of processes, calls,  *)
(* faults, crashes, entry sizes and archives.                              *)
(***************************************************************************)
EXTENDS ProtectedStore, SequenceTheorems, FiniteSetTheorems, WellFoundedInduction, TLAPS

LogLabel == {"log_rotate", "log_shift", "log_open", "log_write", "log_sync"}
WorkLabel == LogLabel \cup {"export_copy", "export_publish"}

\* Before the hive is opened, and with its handle open.
UnheldLabel == {"snap_save", "snap_open", "snap_discard"}
HeldLabel == {"snap_meta", "snap_write", "snap_finish", "snap_undo"}
SnapLabel == UnheldLabel \cup HeldLabel

\* A process inside a call is the one holder of the lock.
LockInv ==
    /\ DOMAIN pc = Process
    /\ lock = {} \/ \E p \in Process : lock = {p}
    /\ \A p \in Process : pc[p] \notin {"down", "idle"} => lock = {p}

\* A process runs only when the root exists.  While the one that created it runs, no other does.
RootInv ==
    /\ root \in BOOLEAN /\ creator \subseteq Process
    /\ ~ root => \A p \in Process : pc[p] = "down"
    /\ creator # {} => \E p \in Process : /\ creator = {p} /\ pc[p] # "down"
                                          /\ \A q \in Process \ {p} : pc[q] = "down"

-----------------------------------------------------------------------------
(* The journal. *)

\* A piece of a file has at least one byte; a line has a body and its newline.
FilePiece == {x \in Piece : x.bytes > 0 /\ (x.part = "line" => x.bytes > 1)}

JournalType ==
    /\ DOMAIN files \subseteq Slot /\ \A n \in DOMAIN files : files[n] \in Seq(FilePiece)
    /\ unsynced \in BOOLEAN
    /\ entry \in [Process -> {NoEntry} \cup Entry]
    /\ slot \in Slot
    /\ memory \in [Process -> Seq(EntryId)]
    /\ written \in Seq(FilePiece)
    /\ acked \subseteq EntryId
    /\ \A p \in Process : pc[p] \in LogLabel => entry[p] \in Entry

\* Entry n is a complete line among the first k pieces of s.
LineWithin(n, k, s) == \E i \in 1 .. k : s[i].id = n /\ s[i].part = "line"

\* An acknowledged entry is on disk before the piece that a loss of power can take: the last
\* one while it is not flushed.  What a call is about to acknowledge is that last piece.
DurableInv ==
    /\ unsynced => Len(written) > 0
    /\ \A n \in acked : LineWithin(n, IF unsynced THEN Len(written) - 1 ELSE Len(written), written)
    /\ \A p \in Process : pc[p] = "log_sync" =>
          /\ Len(written) > 0
          /\ written[Len(written)].id = entry[p].id /\ written[Len(written)].part = "line"

-----------------------------------------------------------------------------
(* The snapshots. *)

SnapshotType ==
    /\ snapshots \in Seq(Snapshot)
    /\ current \in [Process -> {0} \cup DOMAIN snapshots]
    /\ held \in [Process -> SUBSET DOMAIN snapshots]
    /\ purged \subseteq DOMAIN snapshots

\* The capture a process works on is running, has no metadata before its hive is opened, and
\* its hive is open afterwards.
CaptureInv ==
    \A p \in Process :
       IF pc[p] \in SnapLabel
       THEN /\ current[p] \in DOMAIN snapshots /\ snapshots[current[p]].end = "running"
            /\ pc[p] \in UnheldLabel => ~ Held(current[p]) /\ snapshots[current[p]].meta = "none"
            /\ pc[p] \in HeldLabel => current[p] \in held[p]
       ELSE current[p] = 0

\* No two processes hold, or hold and capture, the same snapshot.
OwnerInv ==
    \A p, q \in Process : p # q => held[p] \cap held[q] = {} /\ current[p] \notin held[q]

\* A capture that returned its snapshot left both files; only an administrator removes one.
CompleteInv ==
    \A n \in DOMAIN snapshots : snapshots[n].end = "ok" =>
        snapshots[n].meta = "whole" /\ (snapshots[n].hive = "whole" \/ n \in purged)

SnapInv ==
    /\ SnapshotType /\ CaptureInv /\ OwnerInv /\ CompleteInv
    /\ HeldSnapshotIntact /\ FailedSnapshotLeavesNothing

StoreInv ==
    /\ calls \in 0 .. MaxCalls /\ faults \in 0 .. MaxFaults /\ crashes \in 0 .. MaxCrashes
    /\ LockInv /\ RootInv /\ JournalType /\ DurableInv /\ SnapInv
-----------------------------------------------------------------------------
(* The storage lock. *)

\* What a step of one process does to the lock: it takes the free lock, keeps it, or gives it
\* back and is outside a call.
LEMMA LockMoves ==
    ASSUME LockInv, NEW p \in Process, NEW l,
           pc' = [pc EXCEPT ![p] = l],
           \/ lock = {} /\ lock' = {p}
           \/ pc[p] \notin {"down", "idle"} /\ lock' = lock
           \/ l \in {"down", "idle"} /\ lock' = lock \ {p}
    PROVE  LockInv'
BY DEF LockInv

\* Every step of the journal and of the snapshot engine keeps the lock exclusive.
LEMMA LockStep == ASSUME LockInv, Next PROVE LockInv'
<1> USE DEF Acquire, Step, Return, LogEnds, CaptureEnds, Goto, storageVars
<1>1. ASSUME NEW p \in Process,
             \/ JournalStart(p) \/ Load(p) \/ LoadFails(p)
             \/ \E bytes \in EntrySizes : Log(p, bytes) \/ LogTooLarge(p, bytes)
             \/ Rotate(p) \/ RotationFails(p)
             \/ OpenLog(p) \/ OpenLogFails(p) \/ Write(p) \/ WriteFails(p) \/ Sync(p) \/ SyncFails(p)
      PROVE  LockInv'
  <2>1. CASE UNCHANGED <<pc, lock>>
      BY <2>1 DEF LockInv
  <2>2. CASE JournalStart(p) \/ Load(p) \/ LoadFails(p)
      BY <2>2, LockMoves DEF JournalStart, Load, LoadFails
  <2>3. CASE \E bytes \in EntrySizes : Log(p, bytes) \/ LogTooLarge(p, bytes)
      BY <2>1, <2>3, LockMoves DEF Log, LogTooLarge
  <2>4. CASE Rotate(p) \/ RotationFails(p)
      BY <2>4, LockMoves DEF Rotate, RotationFails
  <2>5. CASE OpenLog(p) \/ OpenLogFails(p) \/ Write(p) \/ WriteFails(p) \/ Sync(p) \/ SyncFails(p)
      BY <2>5, LockMoves DEF OpenLog, OpenLogFails, Write, WriteFails, Sync, SyncFails
  <2> QED BY <1>1, <2>2, <2>3, <2>4, <2>5
<1>2. ASSUME NEW p \in Process,
             \/ Shift(p) \/ ClearMemory(p)
             \/ Export(p) \/ OpenExport(p) \/ OpenExportFails(p) \/ Copy(p) \/ Publish(p)
             \/ ExportFails(p)
      PROVE  LockInv'
  <2>1. CASE UNCHANGED <<pc, lock>>
      BY <2>1 DEF LockInv
  <2>2. CASE Shift(p) \/ ClearMemory(p)
      BY <2>1, <2>2, LockMoves DEF Shift, ClearMemory
  <2>3. CASE Export(p) \/ OpenExport(p) \/ OpenExportFails(p) \/ Copy(p) \/ Publish(p)
             \/ ExportFails(p)
      BY <2>3, LockMoves DEF Export, OpenExport, OpenExportFails, Copy, Publish, ExportFails
  <2> QED BY <1>2, <2>2, <2>3
<1>3. CASE SnapshotNext
  <2>1. CASE UNCHANGED <<pc, lock>>
      BY <2>1 DEF LockInv
  <2>2. CASE \E n \in DOMAIN snapshots : Purge(n)
      BY <2>1, <2>2 DEF Purge
  <2>3. ASSUME NEW p \in Process,
               \/ CreateSnapshot(p) \/ SaveKey(p) \/ SaveKeyFails(p) \/ DiscardHive(p)
               \/ OpenArtifact(p) \/ OpenArtifactFails(p)
        PROVE  LockInv'
      BY <2>3, LockMoves DEF CreateSnapshot, SaveKey, SaveKeyFails, DiscardHive, OpenArtifact,
         OpenArtifactFails
  <2>4. ASSUME NEW p \in Process,
               \/ CreateMetadata(p) \/ CreateMetadataFails(p)
               \/ WriteMetadata(p) \/ WriteMetadataFails(p)
               \/ FinishSnapshot(p) \/ PrivilegesKept(p) \/ UndoCapture(p)
        PROVE  LockInv'
      BY <2>4, LockMoves DEF CreateMetadata, CreateMetadataFails, WriteMetadata,
         WriteMetadataFails, FinishSnapshot, PrivilegesKept, UndoCapture
  <2>5. ASSUME NEW p \in Process, TransactionEnds(p) \/ List(p) \/ ListSnapshots(p) \/ ListFails(p)
        PROVE  LockInv'
      BY <2>1, <2>5, LockMoves DEF TransactionEnds, List, ListSnapshots, ListFails
  <2> QED BY <1>3, <2>2, <2>3, <2>4, <2>5 DEF SnapshotNext
<1>4. CASE \E p \in Process : LockRefused(p)
    BY <1>4 DEF LockRefused, LockInv
<1>5. ASSUME NEW ps \in SUBSET Process, Stop(ps) PROVE LockInv'
    BY <1>5 DEF Stop, LockInv
<1>6. CASE PowerLoss \/ \E p \in Process : Crash(p)
    BY <1>5, <1>6 DEF PowerLoss, Crash
<1> QED BY <1>1, <1>2, <1>3, <1>4, <1>6 DEF Next, JournalNext

\* What a step that leaves the root alone, and starts and ends no process, keeps.
LEMMA RootFrame ==
    ASSUME RootInv, UNCHANGED rootVars, \A q \in Process : (pc'[q] = "down") <=> (pc[q] = "down")
    PROVE  RootInv'
BY DEF RootInv, rootVars

\* Every step keeps a running creator of the root alone.
LEMMA RootStep == ASSUME LockInv, RootInv, Next PROVE RootInv'
<1> DEFINE SameRunning == \A q \in Process : (pc'[q] = "down") <=> (pc[q] = "down")
<1> USE DEF Acquire, Step, Return, LogEnds, CaptureEnds, Goto, storageVars
<1>1. ASSUME NEW p \in Process, JournalStart(p) PROVE RootInv'
  <2>1. pc[p] = "down" /\ pc' = [pc EXCEPT ![p] = "start_load"] /\ OpenRoot(p)
      BY <1>1 DEF JournalStart
  <2>2. CASE root
      BY <2>1, <2>2 DEF RootInv, OpenRoot
  <2>3. CASE ~ root
      BY <2>1, <2>3 DEF RootInv, LockInv, OpenRoot
  <2> QED BY <2>2, <2>3
<1>2. ASSUME NEW p \in Process, LoadFails(p) PROVE RootInv'
  <2>1. pc[p] = "start_load" /\ pc' = [pc EXCEPT ![p] = "down"] /\ CloseRoot({p})
      BY <1>2 DEF LoadFails
  <2>2. \A q \in Process : q # p => pc'[q] = pc[q]
      BY <2>1 DEF LockInv
  <2> QED BY <2>1, <2>2 DEF RootInv, LockInv, CloseRoot
<1>3. ASSUME NEW p \in Process,
             \/ Load(p)
             \/ \E bytes \in EntrySizes : Log(p, bytes) \/ LogTooLarge(p, bytes)
             \/ Rotate(p) \/ Shift(p) \/ RotationFails(p) \/ ClearMemory(p)
      PROVE  SameRunning
    BY <1>3 DEF LockInv, Load, Log, LogTooLarge, Rotate, Shift, RotationFails, ClearMemory
<1>4. ASSUME NEW p \in Process,
             \/ OpenLog(p) \/ OpenLogFails(p) \/ Write(p) \/ WriteFails(p) \/ Sync(p) \/ SyncFails(p)
      PROVE  SameRunning
    BY <1>4 DEF LockInv, OpenLog, OpenLogFails, Write, WriteFails, Sync, SyncFails
<1>5. ASSUME NEW p \in Process,
             \/ Export(p) \/ OpenExport(p) \/ OpenExportFails(p) \/ Copy(p) \/ Publish(p)
             \/ ExportFails(p)
      PROVE  SameRunning
    BY <1>5 DEF LockInv, Export, OpenExport, OpenExportFails, Copy, Publish, ExportFails
<1>6. ASSUME SnapshotNext PROVE SameRunning
  <2>1. CASE \E n \in DOMAIN snapshots : Purge(n)
      BY <2>1 DEF Purge
  <2>2. ASSUME NEW p \in Process,
               \/ CreateSnapshot(p) \/ SaveKey(p) \/ SaveKeyFails(p) \/ DiscardHive(p)
               \/ OpenArtifact(p) \/ OpenArtifactFails(p)
        PROVE  SameRunning
      BY <2>2 DEF LockInv, CreateSnapshot, SaveKey, SaveKeyFails, DiscardHive, OpenArtifact,
         OpenArtifactFails
  <2>3. ASSUME NEW p \in Process,
               \/ CreateMetadata(p) \/ CreateMetadataFails(p)
               \/ WriteMetadata(p) \/ WriteMetadataFails(p)
               \/ FinishSnapshot(p) \/ PrivilegesKept(p) \/ UndoCapture(p)
        PROVE  SameRunning
      BY <2>3 DEF LockInv, CreateMetadata, CreateMetadataFails, WriteMetadata,
         WriteMetadataFails, FinishSnapshot, PrivilegesKept, UndoCapture
  <2>4. ASSUME NEW p \in Process, TransactionEnds(p) \/ List(p) \/ ListSnapshots(p) \/ ListFails(p)
        PROVE  SameRunning
      BY <2>4 DEF LockInv, TransactionEnds, List, ListSnapshots, ListFails
  <2> QED BY <1>6, <2>1, <2>2, <2>3, <2>4 DEF SnapshotNext
<1>7. ASSUME \E p \in Process : LockRefused(p) PROVE SameRunning
    BY <1>7 DEF LockRefused
<1>8. ASSUME NEW ps \in SUBSET Process, Stop(ps) PROVE RootInv'
  <2>1. /\ pc' = [p \in Process |-> IF p \in ps THEN "down" ELSE pc[p]]
        /\ creator' = creator \ ps /\ root' = root
      BY <1>8 DEF Stop, CloseRoot
  <2> QED BY <2>1 DEF RootInv
<1>9. CASE PowerLoss \/ \E p \in Process : Crash(p)
    BY <1>8, <1>9 DEF PowerLoss, Crash
<1> QED
  <2>1. CASE JournalNext
      BY <2>1, <1>1, <1>2, <1>3, <1>4, <1>5, RootFrame DEF JournalNext
  <2>2. CASE SnapshotNext /\ UNCHANGED rootVars
      BY <2>2, <1>6, RootFrame
  <2>3. CASE \E p \in Process : LockRefused(p) /\ UNCHANGED rootVars
      BY <2>3, <1>7, RootFrame
  <2> QED BY <1>9, <2>1, <2>2, <2>3 DEF Next

\* The counters stay within their bounds.
LEMMA CounterStep ==
    ASSUME Next,
           calls \in 0 .. MaxCalls, faults \in 0 .. MaxFaults, crashes \in 0 .. MaxCrashes
    PROVE  calls' \in 0 .. MaxCalls /\ faults' \in 0 .. MaxFaults /\ crashes' \in 0 .. MaxCrashes
<1> USE StorageConstants DEF Acquire, Step, Return, Fault, CountCall, storageVars
<1>1. CASE JournalNext
    BY <1>1 DEF JournalNext, JournalStart, Load, LoadFails, Log, LogTooLarge, LogEnds, Rotate,
       Shift, RotationFails, OpenLog, OpenLogFails, Write, WriteFails, Sync, SyncFails,
       ClearMemory, Export, OpenExport, OpenExportFails, Copy, Publish, ExportFails
<1>2. CASE SnapshotNext
  <2>1. /\ crashes' = crashes
        /\ calls' = calls \/ CountCall
        /\ faults' = faults \/ Fault
      BY <1>2, ZenonT(60) DEF SnapshotNext, CreateSnapshot, CaptureEnds, SaveKey, SaveKeyFails, DiscardHive,
         OpenArtifact, OpenArtifactFails, CreateMetadata, CreateMetadataFails, WriteMetadata,
         WriteMetadataFails, FinishSnapshot, PrivilegesKept, UndoCapture, TransactionEnds, List,
         ListSnapshots, ListFails, Purge
  <2> QED BY <2>1
<1>3. CASE \E p \in Process : LockRefused(p)
    BY <1>3 DEF LockRefused
<1>4. CASE PowerLoss \/ \E p \in Process : Crash(p)
  <2>1. crashes < MaxCrashes /\ crashes' = crashes + 1 /\ UNCHANGED <<calls, faults>>
      BY <1>4 DEF PowerLoss, Crash, Stop
  <2> QED BY <2>1
<1> QED BY <1>1, <1>2, <1>3, <1>4 DEF Next

-----------------------------------------------------------------------------
(* The journal keeps its types. *)

\* What appending a piece does.
LEMMA AppendPiece ==
    ASSUME NEW s \in Seq(FilePiece), NEW x \in FilePiece
    PROVE  /\ Append(s, x) \in Seq(FilePiece) /\ Len(s) \in Nat /\ Len(Append(s, x)) = Len(s) + 1
           /\ \A i \in 1 .. Len(s) : Append(s, x)[i] = s[i]
           /\ Append(s, x)[Len(s) + 1] = x
BY AppendProperties, LenProperties

\* The newest elements of a sequence are a sequence of the same elements.
LEMMA NewestType ==
    ASSUME NEW S, NEW s \in Seq(S), NEW n \in Nat
    PROVE  Newest(n, s) \in Seq(S)
<1>1. Len(s) \in Nat /\ \A i \in 1 .. Len(s) : s[i] \in S
    BY LenProperties, ElementOfSeq
<1>2. CASE Len(s) > n
  <2>1. Len(s) - n + 1 \in Int /\ \A i \in Len(s) - n + 1 .. Len(s) : s[i] \in S
      BY <1>1, <1>2
  <2>2. SubSeq(s, Len(s) - n + 1, Len(s)) \in Seq(S)
      BY <1>1, <2>1, SubSeqProperties
  <2> QED BY <1>2, <2>2 DEF Newest
<1> QED BY <1>2 DEF Newest

\* The ids of the pieces of a file.
LEMMA EntryIdsType ==
    ASSUME NEW s \in Seq(FilePiece)
    PROVE  EntryIds(s) \in Seq(EntryId)
<1>1. Len(s) \in Nat /\ s \in [1 .. Len(s) -> FilePiece] /\ DOMAIN s = 1 .. Len(s)
    BY LenProperties
<1>2. EntryIds(s) \in [1 .. Len(s) -> EntryId]
    BY <1>1 DEF EntryIds, FilePiece, Piece
<1> QED BY <1>1, <1>2

\* The pieces an append leaves, whole or cut short, are pieces.
LEMMA PartType ==
    ASSUME NEW e \in Entry, NEW part \in {"some", "body", "line"}
    PROVE  [id |-> e.id, part |-> part, bytes |-> PartBytes(part, e.bytes)] \in FilePiece
BY JournalConstants DEF Entry, FilePiece, Piece, PartBytes

\* An append keeps the types of the log and of the history.
LEMMA AppendPartType ==
    ASSUME JournalType, NEW p \in Process, entry[p] \in Entry,
           NEW part \in {"some", "body", "line"}, AppendPart(p, part)
    PROVE  /\ DOMAIN files' \subseteq Slot /\ \A n \in DOMAIN files' : files'[n] \in Seq(FilePiece)
           /\ written' \in Seq(FilePiece) /\ unsynced' \in BOOLEAN
<1> DEFINE piece == [id |-> entry[p].id, part |-> part, bytes |-> PartBytes(part, entry[p].bytes)]
<1>1. piece \in FilePiece
    BY PartType
<1>2. \A s \in Seq(FilePiece) : Append(s, piece) \in Seq(FilePiece)
    BY <1>1, AppendPiece
<1> HIDE DEF piece
<1>3. files' = [files EXCEPT ![0] = Append(@, piece)] /\ written' = Append(written, piece)
      /\ unsynced' = TRUE
    BY DEF AppendPart, piece
<1> QED BY <1>2, <1>3 DEF JournalType

\* Creating or opening the log keeps the types of the files.
LEMMA OpenedType ==
    ASSUME JournalType, files' = [m \in DOMAIN files \cup {0} |-> Content(m)]
    PROVE  DOMAIN files' \subseteq Slot /\ \A n \in DOMAIN files' : files'[n] \in Seq(FilePiece)
BY EmptySeq, JournalConstants DEF JournalType, Content, Exists, Slot

\* The types only depend on the variables of the journal and on who is inside log().
LEMMA JournalTypeFrame ==
    ASSUME JournalType, UNCHANGED <<files, unsynced, entry, slot, memory, written, acked>>,
           \A q \in Process : pc'[q] \in LogLabel => pc[q] \in LogLabel
    PROVE  JournalType'
BY DEF JournalType

\* log() ends for p: it drops its entry.
LEMMA LogEndsType ==
    ASSUME LockInv, JournalType, NEW p \in Process, LogEnds(p)
    PROVE  /\ entry' \in [Process -> {NoEntry} \cup Entry]
           /\ \A q \in Process : pc'[q] \in LogLabel => entry'[q] \in Entry
BY DEF LockInv, JournalType, LogEnds, Return, Goto, LogLabel

\* The steps of one process in the journal keep its types.
LEMMA JournalTypeStep ==
    ASSUME LockInv, JournalType, calls \in 0 .. MaxCalls, JournalNext
    PROVE  JournalType'
<1> USE JournalConstants DEF journalVars, storageVars
<1>a. \A n \in DOMAIN files : files[n] \in Seq(FilePiece)
    BY DEF JournalType
<1>b. Content(0) \in Seq(FilePiece)
    BY <1>a, EmptySeq DEF Content, Exists
<1> SUFFICES ASSUME NEW p \in Process,
        \/ JournalStart(p) \/ Load(p) \/ LoadFails(p)
        \/ \E bytes \in EntrySizes : Log(p, bytes) \/ LogTooLarge(p, bytes)
        \/ Rotate(p) \/ Shift(p) \/ RotationFails(p)
        \/ OpenLog(p) \/ OpenLogFails(p) \/ Write(p) \/ WriteFails(p) \/ Sync(p) \/ SyncFails(p)
        \/ ClearMemory(p)
        \/ Export(p) \/ OpenExport(p) \/ OpenExportFails(p) \/ Copy(p) \/ Publish(p) \/ ExportFails(p)
      PROVE JournalType'
    BY DEF JournalNext
<1>1. CASE JournalStart(p) \/ LoadFails(p)
    BY <1>1, JournalTypeFrame DEF JournalStart, LoadFails, Acquire, Return, Goto, LockInv, LogLabel
<1>2. CASE Load(p)
  <2>1. Newest(MaxMemory, EntryIds(Content(0))) \in Seq(EntryId)
      BY <1>b, EntryIdsType, NewestType
  <2>2. \A q \in Process : pc'[q] \in LogLabel => pc[q] \in LogLabel
      BY <1>2 DEF Load, Return, Goto, LockInv, LogLabel
  <2> QED BY <1>2, <2>1, <2>2 DEF Load, JournalType
<1>3. ASSUME NEW bytes \in EntrySizes, Log(p, bytes) PROVE JournalType'
  <2>1. [id |-> calls', bytes |-> bytes] \in Entry
      BY <1>3, StorageConstants DEF Log, CountCall, Entry, EntryId
  <2>2. /\ entry' = [entry EXCEPT ![p] = [id |-> calls', bytes |-> bytes]]
        /\ UNCHANGED <<files, unsynced, slot, memory, written, acked>>
        /\ \A q \in Process : q # p => pc'[q] = pc[q]
      BY <1>3 DEF Log, Acquire, Goto, LockInv
  <2> QED BY <2>1, <2>2 DEF JournalType
<1>4. ASSUME NEW bytes \in EntrySizes, LogTooLarge(p, bytes) PROVE JournalType'
    BY <1>4, JournalTypeFrame DEF LogTooLarge
<1>5. CASE Rotate(p)
  <2>1. slot' \in Slot /\ UNCHANGED <<files, unsynced, entry, memory, written, acked>>
      BY <1>5 DEF Rotate, Slot, JournalType
  <2>2. \A q \in Process : pc'[q] \in LogLabel => pc[q] \in LogLabel
      BY <1>5 DEF Rotate, Goto, LockInv, LogLabel
  <2> QED BY <2>1, <2>2 DEF JournalType
<1>6. CASE Shift(p)
  <2>1. slot' \in Slot
      BY <1>6 DEF Shift, Slot, JournalType
  <2>2. DOMAIN files' \subseteq Slot /\ \A n \in DOMAIN files' : files'[n] \in Seq(FilePiece)
    <3>1. CASE files' = Restrict(files, DOMAIN files \ {slot}) \/ files' = files
        BY <3>1 DEF Restrict, JournalType
    <3>2. CASE slot < MaxArchives /\ Exists(slot) /\ RenameSlot(slot)
      <4>1. slot + 1 \in Slot /\ slot \in DOMAIN files
          BY <3>2 DEF Slot, Exists, JournalType
      <4>2. files' = [m \in (DOMAIN files \ {slot}) \cup {slot + 1} |->
                        IF m = slot + 1 THEN files[slot] ELSE files[m]]
          BY <3>2 DEF RenameSlot
      <4> QED BY <4>1, <4>2 DEF JournalType
    <3> QED BY <1>6, <3>1, <3>2 DEF Shift
  <2>3. unsynced' \in BOOLEAN /\ UNCHANGED <<entry, memory, written, acked>>
      BY <1>6 DEF Shift, RenameSlot, JournalType
  <2>4. \A q \in Process : pc'[q] \in LogLabel => pc[q] \in LogLabel
      BY <1>6 DEF Shift, Goto, LockInv, LogLabel
  <2> QED BY <2>1, <2>2, <2>3, <2>4 DEF JournalType
<1>7. CASE RotationFails(p) \/ SyncFails(p)
    BY <1>7, LogEndsType DEF RotationFails, SyncFails, JournalType
<1>8. CASE OpenLog(p)
  <2>1. \A q \in Process : pc'[q] \in LogLabel => pc[q] \in LogLabel
      BY <1>8 DEF OpenLog, Step, Goto, LockInv, LogLabel
  <2> QED BY <1>8, <2>1, OpenedType DEF OpenLog, JournalType
<1>9. CASE OpenLogFails(p)
    BY <1>9, LogEndsType, OpenedType DEF OpenLogFails, JournalType
<1>10. CASE Write(p)
  <2>1. entry[p] \in Entry
      BY <1>10 DEF Write, Step, JournalType, LogLabel
  <2>2. \A q \in Process : pc'[q] \in LogLabel => pc[q] \in LogLabel
      BY <1>10 DEF Write, Step, Goto, LockInv, LogLabel
  <2>3. AppendPart(p, "line") /\ UNCHANGED <<entry, slot, memory, acked>>
      BY <1>10 DEF Write
  <2> QED BY <2>1, <2>2, <2>3, AppendPartType DEF JournalType
<1>11. CASE WriteFails(p)
  <2>1. entry[p] \in Entry
      BY <1>11 DEF WriteFails, JournalType, LogLabel
  <2>2. /\ LogEnds(p) /\ UNCHANGED <<slot, memory, acked>>
        /\ UNCHANGED <<files, written, unsynced>>
           \/ \E part \in {"some", "body"} : AppendPart(p, part)
      BY <1>11 DEF WriteFails
  <2> QED BY <2>1, <2>2, LogEndsType, AppendPartType DEF JournalType
<1>12. CASE Sync(p)
  <2>1. entry[p].id \in EntryId
      BY <1>12 DEF Sync, JournalType, LogLabel, Entry
  <2>2. memory[p] \in Seq(EntryId)
      BY DEF JournalType
  <2>3. Newest(MaxMemory, Append(memory[p], entry[p].id)) \in Seq(EntryId)
      BY <2>1, <2>2, AppendProperties, NewestType
  <2> QED BY <1>12, <2>1, <2>3, LogEndsType DEF Sync, JournalType
<1>13. CASE ClearMemory(p)
    BY <1>13, EmptySeq DEF ClearMemory, JournalType
<1>14. CASE Export(p) \/ OpenExport(p) \/ OpenExportFails(p) \/ Copy(p) \/ Publish(p) \/ ExportFails(p)
    BY <1>14, JournalTypeFrame DEF Export, OpenExport, OpenExportFails, Copy, Publish, ExportFails,
       Acquire, Step, Return, Goto, LockInv, LogLabel
<1> QED BY <1>1, <1>2, <1>3, <1>4, <1>5, <1>6, <1>7, <1>8, <1>9, <1>10, <1>11, <1>12, <1>13, <1>14

\* A crash keeps the types of the journal.
LEMMA JournalCrashType ==
    ASSUME LockInv, JournalType, NEW p \in Process, Crash(p)
    PROVE  JournalType'
<1>1. /\ entry' = [entry EXCEPT ![p] = NoEntry] /\ memory' = [memory EXCEPT ![p] = << >>]
      /\ UNCHANGED <<slot, acked>>
      /\ pc' = [q \in Process |-> IF q = p THEN "down" ELSE pc[q]]
    BY DEF Crash, JournalCrash, Stop
<1>2. /\ entry' \in [Process -> {NoEntry} \cup Entry]
      /\ \A q \in Process : pc'[q] \in LogLabel => entry'[q] \in Entry
    BY <1>1 DEF JournalType, LogLabel
<1>3. memory' \in [Process -> Seq(EntryId)]
    BY <1>1, EmptySeq DEF JournalType
<1>4. \/ UNCHANGED <<files, written, unsynced>>
      \/ /\ entry[p] \in Entry
         /\ \E part \in {"some", "body"} : AppendPart(p, part)
    BY DEF Crash, JournalCrash, JournalType, LogLabel
<1> QED BY <1>1, <1>2, <1>3, <1>4, AppendPartType DEF JournalType

\* A line of which only a part reached the disk.
LEMMA ShorterPiece ==
    ASSUME NEW x \in FilePiece, x.part = "line", NEW part \in {"some", "body"}
    PROVE  [x EXCEPT !.part = part, !.bytes = PartBytes(part, @)] \in FilePiece
<1>1. x \in [id : EntryId, part : {"some", "body", "line"}, bytes : Nat] /\ x.bytes > 1
    BY DEF FilePiece, Piece
<1>2. PartBytes(part, x.bytes) \in Nat \ {0} /\ part # "line"
    BY <1>1 DEF PartBytes
<1> DEFINE y == [x EXCEPT !.part = part]
           b == PartBytes(part, x.bytes)
<1>3. y \in [id : EntryId, part : {"some", "body", "line"}, bytes : Nat] /\ y.part = part
      /\ y.bytes = x.bytes
    BY <1>1
<1>4. [x EXCEPT !.part = part, !.bytes = PartBytes(part, @)] = [y EXCEPT !.bytes = b]
    BY <1>1, <1>3
<1> HIDE DEF y, b
<1>5. [y EXCEPT !.bytes = b] \in FilePiece
    BY <1>2, <1>3 DEF FilePiece, Piece, b
<1> QED BY <1>4, <1>5

\* What a loss of power leaves: everything but the last piece, and perhaps a shorter one.
LEMMA PowerLossLeaves ==
    ASSUME JournalType, DurableInv, JournalPowerLoss
    PROVE  \/ UNCHANGED <<files, written>>
           \/ /\ unsynced
              /\ 0 \in DOMAIN files
              /\ \E tail \in Seq(FilePiece) :
                   /\ files' = [files EXCEPT ![0] = Front(@) \o tail]
                   /\ written' = Front(written) \o tail
<1>1. CASE UNCHANGED <<files, written>>
    BY <1>1
<1> DEFINE last == Last(files[0])
           Shorter(part) == [last EXCEPT !.part = part, !.bytes = PartBytes(part, @)]
<1>2. ASSUME unsynced, Content(0) # << >>,
             NEW tail,
             tail = << >> \/ \E part \in {"some", "body"} :
                               last.part = "line" /\ tail = <<Shorter(part)>>,
             files' = [files EXCEPT ![0] = Front(@) \o tail],
             written' = Front(written) \o tail
      PROVE  /\ 0 \in DOMAIN files /\ tail \in Seq(FilePiece)
  <2>1. 0 \in DOMAIN files /\ files[0] \in Seq(FilePiece) /\ files[0] # << >>
      BY <1>2 DEF Content, Exists, JournalType
  <2>2. last \in FilePiece
      BY <2>1, EmptySeq, ElementOfSeq DEF Last
  <2>3. CASE tail = << >>
      BY <2>1, <2>3, EmptySeq
  <2>4. ASSUME NEW part \in {"some", "body"}, tail = <<Shorter(part)>>, last.part = "line"
        PROVE  tail \in Seq(FilePiece)
    <3>1. Shorter(part) \in FilePiece
        BY <2>2, <2>4, ShorterPiece
    <3> HIDE DEF Shorter
    <3> QED BY <2>4, <3>1
  <2> QED BY <1>2, <2>1, <2>3, <2>4
<1> QED BY <1>1, <1>2 DEF JournalPowerLoss

\* A sequence without its last element, followed by another.
LEMMA FrontConcat ==
    ASSUME NEW s \in Seq(FilePiece), NEW t \in Seq(FilePiece), Len(s) > 0
    PROVE  /\ Front(s) \o t \in Seq(FilePiece)
           /\ Len(s) - 1 <= Len(Front(s) \o t) /\ Len(Front(s) \o t) \in Nat
           /\ \A i \in 1 .. Len(s) - 1 : (Front(s) \o t)[i] = s[i]
<1>1. Len(s) \in Nat /\ Len(t) \in Nat /\ \A i \in 1 .. Len(s) - 1 : s[i] \in FilePiece
    BY LenProperties, ElementOfSeq
<1>2. /\ Front(s) \in Seq(FilePiece) /\ Len(Front(s)) = Len(s) - 1
      /\ \A i \in 1 .. Len(s) - 1 : Front(s)[i] = s[i]
  <2> DEFINE k == Len(s) - 1
  <2>1. 1 \in Int /\ k \in Nat
      BY <1>1, LenProperties
  <2>2. Front(s) = SubSeq(s, 1, k) /\ \A i \in 1 .. k : s[i] \in FilePiece
      BY <1>1 DEF Front
  <2> HIDE DEF k
  <2>3. /\ Front(s) \in Seq(FilePiece)
        /\ Len(Front(s)) = IF 1 <= k THEN k - 1 + 1 ELSE 0
        /\ \A i \in 1 .. k - 1 + 1 : Front(s)[i] = s[1 + i - 1]
      BY <2>1, <2>2, SubSeqProperties
  <2>4. Len(Front(s)) = k
      BY <2>1, <2>3
  <2>5. \A i \in 1 .. k : Front(s)[i] = s[i]
      BY <2>1, <2>3
  <2> QED BY <2>3, <2>4, <2>5 DEF k
<1> QED BY <1>1, <1>2, ConcatProperties

\* A loss of power keeps the types of the journal.
LEMMA JournalPowerType ==
    ASSUME LockInv, JournalType, DurableInv, PowerLoss
    PROVE  JournalType'
<1>1. /\ JournalPowerLoss /\ unsynced' = FALSE
      /\ entry' = [p \in Process |-> NoEntry] /\ memory' = [p \in Process |-> << >>]
      /\ UNCHANGED <<slot, acked>>
      /\ pc' = [p \in Process |-> IF p \in Process THEN "down" ELSE pc[p]]
    BY DEF PowerLoss, JournalPowerLoss, Stop
<1>2. /\ entry' \in [Process -> {NoEntry} \cup Entry] /\ memory' \in [Process -> Seq(EntryId)]
      /\ \A q \in Process : pc'[q] \in LogLabel => entry'[q] \in Entry
    BY <1>1, EmptySeq DEF LogLabel
<1>3. /\ DOMAIN files' \subseteq Slot /\ \A n \in DOMAIN files' : files'[n] \in Seq(FilePiece)
      /\ written' \in Seq(FilePiece)
  <2>1. CASE UNCHANGED <<files, written>>
      BY <2>1 DEF JournalType
  <2>2. ASSUME unsynced, 0 \in DOMAIN files, NEW tail \in Seq(FilePiece),
               files' = [files EXCEPT ![0] = Front(@) \o tail],
               written' = Front(written) \o tail
        PROVE  /\ DOMAIN files' \subseteq Slot
               /\ \A n \in DOMAIN files' : files'[n] \in Seq(FilePiece)
               /\ written' \in Seq(FilePiece)
    <3>1. files[0] \in Seq(FilePiece) /\ written \in Seq(FilePiece) /\ Len(written) > 0
        BY <2>2 DEF JournalType, DurableInv
    <3>2. Front(written) \o tail \in Seq(FilePiece)
        BY <2>2, <3>1, FrontConcat
    <3>3. Front(files[0]) \o tail \in Seq(FilePiece)
      <4>1. CASE Len(files[0]) > 0
          BY <2>2, <3>1, <4>1, FrontConcat
      <4>2. CASE ~ (Len(files[0]) > 0)
        <5>1. Len(files[0]) = 0
            BY <3>1, <4>2, LenProperties
        <5>2. Front(files[0]) = << >>
            BY <5>1, SubSeqEmpty DEF Front
        <5> QED BY <5>2, ConcatEmptySeq
      <4> QED BY <4>1, <4>2
    <3> QED BY <2>2, <3>2, <3>3 DEF JournalType
  <2> QED BY <1>1, <2>1, <2>2, PowerLossLeaves
<1> QED BY <1>1, <1>2, <1>3 DEF JournalType

-----------------------------------------------------------------------------
(* Acknowledged entries are durable. *)

\* DurableInv depends on the history, on what is acknowledged and on who is about to be.
LEMMA DurableFrame ==
    ASSUME DurableInv, UNCHANGED <<unsynced, written, acked>>,
           \A q \in Process : pc'[q] = "log_sync" => pc[q] = "log_sync" /\ entry'[q] = entry[q]
    PROVE  DurableInv'
BY DEF DurableInv, LineWithin

\* After an append the new piece is the last one, and nothing acknowledged depends on it.
LEMMA DurableAppend ==
    ASSUME JournalType, DurableInv, NEW p \in Process, entry[p] \in Entry,
           NEW part \in {"some", "body", "line"}, AppendPart(p, part)
    PROVE  /\ unsynced' /\ Len(written') \in Nat /\ Len(written') > 0
           /\ \A n \in acked : LineWithin(n, Len(written') - 1, written')
           /\ written'[Len(written')].id = entry[p].id /\ written'[Len(written')].part = part
<1> DEFINE piece == [id |-> entry[p].id, part |-> part, bytes |-> PartBytes(part, entry[p].bytes)]
<1>1. piece \in FilePiece /\ piece.id = entry[p].id /\ piece.part = part
    BY PartType
<1>2. written' = Append(written, piece) /\ unsynced'
    BY DEF AppendPart
<1> HIDE DEF piece
<1>3. /\ Len(written) \in Nat /\ Len(written') = Len(written) + 1
      /\ \A i \in 1 .. Len(written) : written'[i] = written[i]
      /\ written'[Len(written) + 1] = piece
    BY <1>1, <1>2, AppendPiece DEF JournalType
<1>4. ASSUME NEW n \in acked PROVE LineWithin(n, Len(written), written')
  <2>1. PICK k \in {Len(written) - 1, Len(written)} : LineWithin(n, k, written)
      BY DEF DurableInv
  <2>2. PICK i \in 1 .. k : written[i].id = n /\ written[i].part = "line"
      BY <2>1 DEF LineWithin
  <2>3. i \in 1 .. Len(written)
      BY <1>3, <2>1, <2>2
  <2> QED BY <1>3, <2>2, <2>3 DEF LineWithin
<1> QED BY <1>1, <1>2, <1>3, <1>4

\* Nobody else is inside log() while p is inside its call.
LEMMA AloneInLog ==
    ASSUME LockInv, NEW p \in Process, pc[p] \notin {"down", "idle"},
           NEW q \in Process, q # p
    PROVE  pc[q] # "log_sync"
BY DEF LockInv

\* No step loses, or acknowledges too early, a line of the journal.
LEMMA DurableStep ==
    ASSUME LockInv, JournalType, DurableInv, JournalNext
    PROVE  DurableInv'
<1> USE DEF journalVars, storageVars
<1> SUFFICES ASSUME NEW p \in Process,
        \/ JournalStart(p) \/ Load(p) \/ LoadFails(p)
        \/ \E bytes \in EntrySizes : Log(p, bytes) \/ LogTooLarge(p, bytes)
        \/ Rotate(p) \/ Shift(p) \/ RotationFails(p)
        \/ OpenLog(p) \/ OpenLogFails(p) \/ Write(p) \/ WriteFails(p) \/ Sync(p) \/ SyncFails(p)
        \/ ClearMemory(p)
        \/ Export(p) \/ OpenExport(p) \/ OpenExportFails(p) \/ Copy(p) \/ Publish(p) \/ ExportFails(p)
      PROVE DurableInv'
    BY DEF JournalNext
<1>1. CASE \/ JournalStart(p) \/ Load(p) \/ LoadFails(p)
           \/ \E bytes \in EntrySizes : Log(p, bytes) \/ LogTooLarge(p, bytes)
           \/ Rotate(p) \/ ClearMemory(p)
  <2>1. \A q \in Process : pc'[q] = "log_sync" => pc[q] = "log_sync" /\ entry'[q] = entry[q]
      BY <1>1 DEF JournalStart, Load, LoadFails, Log, LogTooLarge, Rotate, ClearMemory, Acquire,
         Return, Goto, LockInv, JournalType
  <2>2. UNCHANGED <<unsynced, written, acked>>
      BY <1>1 DEF JournalStart, Load, LoadFails, Log, LogTooLarge, Rotate, ClearMemory
  <2> QED BY <2>1, <2>2, DurableFrame
<1>2. CASE RotationFails(p) \/ OpenLog(p) \/ OpenLogFails(p) \/ SyncFails(p)
  <2>1. \A q \in Process : pc'[q] = "log_sync" => pc[q] = "log_sync" /\ entry'[q] = entry[q]
      BY <1>2 DEF RotationFails, OpenLog, OpenLogFails, SyncFails, LogEnds, Step,
         Return, Goto, LockInv, JournalType
  <2>2. UNCHANGED <<unsynced, written, acked>>
      BY <1>2 DEF RotationFails, OpenLog, OpenLogFails, SyncFails
  <2> QED BY <2>1, <2>2, DurableFrame
<1>3. CASE Export(p) \/ OpenExport(p) \/ OpenExportFails(p) \/ Copy(p) \/ Publish(p) \/ ExportFails(p)
  <2>1. \A q \in Process : pc'[q] = "log_sync" => pc[q] = "log_sync" /\ entry'[q] = entry[q]
      BY <1>3 DEF Export, OpenExport, OpenExportFails, Copy, Publish, ExportFails, Acquire, Step,
         Return, Goto, LockInv, JournalType
  <2>2. UNCHANGED <<unsynced, written, acked>>
      BY <1>3 DEF Export, OpenExport, OpenExportFails, Copy, Publish, ExportFails
  <2> QED BY <2>1, <2>2, DurableFrame
<1>4. CASE Shift(p)
  <2>1. /\ UNCHANGED <<written, acked, entry>>
        /\ unsynced' = unsynced \/ \E n \in Slot : unsynced' = (unsynced /\ n # 0)
      BY <1>4 DEF Shift, RenameSlot, JournalType
  <2>2. \A q \in Process : pc'[q] = "log_sync" => pc[q] = "log_sync"
      BY <1>4 DEF Shift, Goto, LockInv
  <2>3. CASE unsynced' = unsynced
      BY <2>1, <2>2, <2>3, DurableFrame
  <2>4. CASE unsynced /\ ~ unsynced'
    <3>1. \A n \in acked : LineWithin(n, Len(written), written)
        BY <2>4, LenProperties DEF DurableInv, LineWithin, JournalType
    <3> QED BY <2>1, <2>2, <2>4, <3>1 DEF DurableInv
  <2>5. unsynced \in BOOLEAN
      BY DEF JournalType
  <2>6. unsynced' = unsynced \/ (unsynced /\ ~ unsynced')
      BY <2>1, <2>5
  <2> QED BY <2>3, <2>4, <2>6
<1>5. CASE Write(p)
  <2>1. entry[p] \in Entry /\ AppendPart(p, "line") /\ UNCHANGED <<acked, entry>>
      BY <1>5 DEF Write, Step, JournalType, LogLabel
  <2>2. \A q \in Process : pc'[q] = "log_sync" => q = p
      BY <1>5, AloneInLog DEF Write, Step, Goto, LockInv
  <2> QED BY <2>1, <2>2, DurableAppend DEF DurableInv
<1>6. CASE WriteFails(p)
  <2>1. \A q \in Process : pc'[q] # "log_sync"
      BY <1>6, AloneInLog DEF WriteFails, LogEnds, Return, Goto, LockInv
  <2>2. entry[p] \in Entry /\ acked' = acked
      BY <1>6 DEF WriteFails, JournalType, LogLabel
  <2>3. CASE UNCHANGED <<files, written, unsynced>>
      BY <2>1, <2>2, <2>3, DurableFrame
  <2>4. ASSUME NEW part \in {"some", "body"}, AppendPart(p, part) PROVE DurableInv'
      BY <2>1, <2>2, <2>4, DurableAppend DEF DurableInv
  <2> QED BY <1>6, <2>3, <2>4 DEF WriteFails
<1>7. CASE Sync(p)
  <2>1. \A q \in Process : pc'[q] # "log_sync"
      BY <1>7, AloneInLog DEF Sync, LogEnds, Return, Goto, LockInv
  <2>2. unsynced' = FALSE /\ acked' = acked \cup {entry[p].id} /\ written' = written
      BY <1>7 DEF Sync
  <2>3. Len(written) \in Nat
      BY LenProperties DEF JournalType
  <2>4. LineWithin(entry[p].id, Len(written), written)
      BY <1>7, <2>3 DEF Sync, DurableInv, LineWithin
  <2>5. \A n \in acked : LineWithin(n, Len(written), written)
      BY <2>3 DEF DurableInv, LineWithin
  <2> QED BY <2>1, <2>2, <2>4, <2>5 DEF DurableInv
<1> QED BY <1>1, <1>2, <1>3, <1>4, <1>5, <1>6, <1>7

\* A crash of a process cuts at most its own append.
LEMMA DurableCrash ==
    ASSUME LockInv, JournalType, DurableInv, NEW p \in Process, Crash(p)
    PROVE  DurableInv'
<1>1. /\ acked' = acked /\ entry' = [entry EXCEPT ![p] = NoEntry]
      /\ pc' = [q \in Process |-> IF q = p THEN "down" ELSE pc[q]]
    BY DEF Crash, JournalCrash, Stop
<1>2. CASE UNCHANGED <<files, written, unsynced>>
    BY <1>1, <1>2, DurableFrame DEF JournalType
<1>3. ASSUME pc[p] = "log_write", NEW part \in {"some", "body"}, AppendPart(p, part)
      PROVE  DurableInv'
  <2>1. \A q \in Process : pc'[q] # "log_sync"
      BY <1>1, <1>3, AloneInLog
  <2>2. entry[p] \in Entry
      BY <1>3 DEF JournalType, LogLabel
  <2> QED BY <1>1, <1>3, <2>1, <2>2, DurableAppend DEF DurableInv
<1> QED BY <1>2, <1>3 DEF Crash, JournalCrash

\* A loss of power takes at most the piece that was not flushed.
LEMMA DurablePowerLoss ==
    ASSUME LockInv, JournalType, DurableInv, PowerLoss
    PROVE  DurableInv'
<1>1. /\ JournalPowerLoss /\ unsynced' = FALSE /\ acked' = acked
      /\ \A q \in Process : pc'[q] # "log_sync"
    BY DEF PowerLoss, JournalPowerLoss, Stop
<1>2. written \in Seq(FilePiece) /\ Len(written) \in Nat
    BY LenProperties DEF JournalType
<1>3. CASE UNCHANGED <<files, written>>
  <2>1. \A n \in acked : LineWithin(n, Len(written), written)
      BY <1>2 DEF DurableInv, LineWithin
  <2> QED BY <1>1, <1>3, <2>1 DEF DurableInv
<1>4. ASSUME unsynced, NEW tail \in Seq(FilePiece), written' = Front(written) \o tail
      PROVE  DurableInv'
  <2>1. Len(written) > 0 /\ \A n \in acked : LineWithin(n, Len(written) - 1, written)
      BY <1>4 DEF DurableInv
  <2>2. /\ Len(written) - 1 <= Len(written') /\ Len(written') \in Nat
        /\ \A i \in 1 .. Len(written) - 1 : written'[i] = written[i]
      BY <1>2, <1>4, <2>1, FrontConcat
  <2>3. ASSUME NEW n \in acked PROVE LineWithin(n, Len(written'), written')
      BY <1>2, <2>1, <2>2 DEF LineWithin
  <2> QED BY <1>1, <2>3 DEF DurableInv
<1> QED BY <1>1, <1>3, <1>4, PowerLossLeaves

-----------------------------------------------------------------------------
(* Captures. *)

\* SnapInv depends on the snapshots and on which label inside a capture a process is at.
LEMMA SnapFrame ==
    ASSUME SnapInv, UNCHANGED snapshotVars,
           \A q \in Process : pc'[q] = pc[q] \/ (pc[q] \notin SnapLabel /\ pc'[q] \notin SnapLabel)
    PROVE  SnapInv'
<1> USE DEF SnapInv, snapshotVars, Held
<1>1. SnapshotType' /\ OwnerInv' /\ CompleteInv' /\ HeldSnapshotIntact' /\ FailedSnapshotLeavesNothing'
    BY DEF SnapshotType, OwnerInv, CompleteInv, HeldSnapshotIntact, FailedSnapshotLeavesNothing
<1>2. CaptureInv'
    BY DEF CaptureInv, SnapLabel
<1> QED BY <1>1, <1>2

\* While p captures, no other process is inside a call and none holds p's snapshot.
LEMMA AloneInCapture ==
    ASSUME LockInv, SnapInv, NEW p \in Process, pc[p] \in SnapLabel
    PROVE  /\ current[p] \in DOMAIN snapshots /\ snapshots[current[p]].end = "running"
           /\ DOMAIN snapshots = 1 .. Len(snapshots) /\ Len(snapshots) \in Nat
           /\ \A q \in Process : q # p => /\ pc[q] \notin SnapLabel /\ current[q] = 0
                                          /\ current[p] \notin held[q]
<1>1. lock = {p}
    BY DEF LockInv, SnapLabel, UnheldLabel, HeldLabel
<1>2. \A q \in Process : q # p => pc[q] \notin SnapLabel
    BY <1>1 DEF LockInv, SnapLabel, UnheldLabel, HeldLabel
<1>3. DOMAIN snapshots = 1 .. Len(snapshots) /\ Len(snapshots) \in Nat
    BY LenProperties DEF SnapInv, SnapshotType
<1> QED BY <1>2, <1>3 DEF SnapInv, CaptureInv, OwnerInv

\* A step of the capture of p: its snapshot becomes x, and p goes on at label l.
LEMMA CaptureUpdate ==
    ASSUME LockInv, SnapInv, NEW p \in Process, pc[p] \in SnapLabel,
           NEW x \in Snapshot, NEW l,
           snapshots' = [snapshots EXCEPT ![current[p]] = x],
           pc' = [pc EXCEPT ![p] = l],
           purged' = purged,
           \/ held' = held
           \/ held' = [held EXCEPT ![p] = @ \ {current[p]}]
           \/ held' = [held EXCEPT ![p] = @ \cup {current[p]}],
           current[p] \in held'[p] => x.hive = "whole",
           x.end = "ok" => x.meta = "whole" /\ x.hive = "whole",
           x.end = "failed" => x.hive = "none" /\ x.meta \in {"none", "stray"},
           IF l \in SnapLabel
           THEN /\ current' = current /\ x.end = "running"
                /\ l \in UnheldLabel => current[p] \notin held'[p] /\ x.meta = "none"
                /\ l \in HeldLabel => current[p] \in held'[p]
           ELSE current' = [current EXCEPT ![p] = 0]
    PROVE  SnapInv'
<1> DEFINE c == current[p]
<1>1. /\ c \in DOMAIN snapshots /\ DOMAIN snapshots = 1 .. Len(snapshots)
      /\ \A q \in Process : q # p => pc[q] \notin SnapLabel /\ current[q] = 0 /\ c \notin held[q]
    BY AloneInCapture
<1>2. /\ snapshots' \in Seq(Snapshot) /\ DOMAIN snapshots' = DOMAIN snapshots
      /\ snapshots'[c] = x /\ \A n \in DOMAIN snapshots : n # c => snapshots'[n] = snapshots[n]
    BY <1>1, ExceptSeq, LenProperties DEF SnapInv, SnapshotType
<1>3. /\ held' \in [Process -> SUBSET DOMAIN snapshots]
      /\ held'[p] \subseteq held[p] \cup {c}
      /\ \A q \in Process : q # p => held'[q] = held[q]
    BY <1>1 DEF SnapInv, SnapshotType
<1>4. /\ current' \in [Process -> {0} \cup DOMAIN snapshots]
      /\ \A q \in Process : q # p => current'[q] = current[q]
      /\ current'[p] \in {0, c}
    BY <1>1 DEF SnapInv, SnapshotType
<1>5. /\ pc'[p] = l /\ \A q \in Process : q # p => pc'[q] = pc[q]
    BY DEF LockInv
<1>6. SnapshotType'
    BY <1>2, <1>3, <1>4 DEF SnapInv, SnapshotType
<1>7. CaptureInv'
  <2>1. ASSUME NEW q \in Process, q # p PROVE pc'[q] \notin SnapLabel /\ current'[q] = 0
      BY <1>1, <1>4, <1>5, <2>1
  <2>2. CASE l \in SnapLabel
    <3>1. current'[p] = c /\ l \in UnheldLabel \cup HeldLabel
        BY <2>2 DEF SnapLabel
    <3>2. c \notin held'[p] => \A q \in Process : c \notin held'[q]
        BY <1>1, <1>3
    <3>3. \A q \in Process : q # p => ~ (pc'[q] \in SnapLabel) /\ current'[q] = 0
        BY <2>1
    <3> QED BY <1>1, <1>2, <1>5, <2>2, <3>1, <3>2, <3>3 DEF CaptureInv, Held
  <2>3. CASE l \notin SnapLabel
    <3>1. current'[p] = 0
        BY <2>3 DEF SnapInv, SnapshotType
    <3> QED BY <1>5, <2>1, <2>3, <3>1 DEF CaptureInv
  <2> QED BY <2>2, <2>3
<1>8. OwnerInv'
  <2>1. \A q \in Process : 0 \notin held[q]
      BY <1>1, LenProperties DEF SnapInv, SnapshotType
  <2>2. 0 \notin DOMAIN snapshots
      BY <1>1
  <2> QED BY <1>1, <1>3, <1>4, <2>1, <2>2 DEF SnapInv, OwnerInv
<1>9. CompleteInv' /\ FailedSnapshotLeavesNothing'
    BY <1>2 DEF SnapInv, CompleteInv, FailedSnapshotLeavesNothing
<1>10. HeldSnapshotIntact'
  <2>1. ASSUME NEW q \in Process, NEW n \in held'[q] PROVE snapshots'[n].hive = "whole"
    <3>1. CASE n = c
        BY <1>1, <1>2, <1>3, <2>1, <3>1
    <3>2. CASE n # c
        BY <1>2, <1>3, <2>1, <3>2 DEF SnapInv, HeldSnapshotIntact, SnapshotType
    <3> QED BY <3>1, <3>2
  <2> QED BY <2>1 DEF HeldSnapshotIntact
<1> QED BY <1>6, <1>7, <1>8, <1>9, <1>10 DEF SnapInv

\* Every step of a capture is such an update.
LEMMA CaptureStep ==
    ASSUME LockInv, SnapInv, NEW p \in Process,
           \/ SaveKey(p) \/ SaveKeyFails(p) \/ DiscardHive(p)
           \/ OpenArtifact(p) \/ OpenArtifactFails(p)
           \/ CreateMetadata(p) \/ CreateMetadataFails(p)
           \/ WriteMetadata(p) \/ WriteMetadataFails(p)
           \/ FinishSnapshot(p) \/ PrivilegesKept(p) \/ UndoCapture(p)
    PROVE  SnapInv'
<1> USE DEF UnheldLabel, HeldLabel, SnapLabel
<1> DEFINE c == current[p]
           s == snapshots[current[p]]
<1>1. pc[p] \in SnapLabel
    BY DEF SaveKey, SaveKeyFails, DiscardHive, OpenArtifact, OpenArtifactFails, CreateMetadata,
       CreateMetadataFails, WriteMetadata, WriteMetadataFails, FinishSnapshot, PrivilegesKept,
       UndoCapture, Step
<1>2. c \in DOMAIN snapshots /\ s \in Snapshot /\ s.end = "running"
    BY <1>1, AloneInCapture, ElementOfSeq DEF SnapInv, SnapshotType
<1>3. /\ pc[p] \in UnheldLabel => c \notin held[p] /\ s.meta = "none"
      /\ pc[p] \in HeldLabel => c \in held[p] /\ s.hive = "whole"
    BY <1>1 DEF SnapInv, CaptureInv, Held, HeldSnapshotIntact
<1>4. held \in [Process -> SUBSET DOMAIN snapshots]
    BY DEF SnapInv, SnapshotType
<1>5. snapshots = [snapshots EXCEPT ![c] = s]
    BY <1>2, LenProperties DEF SnapInv, SnapshotType
<1>6. s \in [hive : {"none", "partial", "whole"}, meta : {"none", "torn", "whole", "stray"},
             end  : {"running", "ok", "failed", "unclean", "crashed"}]
    BY <1>2 DEF Snapshot
<1>7. ASSUME NEW h \in {"none", "partial", "whole"},
             snapshots' = [snapshots EXCEPT ![current[p]].hive = h]
      PROVE  \E x \in Snapshot : /\ snapshots' = [snapshots EXCEPT ![c] = x]
                                 /\ x.hive = h /\ x.meta = s.meta /\ x.end = "running"
  <2> DEFINE x == [s EXCEPT !.hive = h]
  <2>1. x \in Snapshot /\ x.hive = h /\ x.meta = s.meta /\ x.end = "running"
      BY <1>2, <1>6 DEF Snapshot
  <2>2. snapshots' = [snapshots EXCEPT ![c] = x]
      BY <1>7
  <2> QED BY <2>1, <2>2
<1>8. ASSUME NEW m \in {"none", "torn", "whole", "stray"},
             snapshots' = [snapshots EXCEPT ![current[p]].meta = m]
      PROVE  \E x \in Snapshot : /\ snapshots' = [snapshots EXCEPT ![c] = x]
                                 /\ x.hive = s.hive /\ x.meta = m /\ x.end = "running"
  <2> DEFINE x == [s EXCEPT !.meta = m]
  <2>1. x \in Snapshot /\ x.hive = s.hive /\ x.meta = m /\ x.end = "running"
      BY <1>2, <1>6 DEF Snapshot
  <2>2. snapshots' = [snapshots EXCEPT ![c] = x]
      BY <1>8
  <2> QED BY <2>1, <2>2
<1> HIDE DEF s
<1>9. CASE SaveKey(p)
  <2>1. PICK v \in {"whole"}, x \in Snapshot :
            /\ snapshots' = [snapshots EXCEPT ![c] = x]
            /\ x.hive = v /\ x.meta = s.meta /\ x.end = "running"
      BY <1>7, <1>9 DEF SaveKey
  <2> QED BY <1>1, <1>3, <1>9, <2>1, CaptureUpdate DEF SaveKey, Step, Goto
<1>10. CASE SaveKeyFails(p)
  <2>1. PICK v \in {"none", "partial"}, x \in Snapshot :
            /\ snapshots' = [snapshots EXCEPT ![c] = x]
            /\ x.hive = v /\ x.meta = s.meta /\ x.end = "running"
      BY <1>7, <1>10 DEF SaveKeyFails
  <2> QED BY <1>1, <1>3, <1>10, <2>1, CaptureUpdate DEF SaveKeyFails, Goto
<1>11. CASE DiscardHive(p)
    BY <1>1, <1>2, <1>3, <1>6, <1>11, CaptureUpdate DEF DiscardHive, CaptureEnds, Return, Goto, Snapshot, s
<1>12. CASE OpenArtifact(p)
    BY <1>1, <1>2, <1>4, <1>5, <1>12, CaptureUpdate DEF OpenArtifact, Step, Goto, s
<1>13. CASE OpenArtifactFails(p)
    BY <1>1, <1>2, <1>3, <1>5, <1>13, CaptureUpdate DEF OpenArtifactFails, Goto, snapshotVars
<1>14. CASE CreateMetadata(p)
  <2>1. PICK v \in {"torn"}, x \in Snapshot :
            /\ snapshots' = [snapshots EXCEPT ![c] = x]
            /\ x.meta = v /\ x.hive = s.hive /\ x.end = "running"
      BY <1>8, <1>14 DEF CreateMetadata
  <2> QED BY <1>1, <1>3, <1>14, <2>1, CaptureUpdate DEF CreateMetadata, Step, Goto
<1>15. CASE CreateMetadataFails(p)
  <2>1. PICK v \in {"none", "stray"}, x \in Snapshot :
            /\ snapshots' = [snapshots EXCEPT ![c] = x]
            /\ x.meta = v /\ x.hive = s.hive /\ x.end = "running"
      BY <1>8, <1>15 DEF CreateMetadataFails
  <2> QED BY <1>1, <1>3, <1>15, <2>1, CaptureUpdate DEF CreateMetadataFails, Goto
<1>16. CASE WriteMetadata(p)
  <2>1. PICK v \in {"whole"}, x \in Snapshot :
            /\ snapshots' = [snapshots EXCEPT ![c] = x]
            /\ x.meta = v /\ x.hive = s.hive /\ x.end = "running"
      BY <1>8, <1>16 DEF WriteMetadata
  <2> QED BY <1>1, <1>3, <1>16, <2>1, CaptureUpdate DEF WriteMetadata, Step, Goto
<1>17. CASE WriteMetadataFails(p) \/ PrivilegesKept(p)
    BY <1>1, <1>2, <1>3, <1>5, <1>17, CaptureUpdate DEF WriteMetadataFails, PrivilegesKept, Goto,
       snapshotVars
<1>18. CASE FinishSnapshot(p)
    BY <1>1, <1>2, <1>3, <1>6, <1>18, CaptureUpdate DEF FinishSnapshot, CaptureEnds, Return, Goto,
       Snapshot, s
<1>19. CASE UndoCapture(p)
  <2>1. held' = [held EXCEPT ![p] = @ \ {c}] /\ c \notin held'[p] /\ purged' = purged
      BY <1>4, <1>19 DEF UndoCapture
  <2>2. \E x \in Snapshot :
            /\ snapshots' = [snapshots EXCEPT ![c] = x]
            /\ \/ x.end = "failed" /\ x.hive = "none" /\ x.meta \in {"none", "stray"}
               \/ x.end = "unclean"
            /\ current' = [current EXCEPT ![p] = 0] /\ pc' = [pc EXCEPT ![p] = "idle"]
      BY <1>6, <1>19 DEF UndoCapture, CaptureEnds, Return, Goto, Snapshot, s
  <2> QED BY <1>1, <2>1, <2>2, CaptureUpdate, ZenonT(60)
<1> QED BY <1>9, <1>10, <1>11, <1>12, <1>13, <1>14, <1>15, <1>16, <1>17, <1>18, <1>19

\* A new capture starts a snapshot nobody knows.
LEMMA CreateStep ==
    ASSUME LockInv, SnapInv, NEW p \in Process, CreateSnapshot(p)
    PROVE  SnapInv'
<1> DEFINE x == [hive |-> "none", meta |-> "none", end |-> "running"]
           c == Len(snapshots) + 1
<1>1. /\ x \in Snapshot /\ snapshots \in Seq(Snapshot) /\ snapshots' = Append(snapshots, x)
      /\ current' = [current EXCEPT ![p] = c] /\ UNCHANGED <<held, purged>>
      /\ pc' = [pc EXCEPT ![p] = "snap_save"] /\ lock = {}
    BY DEF CreateSnapshot, Acquire, Goto, Snapshot, SnapInv, SnapshotType
<1>2. /\ snapshots' \in Seq(Snapshot) /\ Len(snapshots) \in Nat
      /\ DOMAIN snapshots = 1 .. Len(snapshots) /\ DOMAIN snapshots' = 1 .. c
      /\ snapshots'[c] = x /\ \A n \in DOMAIN snapshots : snapshots'[n] = snapshots[n]
  <2>1. /\ Append(snapshots, x) \in Seq(Snapshot) /\ Len(Append(snapshots, x)) = Len(snapshots) + 1
        /\ \A i \in 1 .. Len(snapshots) : Append(snapshots, x)[i] = snapshots[i]
        /\ Append(snapshots, x)[Len(snapshots) + 1] = x
      BY <1>1, AppendProperties
  <2>2. /\ Len(snapshots) \in Nat /\ DOMAIN snapshots = 1 .. Len(snapshots)
        /\ DOMAIN snapshots' = 1 .. Len(snapshots')
      BY <1>1, <2>1, LenProperties
  <2> QED BY <1>1, <2>1, <2>2
<1>3. DOMAIN snapshots \subseteq DOMAIN snapshots' /\ c \in DOMAIN snapshots' /\ c \notin DOMAIN snapshots
      /\ 0 \notin DOMAIN snapshots
    BY <1>2
<1>4. x.hive = "none" /\ x.meta = "none" /\ x.end = "running"
    OBVIOUS
<1> HIDE DEF x, c
<1>5. \A q \in Process : pc[q] \notin SnapLabel /\ current[q] = 0
    BY <1>1 DEF LockInv, SnapInv, CaptureInv, SnapLabel, UnheldLabel, HeldLabel
<1>6. \A q \in Process : held[q] \subseteq DOMAIN snapshots
    BY DEF SnapInv, SnapshotType
<1>7. \A n \in DOMAIN snapshots' : n \in DOMAIN snapshots \/ n = c
    BY <1>2 DEF c
<1>8. SnapshotType'
    BY <1>1, <1>2, <1>3 DEF SnapInv, SnapshotType
<1>9. CaptureInv'
  <2>1. pc'[p] = "snap_save" /\ current'[p] = c
        /\ \A q \in Process : q # p => pc'[q] = pc[q] /\ current'[q] = current[q]
      BY <1>1 DEF LockInv, SnapInv, SnapshotType
  <2>2. \A q \in Process : c \notin held'[q]
      BY <1>1, <1>3, <1>6
  <2> QED BY <1>2, <1>3, <1>4, <1>5, <2>1, <2>2 DEF CaptureInv, Held, SnapLabel, UnheldLabel, HeldLabel
<1>10. OwnerInv'
  <2>1. \A q \in Process : current'[q] \in {c, 0}
      BY <1>1, <1>5 DEF SnapInv, SnapshotType
  <2> QED BY <1>1, <1>3, <1>6, <2>1 DEF SnapInv, OwnerInv
<1>11. CompleteInv' /\ FailedSnapshotLeavesNothing'
    BY <1>1, <1>2, <1>4, <1>7 DEF SnapInv, CompleteInv, FailedSnapshotLeavesNothing
<1>12. HeldSnapshotIntact'
    BY <1>1, <1>2, <1>6 DEF SnapInv, HeldSnapshotIntact
<1> QED BY <1>8, <1>9, <1>10, <1>11, <1>12 DEF SnapInv

\* An administrator's removal reaches no hive that a process holds.
LEMMA PurgeStep ==
    ASSUME SnapInv, NEW n \in DOMAIN snapshots, Purge(n)
    PROVE  SnapInv'
<1> DEFINE x == [snapshots[n] EXCEPT !.hive = "none"]
<1>1. /\ snapshots \in Seq(Snapshot) /\ DOMAIN snapshots = 1 .. Len(snapshots)
      /\ snapshots[n] \in Snapshot
    BY LenProperties, ElementOfSeq DEF SnapInv, SnapshotType
<1>2. /\ x \in Snapshot /\ x.hive = "none" /\ x.meta = snapshots[n].meta /\ x.end = snapshots[n].end
    BY <1>1 DEF Snapshot
<1>3. /\ snapshots' = [snapshots EXCEPT ![n] = x] /\ purged' = purged \cup {n}
      /\ UNCHANGED <<pc, current, held>> /\ ~ Held(n)
    BY DEF Purge, PurgeAllowed, storageVars
<1> HIDE DEF x
<1>4. /\ snapshots' \in Seq(Snapshot) /\ DOMAIN snapshots' = DOMAIN snapshots
      /\ snapshots'[n] = x /\ \A m \in DOMAIN snapshots : m # n => snapshots'[m] = snapshots[m]
    BY <1>1, <1>2, <1>3, ExceptSeq, LenProperties
<1>5. SnapshotType'
    BY <1>3, <1>4 DEF SnapInv, SnapshotType
<1>6. CaptureInv'
    BY <1>2, <1>3, <1>4 DEF SnapInv, CaptureInv, Held
<1>7. OwnerInv' /\ CompleteInv' /\ FailedSnapshotLeavesNothing'
    BY <1>2, <1>3, <1>4 DEF SnapInv, OwnerInv, CompleteInv, FailedSnapshotLeavesNothing
<1>8. HeldSnapshotIntact'
    BY <1>3, <1>4 DEF SnapInv, SnapshotType, HeldSnapshotIntact, Held
<1> QED BY <1>5, <1>6, <1>7, <1>8 DEF SnapInv

\* The end of a transaction drops handles only outside a capture.
LEMMA TransactionStep ==
    ASSUME SnapInv, NEW p \in Process, TransactionEnds(p)
    PROVE  SnapInv'
<1>1. /\ held' = [held EXCEPT ![p] = {}] /\ UNCHANGED <<pc, snapshots, current, purged>>
      /\ pc[p] \notin SnapLabel
    BY DEF TransactionEnds, storageVars, SnapLabel, UnheldLabel, HeldLabel
<1>2. /\ held' \in [Process -> SUBSET DOMAIN snapshots]
      /\ held'[p] = {} /\ \A q \in Process : q # p => held'[q] = held[q]
    BY <1>1 DEF SnapInv, SnapshotType
<1>3. SnapshotType' /\ OwnerInv' /\ CompleteInv' /\ FailedSnapshotLeavesNothing'
    BY <1>1, <1>2 DEF SnapInv, SnapshotType, OwnerInv, CompleteInv, FailedSnapshotLeavesNothing
<1>4. CaptureInv'
    BY <1>1, <1>2 DEF SnapInv, CaptureInv, Held
<1>5. HeldSnapshotIntact'
    BY <1>1, <1>2 DEF SnapInv, HeldSnapshotIntact
<1> QED BY <1>3, <1>4, <1>5 DEF SnapInv

\* A crash ends the captures and closes the handles of the processes it stops.
LEMMA SnapshotCrashStep ==
    ASSUME LockInv, SnapInv, NEW ps \in SUBSET Process, SnapshotCrash(ps),
           pc' = [p \in Process |-> IF p \in ps THEN "down" ELSE pc[p]]
    PROVE  SnapInv'
<1>1. PICK hive \in {"none", "partial"} :
          snapshots' = [n \in DOMAIN snapshots |->
             IF \E p \in ps : current[p] = n
               THEN [snapshots[n] EXCEPT !.end = "crashed",
                       !.hive = IF \E p \in ps : current[p] = n /\ pc[p] = "snap_save"
                                  THEN hive ELSE @]
               ELSE snapshots[n]]
    BY DEF SnapshotCrash
<1>2. /\ current' = [p \in Process |-> IF p \in ps THEN 0 ELSE current[p]]
      /\ held' = [p \in Process |-> IF p \in ps THEN {} ELSE held[p]]
      /\ purged' = purged
    BY DEF SnapshotCrash
<1>3. /\ snapshots \in Seq(Snapshot) /\ Len(snapshots) \in Nat
      /\ DOMAIN snapshots = 1 .. Len(snapshots) /\ snapshots \in [1 .. Len(snapshots) -> Snapshot]
    BY LenProperties DEF SnapInv, SnapshotType
<1>4. ASSUME NEW n \in DOMAIN snapshots
      PROVE  /\ snapshots'[n] \in Snapshot
             /\ \/ snapshots'[n] = snapshots[n] /\ \A p \in ps : current[p] # n
                \/ /\ snapshots'[n].end = "crashed"
                   /\ \/ snapshots'[n].hive = snapshots[n].hive
                      \/ \E p \in ps : current[p] = n /\ pc[p] = "snap_save"
  <2>1. CASE \A p \in ps : current[p] # n
      BY <1>1, <1>3, <2>1
  <2>2. CASE \E p \in ps : current[p] = n
    <3> DEFINE h == IF \E p \in ps : current[p] = n /\ pc[p] = "snap_save"
                    THEN hive ELSE snapshots[n].hive
               y == [snapshots[n] EXCEPT !.end = "crashed"]
    <3>1. snapshots[n] \in Snapshot
        BY <1>3
    <3>2. y \in Snapshot /\ y.end = "crashed" /\ y.hive = snapshots[n].hive
        BY <3>1 DEF Snapshot
    <3>3. h \in {"none", "partial", "whole"}
        BY <3>1 DEF Snapshot
    <3>4. snapshots'[n] = [y EXCEPT !.hive = h]
        BY <1>1, <2>2, <3>1, <3>2 DEF Snapshot
    <3> HIDE DEF y
    <3>5. [y EXCEPT !.hive = h] \in Snapshot /\ [y EXCEPT !.hive = h].end = "crashed"
          /\ [y EXCEPT !.hive = h].hive = h
        BY <3>2, <3>3 DEF Snapshot
    <3> QED BY <3>4, <3>5
  <2> QED BY <2>1, <2>2
<1>5. DOMAIN snapshots' = DOMAIN snapshots /\ snapshots' \in Seq(Snapshot)
  <2>1. snapshots' \in [1 .. Len(snapshots) -> Snapshot]
      BY <1>1, <1>3, <1>4
  <2> QED BY <1>3, <2>1
<1>6. SnapshotType'
    BY <1>2, <1>5 DEF SnapInv, SnapshotType
<1>7. ASSUME NEW p \in Process, pc[p] = "snap_save" PROVE \A q \in Process : current[p] \notin held[q]
    BY <1>7 DEF SnapInv, CaptureInv, Held, SnapLabel, UnheldLabel
<1>8. CaptureInv'
  <2>1. ASSUME NEW q \in Process, q \notin ps, pc[q] \in SnapLabel
        PROVE  /\ current[q] \in DOMAIN snapshots /\ snapshots'[current[q]] = snapshots[current[q]]
    <3>1. current[q] \in DOMAIN snapshots /\ \A p \in Process : p # q => current[p] = 0
        BY <2>1, AloneInCapture
    <3>2. \A p \in ps : current[p] # current[q]
        BY <1>3, <2>1, <3>1
    <3> QED BY <1>1, <3>1, <3>2
  <2>2. ASSUME NEW q \in Process, q \in ps PROVE pc'[q] \notin SnapLabel /\ current'[q] = 0
      BY <1>2, <2>2 DEF SnapLabel, UnheldLabel, HeldLabel
  <2>3. ASSUME NEW q \in Process, q \notin ps
        PROVE  /\ pc'[q] = pc[q] /\ current'[q] = current[q] /\ held'[q] = held[q]
               /\ \A n : ~ Held(n) => \A r \in Process : n \notin held'[r]
      BY <1>2, <2>3 DEF Held
  <2>4. ASSUME NEW q \in Process, q \notin ps
        PROVE  IF pc'[q] \in SnapLabel
               THEN /\ current'[q] \in DOMAIN snapshots' /\ snapshots'[current'[q]].end = "running"
                    /\ pc'[q] \in UnheldLabel => /\ \A r \in Process : current'[q] \notin held'[r]
                                                 /\ snapshots'[current'[q]].meta = "none"
                    /\ pc'[q] \in HeldLabel => current'[q] \in held'[q]
               ELSE current'[q] = 0
      BY <1>5, <2>1, <2>3, <2>4 DEF SnapInv, CaptureInv
  <2> QED BY <2>2, <2>4 DEF CaptureInv, Held
<1>9. OwnerInv'
  <2>1. 0 \notin DOMAIN snapshots
      BY <1>3
  <2> QED BY <1>2, <2>1 DEF SnapInv, SnapshotType, OwnerInv
<1>10. CompleteInv' /\ FailedSnapshotLeavesNothing'
    BY <1>2, <1>4, <1>5 DEF SnapInv, CompleteInv, FailedSnapshotLeavesNothing
<1>11. HeldSnapshotIntact'
  <2>1. ASSUME NEW q \in Process, NEW n \in held'[q] PROVE snapshots'[n].hive = "whole"
    <3>1. n \in held[q] /\ n \in DOMAIN snapshots /\ snapshots[n].hive = "whole"
        BY <1>2 DEF SnapInv, SnapshotType, HeldSnapshotIntact
    <3>2. snapshots'[n].hive = snapshots[n].hive
        BY <1>4, <1>7, <3>1
    <3> QED BY <3>1, <3>2
  <2> QED BY <2>1 DEF HeldSnapshotIntact
<1> QED BY <1>6, <1>8, <1>9, <1>10, <1>11 DEF SnapInv

-----------------------------------------------------------------------------
(* The store. *)

\* The journal's steps leave the captures alone.
LEMMA JournalKeepsSnapshots ==
    ASSUME LockInv, SnapInv, JournalNext, UNCHANGED snapshotVars
    PROVE  SnapInv'
<1>1. \A q \in Process : pc'[q] = pc[q] \/ (pc[q] \notin SnapLabel /\ pc'[q] \notin SnapLabel)
  <2> USE DEF SnapLabel, UnheldLabel, HeldLabel, Acquire, Step, Return, LogEnds, Goto, LockInv,
      storageVars
  <2>1. ASSUME NEW p \in Process,
               \/ JournalStart(p) \/ Load(p) \/ LoadFails(p)
               \/ \E bytes \in EntrySizes : Log(p, bytes) \/ LogTooLarge(p, bytes)
               \/ Rotate(p) \/ Shift(p) \/ RotationFails(p) \/ ClearMemory(p)
        PROVE  <1>1
      BY <2>1 DEF JournalStart, Load, LoadFails, Log, LogTooLarge, Rotate, Shift, RotationFails,
         ClearMemory
  <2>2. ASSUME NEW p \in Process,
               \/ OpenLog(p) \/ OpenLogFails(p) \/ Write(p) \/ WriteFails(p) \/ Sync(p) \/ SyncFails(p)
               \/ Export(p) \/ OpenExport(p) \/ OpenExportFails(p) \/ Copy(p) \/ Publish(p)
               \/ ExportFails(p)
        PROVE  <1>1
      BY <2>2 DEF OpenLog, OpenLogFails, Write, WriteFails, Sync, SyncFails, Export, OpenExport,
         OpenExportFails, Copy, Publish, ExportFails
  <2> QED BY <2>1, <2>2 DEF JournalNext
<1> QED BY <1>1, SnapFrame

\* Nobody enters log() or an export by a step of the snapshot engine.
LEMMA SnapshotsOutsideJournal ==
    ASSUME LockInv, SnapshotNext
    PROVE  \A q \in Process : pc'[q] \in WorkLabel => pc'[q] = pc[q]
<1> USE DEF WorkLabel, LogLabel, Acquire, Step, Return, CaptureEnds, Goto, LockInv, storageVars
<1>1. ASSUME NEW p \in Process,
             \/ CreateSnapshot(p) \/ SaveKey(p) \/ SaveKeyFails(p) \/ DiscardHive(p)
             \/ OpenArtifact(p) \/ OpenArtifactFails(p)
             \/ CreateMetadata(p) \/ CreateMetadataFails(p)
      PROVE  \A q \in Process : pc'[q] \in WorkLabel => pc'[q] = pc[q]
    BY <1>1 DEF CreateSnapshot, SaveKey, SaveKeyFails, DiscardHive, OpenArtifact,
       OpenArtifactFails, CreateMetadata, CreateMetadataFails
<1>2. ASSUME NEW p \in Process,
             \/ WriteMetadata(p) \/ WriteMetadataFails(p)
             \/ FinishSnapshot(p) \/ PrivilegesKept(p) \/ UndoCapture(p) \/ TransactionEnds(p)
             \/ List(p) \/ ListSnapshots(p) \/ ListFails(p)
      PROVE  \A q \in Process : pc'[q] \in WorkLabel => pc'[q] = pc[q]
    BY <1>2 DEF WriteMetadata, WriteMetadataFails, FinishSnapshot, PrivilegesKept, UndoCapture,
       TransactionEnds, List, ListSnapshots, ListFails
<1>3. CASE \E n \in DOMAIN snapshots : Purge(n)
    BY <1>3 DEF Purge
<1> QED BY <1>1, <1>2, <1>3 DEF SnapshotNext

\* The snapshot engine's steps leave the journal alone.
LEMMA SnapshotsKeepJournal ==
    ASSUME LockInv, JournalType, DurableInv, SnapshotNext, UNCHANGED journalVars
    PROVE  JournalType' /\ DurableInv'
<1>1. \A q \in Process : pc'[q] \in LogLabel => pc'[q] = pc[q]
    BY SnapshotsOutsideJournal DEF WorkLabel
<1> QED BY <1>1, JournalTypeFrame, DurableFrame DEF journalVars, LogLabel

\* The snapshot engine's steps.
LEMMA SnapshotStep ==
    ASSUME LockInv, SnapInv, SnapshotNext
    PROVE  SnapInv'
<1>1. ASSUME NEW p \in Process, List(p) \/ ListSnapshots(p) \/ ListFails(p) PROVE SnapInv'
  <2>1. UNCHANGED snapshotVars
      BY <1>1 DEF List, ListSnapshots, ListFails
  <2>2. \A q \in Process : pc'[q] = pc[q] \/ (pc[q] \notin SnapLabel /\ pc'[q] \notin SnapLabel)
      BY <1>1 DEF List, ListSnapshots, ListFails, SnapLabel, UnheldLabel, HeldLabel, Acquire,
         Return, Goto, LockInv
  <2> QED BY <2>1, <2>2, SnapFrame
<1> QED BY <1>1, CaptureStep, CreateStep, PurgeStep, TransactionStep DEF SnapshotNext

\* StoreInv holds initially.
LEMMA InitialStore == Init => StoreInv
<1> SUFFICES ASSUME Init PROVE StoreInv
    OBVIOUS
<1> USE DEF Init, StorageInit, JournalInit, SnapshotInit
<1>1. calls \in 0 .. MaxCalls /\ faults \in 0 .. MaxFaults /\ crashes \in 0 .. MaxCrashes
    BY StorageConstants
<1>2. LockInv /\ RootInv
    BY DEF LockInv, RootInv
<1>3. JournalType
  <2>1. DOMAIN files = {} /\ slot \in Slot
      BY JournalConstants DEF Slot
  <2>2. /\ memory \in [Process -> Seq(EntryId)] /\ written \in Seq(FilePiece)
        /\ entry \in [Process -> {NoEntry} \cup Entry]
      BY EmptySeq
  <2>3. \A p \in Process : pc[p] \notin LogLabel
      BY DEF LogLabel
  <2> QED BY <2>1, <2>2, <2>3 DEF JournalType
<1>4. DurableInv
    BY DEF DurableInv
<1>5. SnapshotType
    BY EmptySeq DEF SnapshotType
<1>6. SnapInv
  <2>1. DOMAIN snapshots = {}
      BY EmptySeq, LenProperties
  <2> QED BY <1>5, <2>1 DEF SnapInv, CaptureInv, OwnerInv, CompleteInv, HeldSnapshotIntact,
      FailedSnapshotLeavesNothing, SnapLabel, UnheldLabel, HeldLabel
<1> QED BY <1>1, <1>2, <1>3, <1>4, <1>6 DEF StoreInv

\* StoreInv is an invariant of the journal and the snapshots over their shared lock.
THEOREM Invariance == Spec => []StoreInv
<1>1. Init => StoreInv
    BY InitialStore
<1>2. StoreInv /\ [Next]_vars => StoreInv'
  <2> SUFFICES ASSUME StoreInv, [Next]_vars PROVE StoreInv'
      OBVIOUS
  <2>1. /\ calls \in 0 .. MaxCalls /\ faults \in 0 .. MaxFaults /\ crashes \in 0 .. MaxCrashes
        /\ LockInv /\ RootInv /\ JournalType /\ DurableInv /\ SnapInv
      BY DEF StoreInv
  <2>2. CASE Next
    <3>1. /\ calls' \in 0 .. MaxCalls /\ faults' \in 0 .. MaxFaults /\ crashes' \in 0 .. MaxCrashes
          /\ LockInv' /\ RootInv'
        BY <2>1, <2>2, CounterStep, LockStep, RootStep
    <3>2. CASE JournalNext /\ UNCHANGED snapshotVars
        BY <2>1, <3>2, JournalTypeStep, DurableStep, JournalKeepsSnapshots, <3>1 DEF StoreInv
    <3>3. CASE SnapshotNext /\ UNCHANGED <<journalVars, rootVars>>
        BY <2>1, <3>3, SnapshotsKeepJournal, SnapshotStep, <3>1 DEF StoreInv
    <3>4. CASE \E p \in Process : LockRefused(p) /\ UNCHANGED <<journalVars, snapshotVars, rootVars>>
      <4>1. UNCHANGED <<pc, journalVars, snapshotVars>>
          BY <3>4 DEF LockRefused
      <4>2. JournalType' /\ DurableInv'
          BY <2>1, <4>1, JournalTypeFrame, DurableFrame DEF journalVars
      <4>3. SnapInv'
          BY <2>1, <4>1, SnapFrame
      <4> QED BY <3>1, <4>2, <4>3 DEF StoreInv
    <3>5. ASSUME NEW p \in Process, Crash(p) PROVE StoreInv'
      <4>1. SnapshotCrash({p}) /\ pc' = [q \in Process |-> IF q \in {p} THEN "down" ELSE pc[q]]
          BY <3>5 DEF Crash, Stop
      <4>2. SnapInv'
          BY <2>1, <4>1, SnapshotCrashStep
      <4> QED BY <2>1, <3>1, <3>5, <4>2, JournalCrashType, DurableCrash DEF StoreInv
    <3>6. CASE PowerLoss
      <4>1. SnapshotCrash(Process) /\ pc' = [q \in Process |-> IF q \in Process THEN "down" ELSE pc[q]]
          BY <3>6 DEF PowerLoss, Stop
      <4>2. SnapInv'
          BY <2>1, <4>1, SnapshotCrashStep
      <4> QED BY <2>1, <3>1, <3>6, <4>2, JournalPowerType, DurablePowerLoss DEF StoreInv
    <3> QED BY <2>2, <3>2, <3>3, <3>4, <3>5, <3>6 DEF Next
  <2>3. CASE UNCHANGED vars
    <3>1. UNCHANGED <<lock, pc, calls, faults, crashes, root, creator>> /\ UNCHANGED <<journalVars, snapshotVars>>
        BY <2>3 DEF vars, storageVars, rootVars
    <3>2. JournalType' /\ DurableInv' /\ SnapInv'
        BY <2>1, <3>1, JournalTypeFrame, DurableFrame, SnapFrame DEF journalVars
    <3>3. LockInv' /\ RootInv'
        BY <2>1, <3>1 DEF LockInv, RootInv
    <3> QED BY <2>1, <3>1, <3>2, <3>3 DEF StoreInv
  <2> QED BY <2>2, <2>3
<1> QED BY <1>1, <1>2, PTL DEF Spec

\* Every variable keeps its type, and .storage.lock has at most one holder.
THEOREM TypeCorrectness == Spec => []TypeOK
<1>1. StoreInv => TypeOK
  <2> SUFFICES ASSUME StoreInv PROVE TypeOK
      OBVIOUS
  <2>1. lock \in SUBSET Process /\ Cardinality(lock) <= 1 /\ DOMAIN pc = Process
    <3>1. CASE lock = {}
        BY <3>1, FS_EmptySet DEF StoreInv, LockInv
    <3>2. ASSUME NEW p \in Process, lock = {p} PROVE Cardinality(lock) = 1
        BY <3>2, FS_Singleton
    <3> QED BY <3>1, <3>2 DEF StoreInv, LockInv
  <2>2. \A s \in Seq(FilePiece) : s \in Seq(Piece)
      BY SeqMonotonic DEF FilePiece
  <2>3. /\ DOMAIN files \subseteq Slot /\ \A n \in DOMAIN files : files[n] \in Seq(Piece)
        /\ written \in Seq(Piece)
      BY <2>2 DEF StoreInv, JournalType
  <2>4. /\ unsynced \in BOOLEAN /\ entry \in [Process -> {NoEntry} \cup Entry]
        /\ slot \in Slot /\ memory \in [Process -> Seq(EntryId)] /\ acked \subseteq EntryId
      BY DEF StoreInv, JournalType
  <2>5. SnapshotType
      BY DEF StoreInv, SnapInv
  <2> QED BY <2>1, <2>3, <2>4, <2>5 DEF StoreInv, RootInv, TypeOK, SnapshotType
<1> QED BY <1>1, Invariance, PTL

\* log() acknowledges only what no crash and no loss of power can take back.
THEOREM AcknowledgedEntriesAreDurable == Spec => []AckedIsDurable
<1>1. StoreInv => AckedIsDurable
  <2> SUFFICES ASSUME StoreInv, NEW n \in acked
               PROVE  \E i \in DOMAIN written : written[i].id = n /\ written[i].part = "line"
      BY DEF AckedIsDurable
  <2>1. Len(written) \in Nat
      BY LenProperties DEF StoreInv, JournalType
  <2>2. PICK k \in {Len(written) - 1, Len(written)} : LineWithin(n, k, written)
      BY DEF StoreInv, DurableInv
  <2>3. PICK i \in 1 .. k : written[i].id = n /\ written[i].part = "line"
      BY <2>2 DEF LineWithin
  <2>4. i \in 1 .. Len(written)
      BY <2>1, <2>2, <2>3
  <2>5. DOMAIN written = 1 .. Len(written)
      BY LenProperties DEF StoreInv, JournalType
  <2> QED BY <2>3, <2>4, <2>5
<1> QED BY <1>1, Invariance, PTL

\* The hive a repair may have to roll back to stays complete while the repair holds it.
THEOREM HeldSnapshotsStayIntact == Spec => []HeldSnapshotIntact
<1>1. StoreInv => HeldSnapshotIntact
    BY DEF StoreInv, SnapInv
<1> QED BY <1>1, Invariance, PTL

\* create_registry_snapshot leaves both of its files or none, but for what its error reports.
THEOREM FailedCapturesLeaveNothing == Spec => []FailedSnapshotLeavesNothing
<1>1. StoreInv => FailedSnapshotLeavesNothing
    BY DEF StoreInv, SnapInv
<1> QED BY <1>1, Invariance, PTL

\* list_snapshots is refused only in the process that created the root, which runs alone, or
\* because of a held or removed hive, or of files that a crash, a running capture or a reported
\* failed removal left.
THEOREM ListingBrokenForCause == Spec => []InventoryBrokenForCause
<1>1. StoreInv => InventoryBrokenForCause
  <2> SUFFICES ASSUME StoreInv, NEW n \in DOMAIN snapshots
               PROVE  \/ Listable(n)
                      \/ Held(n) \/ n \in purged \/ snapshots[n].meta = "stray"
                      \/ snapshots[n].end \in {"running", "crashed", "unclean"}
      BY DEF InventoryBrokenForCause, StoreInv, RootInv, RootOpens
  <2>1. snapshots[n] \in Snapshot
      BY LenProperties, ElementOfSeq DEF StoreInv, SnapInv, SnapshotType
  <2>2. CASE snapshots[n].end = "ok"
      BY <2>2 DEF StoreInv, SnapInv, CompleteInv, Listable
  <2>3. CASE snapshots[n].end = "failed"
      BY <2>3 DEF StoreInv, SnapInv, FailedSnapshotLeavesNothing, Listable
  <2> QED BY <2>1, <2>2, <2>3 DEF Snapshot
<1> QED BY <1>1, Invariance, PTL
-----------------------------------------------------------------------------
(* Induction over the positions of a file, by the least counterexample. *)

\* A set of naturals that is not empty has a least element.
LEMMA LeastNatural ==
    ASSUME NEW T, T \subseteq Nat, T # {}
    PROVE  \E x \in T : x \in Nat /\ \A y \in T : x <= y
<1>1. IsWellFoundedOn(OpToRel(<, Nat), Nat)
    BY NatLessThanWellFounded
<1>2. PICK x \in T : \A y \in T : ~ (<<y, x>> \in OpToRel(<, Nat))
    BY <1>1, WFMin
<1>3. x \in Nat /\ \A y \in T : y \in Nat
    BY <1>2
<1>4. \A y \in T : ~ (y < x)
    BY <1>2, <1>3, Zenon DEF OpToRel
<1>5. ASSUME NEW y \in T PROVE x <= y
  <2>1. ~ (y < x) /\ y \in Nat
      BY <1>3, <1>4
  <2> QED BY <1>3, <2>1
<1> QED BY <1>2, <1>3, <1>5

\* A predicate on 0 .. n that holds for 0, and for k when it does for k - 1, holds throughout:
\* G is the set of the positions where it holds.
LEMMA UpTo ==
    ASSUME NEW n \in Nat, NEW G, 0 \in G, \A k \in 1 .. n : k - 1 \in G => k \in G
    PROVE  \A k \in 0 .. n : k \in G
<1> SUFFICES ASSUME NEW k \in 0 .. n, k \notin G PROVE FALSE
    OBVIOUS
<1> DEFINE T == {i \in 0 .. n : i \notin G}
<1>1. T \subseteq Nat /\ T # {}
    OBVIOUS
<1>2. PICK x \in T : x \in Nat /\ \A y \in T : x <= y
    BY <1>1, LeastNatural
<1>3. x \in 1 .. n /\ x \notin G
    BY <1>2
<1>4. x - 1 \in G
  <2>1. x - 1 \in 0 .. n /\ ~ (x <= x - 1)
      BY <1>3
  <2> QED BY <1>2, <2>1
<1> QED BY <1>3, <1>4

\* f holds the length of each of the first n prefixes of a file.
Sums(f, s, n) == f[0] = 0 /\ \A k \in 1 .. n : f[k] = f[k - 1] + s[k].bytes

\* A prefix has one length.
LEMMA SumsUnique ==
    ASSUME NEW n \in Nat, NEW s, NEW f, NEW g, Sums(f, s, n), Sums(g, s, n)
    PROVE  \A k \in 0 .. n : f[k] = g[k]
<1> DEFINE G == {k \in 0 .. n : f[k] = g[k]}
<1>1. 0 \in G
    BY DEF Sums
<1>2. \A k \in 1 .. n : k - 1 \in G => k \in G
    BY DEF Sums
<1> HIDE DEF G
<1>3. \A k \in 0 .. n : k \in G
    BY <1>1, <1>2, UpTo
<1> QED BY <1>3 DEF G

\* Every prefix has a length.
LEMMA SumsExist ==
    ASSUME NEW s \in Seq(FilePiece)
    PROVE  \E f \in [0 .. Len(s) -> Nat] : Sums(f, s, Len(s))
<1>1. Len(s) \in Nat /\ \A k \in 1 .. Len(s) : s[k] \in FilePiece /\ s[k].bytes \in Nat
    BY LenProperties, ElementOfSeq DEF FilePiece, Piece
<1> DEFINE G == {n \in 0 .. Len(s) : \E f \in [0 .. n -> Nat] : Sums(f, s, n)}
<1>2. 0 \in G
  <2> DEFINE f == [k \in 0 .. 0 |-> 0]
  <2>1. f \in [0 .. 0 -> Nat] /\ Sums(f, s, 0)
      BY DEF Sums
  <2> QED BY <1>1, <2>1
<1>3. ASSUME NEW n \in 1 .. Len(s), n - 1 \in G PROVE n \in G
  <2>1. PICK f \in [0 .. n - 1 -> Nat] : Sums(f, s, n - 1)
      BY <1>3
  <2>2. n \in Nat /\ n - 1 \in 0 .. n - 1 /\ f[n - 1] + s[n].bytes \in Nat
      BY <1>1, <2>1
  <2> DEFINE g == [k \in 0 .. n |-> IF k = n THEN f[n - 1] + s[n].bytes ELSE f[k]]
  <2>3. g \in [0 .. n -> Nat]
      BY <2>1, <2>2
  <2>4. g[0] = 0 /\ g[n] = f[n - 1] + s[n].bytes /\ \A k \in 0 .. n - 1 : g[k] = f[k]
      BY <2>1, <2>2 DEF Sums
  <2> HIDE DEF g
  <2>5. ASSUME NEW k \in 1 .. n PROVE g[k] = g[k - 1] + s[k].bytes
    <3>1. CASE k = n
        BY <2>2, <2>4, <3>1
    <3>2. CASE k # n
      <4>1. k \in 1 .. n - 1 /\ k \in 0 .. n - 1 /\ k - 1 \in 0 .. n - 1
          BY <2>2, <3>2
      <4> QED BY <2>1, <2>4, <4>1 DEF Sums
    <3> QED BY <3>1, <3>2
  <2>6. Sums(g, s, n)
      BY <2>4, <2>5 DEF Sums
  <2>7. n \in 0 .. Len(s)
      BY <1>1
  <2> QED BY <2>3, <2>6, <2>7
<1> HIDE DEF G
<1>4. Len(s) \in G
  <2>1. \A n \in 1 .. Len(s) : n - 1 \in G => n \in G
      BY <1>3
  <2>2. Len(s) \in Nat /\ Len(s) \in 0 .. Len(s)
      BY <1>1
  <2> QED BY <1>2, <2>1, <2>2, UpTo
<1> QED BY <1>4 DEF G

\* Bytes is the length of the longest prefix.
LEMMA BytesMeaning ==
    ASSUME NEW s \in Seq(FilePiece), NEW f, Sums(f, s, Len(s))
    PROVE  Bytes(s) = f[Len(s)] /\ Bytes(s) \in Nat
<1>1. Len(s) \in Nat
    BY LenProperties
<1> DEFINE Is(h) == h = [n \in 0 .. Len(s) |-> IF n = 0 THEN 0 ELSE h[n - 1] + s[n].bytes]
           sum == CHOOSE h : Is(h)
<1>2. PICK g \in [0 .. Len(s) -> Nat] : Sums(g, s, Len(s))
    BY SumsExist
<1>3. Is(g)
    BY <1>1, <1>2 DEF Sums
<1>4. Is(sum)
  <2> HIDE DEF Is
  <2> QED BY <1>3
<1>5. Bytes(s) = sum[Len(s)]
    BY DEF Bytes
<1> HIDE DEF sum
<1>6. Sums(sum, s, Len(s))
    BY <1>1, <1>4 DEF Sums
<1> HIDE DEF Is
<1>7. sum[Len(s)] = g[Len(s)] /\ f[Len(s)] = g[Len(s)]
    BY <1>1, <1>2, <1>6, SumsUnique
<1> QED BY <1>1, <1>2, <1>5, <1>7

\* Each append adds its bytes.
LEMMA BytesAppend ==
    ASSUME NEW s \in Seq(FilePiece), NEW x \in FilePiece
    PROVE  Bytes(Append(s, x)) = Bytes(s) + x.bytes /\ Bytes(s) \in Nat
<1> DEFINE t == Append(s, x)
<1>1. /\ t \in Seq(FilePiece) /\ Len(s) \in Nat /\ Len(t) = Len(s) + 1
      /\ \A i \in 1 .. Len(s) : t[i] = s[i]
      /\ t[Len(s) + 1] = x
    BY AppendPiece
<1> HIDE DEF t
<1>2. PICK f : Sums(f, t, Len(t))
    BY <1>1, SumsExist
<1>3. Sums(f, s, Len(s))
    BY <1>1, <1>2 DEF Sums
<1>4. Bytes(t) = f[Len(t)] /\ Bytes(s) = f[Len(s)] /\ Bytes(s) \in Nat
    BY <1>1, <1>2, <1>3, BytesMeaning
<1>5. f[Len(s) + 1] = f[Len(s)] + x.bytes
    BY <1>1, <1>2 DEF Sums
<1> QED BY <1>1, <1>4, <1>5 DEF t

\* A new file is empty.
LEMMA BytesEmpty == Bytes(<< >>) = 0
<1> DEFINE f == [k \in {0} |-> 0]
           s == << >>
<1>1. s \in Seq(FilePiece) /\ Len(s) = 0
    BY EmptySeq
<1>2. Sums(f, s, 0) /\ f[0] = 0
    BY DEF Sums
<1> HIDE DEF f, s
<1>3. Bytes(s) = 0
    BY <1>1, <1>2, BytesMeaning
<1> QED BY <1>3 DEF s

\* A file is as long as everything before its last piece and that piece.
LEMMA BytesFront ==
    ASSUME NEW s \in Seq(FilePiece), s # << >>
    PROVE  /\ Front(s) \in Seq(FilePiece) /\ Last(s) \in FilePiece
           /\ Bytes(s) = Bytes(Front(s)) + Last(s).bytes /\ Bytes(Front(s)) \in Nat
<1>1. Len(s) \in Nat /\ Len(s) > 0 /\ s[Len(s)] \in FilePiece
    BY EmptySeq, LenProperties, ElementOfSeq
<1>2. << >> \in Seq(FilePiece)
    BY EmptySeq
<1>3. PICK k : k = Len(s) - 1
    OBVIOUS
<1>4. k \in Nat /\ Len(s) = k + 1
    BY <1>1, <1>3
<1>5. \A i \in 1 .. k : s[i] \in FilePiece
    BY <1>4, ElementOfSeq
<1>6. Front(s) = SubSeq(s, 1, k)
    BY <1>3 DEF Front
<1>7. /\ Front(s) \in Seq(FilePiece)
      /\ Len(Front(s)) = IF 1 <= k THEN k - 1 + 1 ELSE 0
      /\ \A i \in 1 .. k - 1 + 1 : Front(s)[i] = s[1 + i - 1]
    BY <1>4, <1>5, <1>6, SubSeqProperties
<1>8. Len(Front(s)) = k /\ \A i \in 1 .. k : Front(s)[i] = s[i]
    BY <1>4, <1>7
<1> DEFINE t == Append(Front(s), s[Len(s)])
<1>9. /\ t \in Seq(FilePiece) /\ Len(t) = k + 1 /\ \A i \in 1 .. k : t[i] = Front(s)[i]
      /\ t[k + 1] = s[Len(s)]
    BY <1>1, <1>7, <1>8, AppendPiece
<1> HIDE DEF t
<1>10. \A i \in 1 .. Len(s) : s[i] = t[i]
    BY <1>4, <1>8, <1>9
<1>11. s = t
    BY <1>4, <1>9, <1>10, SeqEqual
<1>12. Bytes(t) = Bytes(Front(s)) + s[Len(s)].bytes /\ Bytes(Front(s)) \in Nat
    BY <1>1, <1>7, BytesAppend DEF t
<1> QED BY <1>1, <1>7, <1>11, <1>12 DEF Last

\* A copy that is shorter in pieces is shorter in bytes: each piece has at least one.
LEMMA BytesPrefix ==
    ASSUME NEW s \in Seq(FilePiece), NEW n \in 0 .. Len(s), Bytes(SubSeq(s, 1, n)) = Bytes(s)
    PROVE  SubSeq(s, 1, n) = s
<1>1. Len(s) \in Nat /\ n \in Nat /\ n <= Len(s) /\ \A i \in 1 .. Len(s) : s[i] \in FilePiece
    BY LenProperties, ElementOfSeq
<1> DEFINE t == SubSeq(s, 1, n)
<1>2. /\ t \in Seq(FilePiece)
      /\ Len(t) = IF 1 <= n THEN n - 1 + 1 ELSE 0
      /\ \A i \in 1 .. n - 1 + 1 : t[i] = s[1 + i - 1]
  <2>1. \A i \in 1 .. n : s[i] \in FilePiece
      BY <1>1
  <2> QED BY <1>1, <2>1, SubSeqProperties
<1> HIDE DEF t
<1>3. Len(t) = n /\ \A i \in 1 .. n : t[i] = s[i]
    BY <1>1, <1>2
<1>4. PICK f \in [0 .. Len(s) -> Nat] : Sums(f, s, Len(s))
    BY SumsExist
<1>5. Sums(f, t, n)
    BY <1>1, <1>3, <1>4 DEF Sums
<1>6. f[n] = f[Len(s)]
    BY <1>2, <1>3, <1>4, <1>5, BytesMeaning DEF t
<1> DEFINE G == {k \in 0 .. Len(s) : k <= n \/ f[k] > f[n]}
<1>7. 0 \in G
    BY <1>1
<1>8. ASSUME NEW k \in 1 .. Len(s), k - 1 \in G PROVE k \in G
  <2>1. f[k] = f[k - 1] + s[k].bytes /\ s[k].bytes \in Nat /\ s[k].bytes > 0
      BY <1>1, <1>4 DEF Sums, FilePiece, Piece
  <2>2. f[k - 1] \in Nat /\ f[n] \in Nat /\ f[k] \in Nat
      BY <1>1, <1>4
  <2>3. CASE k - 1 = n
      BY <1>1, <2>1, <2>2, <2>3
  <2>4. CASE k - 1 < n
      BY <1>1, <2>4
  <2>5. CASE f[k - 1] > f[n]
      BY <1>1, <2>1, <2>2, <2>5
  <2> QED BY <1>1, <1>8, <2>3, <2>4, <2>5
<1> HIDE DEF G
<1>9. Len(s) \in G
  <2>1. \A k \in 1 .. Len(s) : k - 1 \in G => k \in G
      BY <1>8
  <2>2. \A k \in 0 .. Len(s) : k \in G
      BY <1>1, <1>7, <2>1, UpTo
  <2> QED BY <1>1, <2>2
<1>10. n = Len(s)
  <2>1. f[n] \in Nat /\ ~ (f[Len(s)] > f[n])
      BY <1>1, <1>4, <1>6
  <2> QED BY <1>1, <1>9, <2>1 DEF G
<1> QED BY <1>2, <1>3, <1>10, SeqEqual DEF t
-----------------------------------------------------------------------------
(* The files of the journal are bounded. *)

\* An entry inside log() fits an empty log, and from the end of the rotation to the write it
\* fits the log that is there.
SizeInv ==
    /\ LogBounded
    /\ \A p \in Process : pc[p] \in LogLabel => entry[p].bytes <= MaxLogBytes
    /\ \A p \in Process : pc[p] \in {"log_open", "log_write"} =>
          Bytes(Content(0)) + entry[p].bytes <= MaxLogBytes

\* Files that only move, or are created empty, stay bounded.
LEMMA MovedBounded ==
    ASSUME LogBounded,
           \A n \in DOMAIN files' : files'[n] = << >> \/ \E m \in DOMAIN files : files'[n] = files[m]
    PROVE  LogBounded'
<1>1. 0 <= MaxLogBytes
    BY JournalConstants
<1> QED BY <1>1, BytesEmpty DEF LogBounded

\* Steps that neither touch the files nor bring anyone closer to a write.
LEMMA SizeFrame ==
    ASSUME SizeInv, UNCHANGED files,
           \A q \in Process : pc'[q] \in LogLabel => pc[q] \in LogLabel /\ entry'[q] = entry[q],
           \A q \in Process : pc'[q] \in {"log_open", "log_write"} => pc[q] \in {"log_open", "log_write"}
    PROVE  SizeInv'
<1>1. LogBounded'
    BY DEF SizeInv, LogBounded
<1>2. Content(0)' = Content(0)
    BY DEF Content, Exists
<1>3. \A q \in Process : pc'[q] \in {"log_open", "log_write"} => pc'[q] \in LogLabel
    BY DEF LogLabel
<1> QED BY <1>1, <1>2, <1>3 DEF SizeInv

\* While p is inside its call nobody else is.
LEMMA Alone ==
    ASSUME LockInv, NEW p \in Process, pc[p] \notin {"down", "idle"}, NEW q \in Process, q # p
    PROVE  pc[q] \notin LogLabel
BY DEF LockInv, LogLabel

\* An append of an entry that fits, whole or cut short, keeps the log bounded.
LEMMA AppendBounded ==
    ASSUME JournalType, SizeInv, NEW p \in Process, pc[p] = "log_write",
           NEW part \in {"some", "body", "line"}, AppendPart(p, part)
    PROVE  LogBounded'
<1>1. entry[p] \in Entry
    BY DEF JournalType, LogLabel
<1> DEFINE piece == [id |-> entry[p].id, part |-> part, bytes |-> PartBytes(part, entry[p].bytes)]
<1>2. piece \in FilePiece
    BY <1>1, PartType
<1>3. piece.bytes <= entry[p].bytes /\ piece.bytes \in Nat /\ entry[p].bytes \in Nat
    BY <1>1, JournalConstants DEF Entry, PartBytes
<1>4. files' = [files EXCEPT ![0] = Append(@, piece)]
    BY DEF AppendPart
<1> HIDE DEF piece
<1>5. CASE 0 \in DOMAIN files
  <2>1. files[0] \in Seq(FilePiece) /\ Content(0) = files[0]
      BY <1>5 DEF JournalType, Content, Exists
  <2>2. Bytes(Append(files[0], piece)) = Bytes(files[0]) + piece.bytes /\ Bytes(files[0]) \in Nat
      BY <1>2, <2>1, BytesAppend
  <2>3. Bytes(files[0]) + entry[p].bytes <= MaxLogBytes
      BY <2>1 DEF SizeInv
  <2>4. Bytes(Append(files[0], piece)) <= MaxLogBytes
      BY <1>3, <2>2, <2>3, JournalConstants
  <2>5. files'[0] = Append(files[0], piece) /\ DOMAIN files' = DOMAIN files
        /\ \A n \in DOMAIN files : n # 0 => files'[n] = files[n]
      BY <1>4, <1>5
  <2> QED BY <2>4, <2>5 DEF SizeInv, LogBounded
<1>6. CASE 0 \notin DOMAIN files
  <2>1. DOMAIN files' = DOMAIN files /\ \A n \in DOMAIN files : files'[n] = files[n]
      BY <1>4, <1>6
  <2> QED BY <2>1 DEF SizeInv, LogBounded
<1> QED BY <1>5, <1>6

LEMMA SizeStep ==
    ASSUME LockInv, JournalType, SizeInv, JournalNext
    PROVE  SizeInv'
<1> USE DEF journalVars, storageVars
<1>a. MaxLogBytes \in Nat /\ MaxArchives \in Nat /\ MaxArchives > 0 /\ EntrySizes \subseteq Nat
    BY JournalConstants
<1>b. /\ \A n \in DOMAIN files : files[n] \in Seq(FilePiece) /\ Bytes(files[n]) \in Nat
      /\ Content(0) \in Seq(FilePiece) /\ Bytes(Content(0)) \in Nat
  <2>1. \A s \in Seq(FilePiece) : Bytes(s) \in Nat
      BY SumsExist, BytesMeaning
  <2>2. \A n \in DOMAIN files : files[n] \in Seq(FilePiece)
      BY DEF JournalType
  <2>3. Content(0) \in Seq(FilePiece)
      BY <2>2, EmptySeq DEF Content, Exists
  <2> QED BY <2>1, <2>2, <2>3
<1> SUFFICES ASSUME NEW p \in Process,
        \/ JournalStart(p) \/ Load(p) \/ LoadFails(p)
        \/ \E bytes \in EntrySizes : Log(p, bytes) \/ LogTooLarge(p, bytes)
        \/ Rotate(p) \/ Shift(p) \/ RotationFails(p)
        \/ OpenLog(p) \/ OpenLogFails(p) \/ Write(p) \/ WriteFails(p) \/ Sync(p) \/ SyncFails(p)
        \/ ClearMemory(p)
        \/ Export(p) \/ OpenExport(p) \/ OpenExportFails(p) \/ Copy(p) \/ Publish(p) \/ ExportFails(p)
      PROVE SizeInv'
    BY DEF JournalNext
<1>1. CASE JournalStart(p) \/ Load(p) \/ LoadFails(p) \/ ClearMemory(p)
    BY <1>1, SizeFrame DEF JournalStart, Load, LoadFails, ClearMemory, Acquire, Return, Goto, LockInv,
       LogLabel
<1>2. CASE \/ Export(p) \/ OpenExport(p) \/ OpenExportFails(p) \/ Copy(p) \/ Publish(p) \/ ExportFails(p)
    BY <1>2, SizeFrame DEF Export, OpenExport, OpenExportFails, Copy, Publish, ExportFails, Acquire, Step,
       Return, Goto, LockInv, LogLabel
<1>3. CASE RotationFails(p) \/ Sync(p) \/ SyncFails(p)
    BY <1>3, SizeFrame DEF RotationFails, Sync, SyncFails, LogEnds, Return, Goto, LockInv, LogLabel, JournalType
<1>4. ASSUME NEW bytes \in EntrySizes, LogTooLarge(p, bytes) PROVE SizeInv'
    BY <1>4, SizeFrame DEF LogTooLarge
<1>5. ASSUME NEW bytes \in EntrySizes, Log(p, bytes) PROVE SizeInv'
  <2>1. /\ bytes <= MaxLogBytes /\ UNCHANGED files /\ entry'[p].bytes = bytes /\ pc'[p] = "log_rotate"
        /\ \A q \in Process : q # p => pc'[q] = pc[q] /\ entry'[q] = entry[q]
      BY <1>5 DEF Log, Acquire, Goto, LockInv, JournalType
  <2>2. Content(0)' = Content(0) /\ LogBounded'
      BY <2>1 DEF Content, Exists, SizeInv, LogBounded
  <2> QED BY <2>1, <2>2 DEF SizeInv
<1>6. CASE Rotate(p)
  <2>1. /\ pc[p] = "log_rotate" /\ UNCHANGED <<files, entry>>
        /\ \/ pc' = [pc EXCEPT ![p] = "log_shift"]
           \/ pc' = [pc EXCEPT ![p] = "log_open"] /\ ~ NeedsRotation(entry[p].bytes)
      BY <1>6 DEF Rotate, Goto
  <2>2. entry[p] \in Entry /\ entry[p].bytes \in Nat
      BY <1>a, <2>1 DEF JournalType, LogLabel, Entry
  <2>3. pc'[p] = "log_open" => Bytes(Content(0)) + entry[p].bytes <= MaxLogBytes
      BY <1>a, <1>b, <2>1, <2>2 DEF NeedsRotation, LockInv
  <2>4. \A q \in Process : q # p => pc'[q] = pc[q]
      BY <2>1 DEF LockInv
  <2>5. pc'[p] \in LogLabel /\ pc[p] \in LogLabel /\ pc'[p] # "log_write"
      BY <2>1 DEF LockInv, LogLabel
  <2>6. Content(0)' = Content(0) /\ LogBounded'
      BY <2>1 DEF Content, Exists, SizeInv, LogBounded
  <2> QED BY <2>1, <2>3, <2>4, <2>5, <2>6 DEF SizeInv
<1>7. CASE Shift(p)
  <2>1. pc[p] = "log_shift" /\ entry' = entry /\ slot \in 0 .. MaxArchives
      BY <1>7 DEF Shift, JournalType, Slot
  <2>2. \A n \in DOMAIN files' : files'[n] = << >> \/ \E m \in DOMAIN files : files'[n] = files[m]
    <3>1. CASE files' = Restrict(files, DOMAIN files \ {slot}) \/ files' = files
        BY <3>1 DEF Restrict
    <3>2. CASE Exists(slot) /\ RenameSlot(slot)
        BY <3>2 DEF Exists, RenameSlot
    <3> QED BY <1>7, <3>1, <3>2 DEF Shift
  <2>3. LogBounded'
      BY <2>2, MovedBounded DEF SizeInv
  <2>4. slot = 0 => 0 \notin DOMAIN files'
      BY <1>7, <1>a, <2>1 DEF Shift, RenameSlot, Exists
  <2>5. slot # 0 => pc' = pc
      BY <1>7 DEF Shift
  <2>6. \A q \in Process : q # p => pc'[q] = pc[q] /\ pc[q] \notin LogLabel
    <3>1. \A q \in Process : q # p => pc[q] \notin LogLabel
        BY <2>1, Alone
    <3>2. \A q \in Process : q # p => pc'[q] = pc[q]
        BY <1>7 DEF Shift, Goto, LockInv
    <3> QED BY <3>1, <3>2
  <2>7. entry[p] \in Entry /\ entry[p].bytes \in Nat /\ entry[p].bytes <= MaxLogBytes
      BY <1>a, <2>1 DEF JournalType, LogLabel, Entry, SizeInv
  <2>8. pc'[p] \in {"log_open", "log_write"} => (Bytes(Content(0)))' + entry'[p].bytes <= MaxLogBytes
    <3>1. CASE slot = 0
      <4>1. Content(0)' = << >>
          BY <2>4, <3>1 DEF Content, Exists
      <4>2. (Bytes(Content(0)))' = 0
          BY <4>1, BytesEmpty
      <4> QED BY <2>1, <2>7, <4>2
    <3>2. CASE slot # 0
        BY <2>1, <2>5, <3>2
    <3> QED BY <3>1, <3>2
  <2>9. \A q \in Process : pc'[q] \in {"log_open", "log_write"} => pc'[q] \in LogLabel
      BY DEF LogLabel
  <2> QED BY <2>1, <2>3, <2>6, <2>7, <2>8, <2>9 DEF SizeInv
<1>8. ASSUME files' = [m \in DOMAIN files \cup {0} |-> Content(m)]
      PROVE  LogBounded' /\ Content(0)' = Content(0)
  <2>1. \A n \in DOMAIN files' : files'[n] = << >> \/ \E m \in DOMAIN files : files'[n] = files[m]
      BY <1>8 DEF Content, Exists
  <2>2. Content(0)' = Content(0)
      BY <1>8 DEF Content, Exists
  <2> QED BY <2>1, <2>2, MovedBounded DEF SizeInv
<1>9. CASE OpenLog(p)
  <2>1. /\ pc[p] = "log_open" /\ pc' = [pc EXCEPT ![p] = "log_write"] /\ entry' = entry
        /\ files' = [m \in DOMAIN files \cup {0} |-> Content(m)]
      BY <1>9 DEF OpenLog, Step, Goto
  <2> QED BY <1>8, <2>1 DEF SizeInv, LockInv, LogLabel
<1>10. ASSUME LogBounded', LogEnds(p), pc[p] \notin {"down", "idle"} PROVE SizeInv'
  <2>1. \A q \in Process : pc'[q] \notin LogLabel
    <3>1. \A q \in Process : q # p => pc[q] \notin LogLabel
        BY <1>10, Alone
    <3> QED BY <1>10, <3>1 DEF LogEnds, Return, Goto, LockInv, LogLabel
  <2> QED BY <1>10, <2>1 DEF SizeInv, LogLabel
<1>11. CASE OpenLogFails(p)
  <2>1. LogBounded'
    <3>1. CASE UNCHANGED files
        BY <3>1 DEF SizeInv, LogBounded
    <3> QED BY <1>8, <1>11, <3>1 DEF OpenLogFails
  <2> QED BY <1>10, <1>11, <2>1 DEF OpenLogFails
<1>12. CASE Write(p)
  <2>1. /\ pc[p] = "log_write" /\ pc' = [pc EXCEPT ![p] = "log_sync"] /\ entry' = entry
        /\ AppendPart(p, "line")
      BY <1>12 DEF Write, Step, Goto
  <2>2. LogBounded'
      BY <2>1, AppendBounded
  <2>3. \A q \in Process : q # p => pc'[q] = pc[q] /\ pc[q] \notin LogLabel
    <3>1. \A q \in Process : q # p => pc[q] \notin LogLabel
        BY <2>1, Alone
    <3> QED BY <2>1, <3>1 DEF LockInv
  <2>4. pc'[p] = "log_sync" /\ pc[p] \in LogLabel
      BY <2>1 DEF LockInv, LogLabel
  <2>5. \A q \in Process : pc'[q] \in {"log_open", "log_write"} => pc'[q] \in LogLabel
      BY DEF LogLabel
  <2> QED BY <2>1, <2>2, <2>3, <2>4, <2>5 DEF SizeInv
<1>13. CASE WriteFails(p)
  <2>1. pc[p] = "log_write" /\ LogEnds(p)
      BY <1>13 DEF WriteFails
  <2>2. LogBounded'
    <3>1. CASE UNCHANGED files
        BY <3>1 DEF SizeInv, LogBounded
    <3>2. ASSUME NEW part \in {"some", "body"}, AppendPart(p, part) PROVE LogBounded'
        BY <2>1, <3>2, AppendBounded
    <3> QED BY <1>13, <3>1, <3>2 DEF WriteFails
  <2> QED BY <1>10, <2>1, <2>2
<1> QED BY <1>1, <1>2, <1>3, <1>4, <1>5, <1>6, <1>7, <1>9, <1>11, <1>12, <1>13

\* A crash cuts at most the append of the process that crashes.
LEMMA SizeCrash ==
    ASSUME LockInv, JournalType, SizeInv, NEW p \in Process, Crash(p)
    PROVE  SizeInv'
<1>1. /\ entry' = [entry EXCEPT ![p] = NoEntry]
      /\ pc' = [q \in Process |-> IF q = p THEN "down" ELSE pc[q]]
    BY DEF Crash, JournalCrash, Stop
<1>2. \A q \in Process : pc'[q] \in LogLabel => q # p /\ pc'[q] = pc[q] /\ entry'[q] = entry[q]
    BY <1>1 DEF LogLabel, JournalType
<1>3. \A q \in Process : pc'[q] \in {"log_open", "log_write"} => pc'[q] \in LogLabel
    BY DEF LogLabel
<1>4. CASE UNCHANGED files
    BY <1>2, <1>3, <1>4, SizeFrame
<1>5. ASSUME pc[p] = "log_write", NEW part \in {"some", "body"}, AppendPart(p, part)
      PROVE  SizeInv'
  <2>1. LogBounded'
      BY <1>5, AppendBounded
  <2>2. \A q \in Process : q # p => pc[q] \notin LogLabel
      BY <1>5, Alone
  <2>3. \A q \in Process : pc'[q] \notin LogLabel
      BY <1>2, <2>2
  <2> QED BY <1>3, <2>1, <2>3 DEF SizeInv
<1> QED BY <1>4, <1>5 DEF Crash, JournalCrash

\* A loss of power only shortens the log.
LEMMA SizePowerLoss ==
    ASSUME LockInv, JournalType, SizeInv, PowerLoss
    PROVE  SizeInv'
<1>1. /\ JournalPowerLoss
      /\ \A q \in Process : pc'[q] \notin LogLabel
    BY DEF PowerLoss, Stop, LogLabel
<1>2. \A q \in Process : pc'[q] \in {"log_open", "log_write"} => pc'[q] \in LogLabel
    BY DEF LogLabel
<1>3. CASE UNCHANGED files
    BY <1>1, <1>2, <1>3 DEF SizeInv, LogBounded
<1> DEFINE last == Last(files[0])
           Shorter(part) == [last EXCEPT !.part = part, !.bytes = PartBytes(part, @)]
<1>4. ASSUME Content(0) # << >>,
             NEW tail,
             tail = << >> \/ \E part \in {"some", "body"} :
                 last.part = "line" /\ Shorter(part).bytes < last.bytes /\ tail = <<Shorter(part)>>,
             files' = [files EXCEPT ![0] = Front(@) \o tail]
      PROVE  SizeInv'
  <2>1. 0 \in DOMAIN files /\ files[0] \in Seq(FilePiece) /\ files[0] # << >>
      BY <1>4 DEF Content, Exists, JournalType
  <2>2. /\ Front(files[0]) \in Seq(FilePiece) /\ last \in FilePiece
        /\ Bytes(files[0]) = Bytes(Front(files[0])) + last.bytes /\ Bytes(Front(files[0])) \in Nat
      BY <2>1, BytesFront
  <2>3. Bytes(files[0]) <= MaxLogBytes /\ MaxLogBytes \in Nat /\ last.bytes \in Nat
      BY <2>1, <2>2, JournalConstants DEF SizeInv, LogBounded, FilePiece, Piece
  <2>4. Bytes(Front(files[0]) \o tail) <= MaxLogBytes
    <3>1. CASE tail = << >>
      <4>1. Front(files[0]) \o tail = Front(files[0])
          BY <2>2, <3>1, ConcatEmptySeq
      <4> QED BY <2>2, <2>3, <4>1
    <3>2. ASSUME NEW part \in {"some", "body"}, last.part = "line", Shorter(part).bytes < last.bytes,
                 tail = <<Shorter(part)>>
          PROVE  Bytes(Front(files[0]) \o tail) <= MaxLogBytes
      <4>1. PICK x : x = Shorter(part)
          OBVIOUS
      <4>2. x \in FilePiece /\ x.bytes < last.bytes /\ tail = <<x>>
          BY <2>2, <3>2, <4>1, ShorterPiece
      <4>3. Front(files[0]) \o tail = Append(Front(files[0]), x)
          BY <2>2, <4>2, AppendIsConcat
      <4>4. Bytes(Append(Front(files[0]), x)) = Bytes(Front(files[0])) + x.bytes /\ x.bytes \in Nat
          BY <2>2, <4>2, BytesAppend DEF FilePiece, Piece
      <4>5. Bytes(Front(files[0])) + x.bytes <= MaxLogBytes
        <5> HIDE DEF last
        <5> QED BY <2>2, <2>3, <4>2, <4>4
      <4> QED BY <4>3, <4>4, <4>5
    <3> QED BY <1>4, <3>1, <3>2
  <2>5. /\ files'[0] = Front(files[0]) \o tail /\ DOMAIN files' = DOMAIN files
        /\ \A n \in DOMAIN files : n # 0 => files'[n] = files[n]
      BY <1>4, <2>1
  <2>6. LogBounded'
      BY <2>4, <2>5 DEF SizeInv, LogBounded
  <2> QED BY <1>1, <1>2, <2>6 DEF SizeInv
<1> QED BY <1>1, <1>3, <1>4 DEF JournalPowerLoss

\* Steps outside the journal do not reach its files.
LEMMA SizeOutside ==
    ASSUME LockInv, JournalType, SizeInv,
           \/ SnapshotNext /\ UNCHANGED journalVars
           \/ \E p \in Process : LockRefused(p) /\ UNCHANGED <<journalVars, snapshotVars>>
           \/ UNCHANGED vars
    PROVE  SizeInv'
<1>1. UNCHANGED <<files, entry>>
    BY DEF vars, journalVars
<1>2. \A q \in Process : pc'[q] \in LogLabel => pc[q] \in LogLabel /\ pc'[q] = pc[q]
  <2>1. CASE LockInv /\ SnapshotNext
      BY <2>1, SnapshotsOutsideJournal DEF WorkLabel
  <2>2. CASE UNCHANGED pc
      BY <2>2
  <2> QED BY <2>1, <2>2 DEF LockRefused, vars, storageVars
<1>3. \A q \in Process : pc'[q] \in {"log_open", "log_write"} => pc'[q] \in LogLabel
    BY DEF LogLabel
<1> QED BY <1>1, <1>2, <1>3, SizeFrame

\* SizeInv is an invariant.
LEMMA SizeInvariance == Spec => []SizeInv
<1>1. Init => SizeInv
  <2> SUFFICES ASSUME Init PROVE SizeInv
      OBVIOUS
  <2>1. DOMAIN files = {} /\ \A p \in Process : pc[p] = "down"
      BY DEF Init, StorageInit, JournalInit
  <2> QED BY <2>1 DEF SizeInv, LogBounded, LogLabel
<1>2. StoreInv /\ SizeInv /\ [Next]_vars => SizeInv'
  <2> SUFFICES ASSUME StoreInv, SizeInv, [Next]_vars PROVE SizeInv'
      OBVIOUS
  <2>1. LockInv /\ JournalType
      BY DEF StoreInv
  <2>2. CASE Next
      BY <2>1, <2>2, SizeStep, SizeOutside, SizeCrash, SizePowerLoss DEF Next
  <2>3. CASE UNCHANGED vars
      BY <2>1, <2>3, SizeOutside
  <2> QED BY <2>2, <2>3
<1> QED BY <1>1, <1>2, Invariance, PTL DEF Spec

\* No file of the journal outgrows max_log_bytes: the size check of rotate_if_needed counts the
\* entry to come, and nobody else appends before that entry is written.
THEOREM FilesAreBounded == Spec => []LogBounded
<1>1. SizeInv => LogBounded
    BY DEF SizeInv
<1> QED BY <1>1, SizeInvariance, PTL
-----------------------------------------------------------------------------
(* Exports. *)

ExportFile == [state : {"pending", "published"}, content : Seq(FilePiece), source : Seq(FilePiece)]

\* A file of the export directory holds a beginning of the log it was made from, all of it under
\* its final name; the export in progress is the last one and has its pending name.
ExportOK(e) ==
    /\ \E n \in 0 .. Len(e.source) : e.content = SubSeq(e.source, 1, n)
    /\ e.state = "published" => e.content = e.source

ExportInv ==
    /\ exports \in Seq(ExportFile)
    /\ \A i \in DOMAIN exports : ExportOK(exports[i])
    /\ \A p \in Process : pc[p] \in {"export_copy", "export_publish"} =>
          exports # << >> /\ exports[Len(exports)].state = "pending"

\* Steps that are not of the export in progress.
LEMMA ExportFrame ==
    ASSUME ExportInv, UNCHANGED exports,
           \A q \in Process : pc'[q] \in {"export_copy", "export_publish"} => pc[q] = pc'[q]
    PROVE  ExportInv'
BY DEF ExportInv

\* A process that is inside another call, or outside of any, leaves the exports of others.
LEMMA ExportEnds ==
    ASSUME LockInv, NEW p \in Process, pc[p] \notin {"down", "idle"}, NEW l,
           l \notin {"export_copy", "export_publish"}, pc' = [pc EXCEPT ![p] = l]
    PROVE  \A q \in Process : pc'[q] \notin {"export_copy", "export_publish"}
BY DEF LockInv

\* The last export changes.
LEMMA LastExport ==
    ASSUME ExportInv, exports # << >>, NEW e \in ExportFile, ExportOK(e),
           exports' = [exports EXCEPT ![Len(exports)] = e]
    PROVE  /\ exports' \in Seq(ExportFile) /\ \A i \in DOMAIN exports' : ExportOK(exports'[i])
           /\ exports' # << >> /\ exports'[Len(exports')] = e
<1>1. exports \in Seq(ExportFile) /\ Len(exports) \in 1 .. Len(exports) /\ DOMAIN exports = 1 .. Len(exports)
    BY EmptySeq, LenProperties DEF ExportInv
<1>2. /\ exports' \in Seq(ExportFile) /\ Len(exports') = Len(exports) /\ exports'[Len(exports)] = e
      /\ \A j \in 1 .. Len(exports) : j # Len(exports) => exports'[j] = exports[j]
    BY <1>1, ExceptSeq, ZenonT(60)
<1>3. DOMAIN exports' = 1 .. Len(exports) /\ exports' # << >>
    BY <1>1, <1>2, LenProperties, EmptySeq
<1> QED BY <1>1, <1>2, <1>3 DEF ExportInv

LEMMA OpenExportStep ==
    ASSUME LockInv, JournalType, ExportInv, NEW p \in Process, OpenExport(p)
    PROVE  ExportInv'
<1>1. files[0] \in Seq(FilePiece)
    BY DEF OpenExport, Exists, JournalType
<1> DEFINE e == [state |-> "pending", content |-> << >>, source |-> files[0]]
<1>2. e \in ExportFile
    BY <1>1, EmptySeq DEF ExportFile
<1>3. ExportOK(e)
  <2>1. Len(files[0]) \in Nat
      BY <1>1, LenProperties
  <2>2. 0 \in 0 .. Len(e.source) /\ e.content = << >> /\ e.state # "published"
      BY <2>1
  <2>3. SubSeq(e.source, 1, 0) = << >>
      BY <1>1, SubSeqEmpty
  <2> QED BY <2>2, <2>3 DEF ExportOK
<1>4. exports' = Append(exports, e)
    BY DEF OpenExport
<1> HIDE DEF e
<1>5. exports \in Seq(ExportFile) /\ DOMAIN exports = 1 .. Len(exports) /\ Len(exports) \in Nat
    BY LenProperties DEF ExportInv
<1>6. /\ exports' \in Seq(ExportFile) /\ Len(exports') = Len(exports) + 1
      /\ \A i \in 1 .. Len(exports) : exports'[i] = exports[i]
      /\ exports'[Len(exports) + 1] = e
    BY <1>2, <1>4, <1>5, AppendProperties
<1>7. DOMAIN exports' = 1 .. Len(exports) + 1 /\ exports' # << >>
    BY <1>5, <1>6, LenProperties, EmptySeq
<1>8. \A i \in DOMAIN exports' : ExportOK(exports'[i])
  <2> SUFFICES ASSUME NEW i \in DOMAIN exports' PROVE ExportOK(exports'[i])
      OBVIOUS
  <2>1. i = Len(exports) + 1 \/ i \in DOMAIN exports
      BY <1>5, <1>7
  <2> QED BY <1>3, <1>5, <1>6, <2>1 DEF ExportInv
<1>9. e.state = "pending"
    BY DEF e
<1> QED BY <1>6, <1>7, <1>8, <1>9 DEF ExportInv

LEMMA CopyStep ==
    ASSUME LockInv, JournalType, ExportInv, NEW p \in Process, Copy(p)
    PROVE  ExportInv'
<1>1. pc[p] = "export_copy" /\ pc' = [pc EXCEPT ![p] = "export_publish"]
    BY DEF Copy, Goto
<1>2. exports \in Seq(ExportFile) /\ exports # << >> /\ exports[Len(exports)].state = "pending"
    BY <1>1 DEF ExportInv
<1>3. PICK c : c = exports[Len(exports)]
    OBVIOUS
<1>4. Len(exports) \in DOMAIN exports /\ c \in ExportFile /\ c.state = "pending"
    BY <1>2, <1>3, EmptySeq, LenProperties, ElementOfSeq
<1>5. PICK n \in 0 .. Len(c.source) : exports' = [exports EXCEPT ![Len(exports)].content = SubSeq(c.source, 1, n)]
    BY <1>3 DEF Copy
<1>6. PICK e : e = [c EXCEPT !.content = SubSeq(c.source, 1, n)]
    OBVIOUS
<1>7. exports' = [exports EXCEPT ![Len(exports)] = e]
    BY <1>3, <1>4, <1>5, <1>6
<1>8. c.source \in Seq(FilePiece) /\ Len(c.source) \in Nat
    BY <1>4, LenProperties DEF ExportFile
<1>9. SubSeq(c.source, 1, n) \in Seq(FilePiece)
  <2>1. n \in Nat /\ \A i \in 1 .. n : c.source[i] \in FilePiece
      BY <1>5, <1>8, ElementOfSeq
  <2> QED BY <1>8, <2>1, SubSeqProperties
<1>10. e \in ExportFile /\ e.state = "pending" /\ e.source = c.source /\ e.content = SubSeq(c.source, 1, n)
    BY <1>4, <1>6, <1>9 DEF ExportFile
<1>11. ExportOK(e)
    BY <1>5, <1>10 DEF ExportOK
<1>12. /\ exports' \in Seq(ExportFile) /\ \A i \in DOMAIN exports' : ExportOK(exports'[i])
       /\ exports' # << >> /\ exports'[Len(exports')].state = "pending"
    BY <1>2, <1>7, <1>10, <1>11, LastExport
<1> QED BY <1>12 DEF ExportInv

LEMMA PublishStep ==
    ASSUME LockInv, JournalType, ExportInv, NEW p \in Process, Publish(p)
    PROVE  ExportInv'
<1>1. pc[p] = "export_publish" /\ pc' = [pc EXCEPT ![p] = "idle"] /\ ExportVerified(exports[Len(exports)])
    BY DEF Publish, Return, Goto
<1>2. exports \in Seq(ExportFile) /\ exports # << >>
    BY <1>1 DEF ExportInv
<1>3. PICK c : c = exports[Len(exports)]
    OBVIOUS
<1>4. Len(exports) \in DOMAIN exports /\ c \in ExportFile
    BY <1>2, <1>3, EmptySeq, LenProperties, ElementOfSeq
<1>5. c.source \in Seq(FilePiece) /\ Bytes(c.content) = Bytes(c.source)
    BY <1>1, <1>3, <1>4 DEF ExportFile, ExportVerified
<1>6. PICK n \in 0 .. Len(c.source) : c.content = SubSeq(c.source, 1, n)
    BY <1>3, <1>4 DEF ExportInv, ExportOK
<1>7. c.content = c.source
    BY <1>5, <1>6, BytesPrefix
<1>8. PICK e : e = [c EXCEPT !.state = "published"]
    OBVIOUS
<1>9. e \in ExportFile /\ e.content = c.content /\ e.source = c.source
    BY <1>4, <1>8 DEF ExportFile
<1>10. ExportOK(e)
    BY <1>6, <1>7, <1>9 DEF ExportOK
<1>11. exports' = [exports EXCEPT ![Len(exports)] = e]
    BY <1>3, <1>4, <1>8 DEF Publish
<1>12. exports' \in Seq(ExportFile) /\ \A i \in DOMAIN exports' : ExportOK(exports'[i])
    BY <1>2, <1>9, <1>10, <1>11, LastExport
<1>13. \A q \in Process : pc'[q] \notin {"export_copy", "export_publish"}
    BY <1>1, ExportEnds
<1> QED BY <1>12, <1>13 DEF ExportInv

LEMMA ExportFailsStep ==
    ASSUME LockInv, JournalType, ExportInv, NEW p \in Process, ExportFails(p)
    PROVE  ExportInv'
<1>1. /\ pc[p] \in {"export_copy", "export_publish"} /\ pc' = [pc EXCEPT ![p] = "idle"]
      /\ exports' = exports \/ exports' = Front(exports)
    BY DEF ExportFails, Return, Goto
<1>2. \A q \in Process : pc'[q] \notin {"export_copy", "export_publish"}
    BY <1>1, ExportEnds
<1>3. CASE exports' = exports
    BY <1>2, <1>3 DEF ExportInv
<1>4. CASE exports' = Front(exports)
  <2>1. exports \in Seq(ExportFile) /\ exports # << >>
      BY <1>1 DEF ExportInv
  <2>2. Len(exports) \in Nat /\ Len(exports) > 0 /\ DOMAIN exports = 1 .. Len(exports)
      BY <2>1, EmptySeq, LenProperties
  <2>3. PICK k : k = Len(exports) - 1
      OBVIOUS
  <2>4. k \in Nat /\ Len(exports) = k + 1 /\ \A i \in 1 .. k : exports[i] \in ExportFile
      BY <2>1, <2>2, <2>3, ElementOfSeq
  <2>5. exports' = SubSeq(exports, 1, k)
      BY <1>4, <2>3 DEF Front
  <2>6. /\ exports' \in Seq(ExportFile)
        /\ Len(exports') = IF 1 <= k THEN k - 1 + 1 ELSE 0
        /\ \A i \in 1 .. k - 1 + 1 : exports'[i] = exports[1 + i - 1]
      BY <2>1, <2>4, <2>5, SubSeqProperties
  <2>7. Len(exports') = k /\ \A i \in 1 .. k : exports'[i] = exports[i]
      BY <2>4, <2>6
  <2>8. DOMAIN exports' = 1 .. k
      BY <2>6, <2>7, LenProperties
  <2>9. \A i \in DOMAIN exports' : ExportOK(exports'[i])
      BY <2>2, <2>4, <2>7, <2>8 DEF ExportInv
  <2> QED BY <1>2, <2>6, <2>9 DEF ExportInv
<1> QED BY <1>1, <1>3, <1>4

\* ExportInv is an invariant.
LEMMA ExportInvariance == Spec => []ExportInv
<1>1. Init => ExportInv
  <2> SUFFICES ASSUME Init PROVE ExportInv
      OBVIOUS
  <2>1. exports = << >> /\ \A p \in Process : pc[p] = "down"
      BY DEF Init, StorageInit, JournalInit
  <2>2. exports \in Seq(ExportFile) /\ DOMAIN exports = {}
      BY <2>1, EmptySeq
  <2> QED BY <2>1, <2>2 DEF ExportInv
<1>2. StoreInv /\ ExportInv /\ [Next]_vars => ExportInv'
  <2> SUFFICES ASSUME StoreInv, ExportInv, [Next]_vars PROVE ExportInv'
      OBVIOUS
  <2>1. LockInv /\ JournalType
      BY DEF StoreInv
  <2> DEFINE Away == \A q \in Process : pc'[q] \in {"export_copy", "export_publish"} => pc[q] = pc'[q]
  <2>2. ASSUME NEW p \in Process,
               \/ JournalStart(p) \/ Load(p) \/ LoadFails(p) \/ ClearMemory(p)
               \/ \E bytes \in EntrySizes : Log(p, bytes) \/ LogTooLarge(p, bytes)
               \/ Rotate(p) \/ Shift(p) \/ RotationFails(p)
        PROVE  ExportInv'
    <3>1. exports' = exports
        BY <2>2 DEF JournalStart, Load, LoadFails, ClearMemory, Log, LogTooLarge, Rotate, Shift, RotationFails,
           journalVars
    <3>2. Away
        BY <2>1, <2>2 DEF JournalStart, Load, LoadFails, ClearMemory, Log, LogTooLarge, Rotate, Shift,
           RotationFails, LogEnds, Acquire, Return, Goto, LockInv, storageVars
    <3> QED BY <3>1, <3>2, ExportFrame
  <2>3. ASSUME NEW p \in Process,
               \/ OpenLog(p) \/ OpenLogFails(p) \/ Write(p) \/ WriteFails(p) \/ Sync(p) \/ SyncFails(p)
               \/ Export(p) \/ OpenExportFails(p)
        PROVE  ExportInv'
    <3>1. exports' = exports
        BY <2>3 DEF OpenLog, OpenLogFails, Write, WriteFails, Sync, SyncFails, Export, OpenExportFails,
           journalVars
    <3>2. Away
        BY <2>1, <2>3 DEF OpenLog, OpenLogFails, Write, WriteFails, Sync, SyncFails, Export, OpenExportFails,
           LogEnds, Acquire, Step, Return, Goto, LockInv
    <3> QED BY <3>1, <3>2, ExportFrame
  <2>4. CASE JournalNext
      BY <2>1, <2>2, <2>3, <2>4, OpenExportStep, CopyStep, PublishStep, ExportFailsStep DEF JournalNext
  <2>5. CASE SnapshotNext /\ UNCHANGED journalVars
    <3>1. Away
        BY <2>1, <2>5, SnapshotsOutsideJournal DEF WorkLabel
    <3> QED BY <2>5, <3>1, ExportFrame DEF journalVars
  <2>6. CASE UNCHANGED vars \/ \E p \in Process : LockRefused(p) /\ UNCHANGED <<journalVars, snapshotVars>>
      BY <2>6, ExportFrame DEF vars, LockRefused, storageVars, journalVars
  <2>7. ASSUME NEW p \in Process, Crash(p) PROVE ExportInv'
      BY <2>7, ExportFrame DEF Crash, Stop, JournalCrash
  <2>8. CASE PowerLoss
      BY <2>8, ExportFrame DEF PowerLoss, Stop, JournalPowerLoss
  <2> QED BY <2>4, <2>5, <2>6, <2>7, <2>8 DEF Next
<1> QED BY <1>1, <1>2, Invariance, PTL DEF Spec

\* export_copy publishes complete copies only: equal lengths mean equal files, since a copy is a
\* beginning of the log and every piece of it has at least one byte.
THEOREM PublishedExportsAreComplete == Spec => []ExportsComplete
<1>1. ExportInv => ExportsComplete
    BY DEF ExportInv, ExportOK, ExportsComplete
<1> QED BY <1>1, ExportInvariance, PTL
-----------------------------------------------------------------------------
(* The files are an unbroken end of the history. *)

\* The pieces of s after the first a, up to b.
Part(s, a, b) == SubSeq(s, a + 1, b)

LEMMA PartProperties ==
    ASSUME NEW s \in Seq(FilePiece), NEW a \in Nat, NEW b \in Nat, a <= b, b <= Len(s)
    PROVE  /\ Part(s, a, b) \in Seq(FilePiece) /\ Len(Part(s, a, b)) = b - a
           /\ \A i \in 1 .. b - a : Part(s, a, b)[i] = s[a + i]
<1>1. Len(s) \in Nat
    BY LenProperties
<1>2. \A i \in a + 1 .. b : s[i] \in FilePiece
    BY <1>1, ElementOfSeq
<1>3. /\ Part(s, a, b) \in Seq(FilePiece)
      /\ Len(Part(s, a, b)) = IF a + 1 <= b THEN b - (a + 1) + 1 ELSE 0
      /\ \A i \in 1 .. b - (a + 1) + 1 : Part(s, a, b)[i] = s[a + 1 + i - 1]
    BY <1>2, SubSeqProperties DEF Part
<1> QED BY <1>3, SMTT(30)

\* The first pieces of s.
LEMMA PartPrefix ==
    ASSUME NEW s \in Seq(FilePiece), NEW b \in Nat, b <= Len(s)
    PROVE  /\ Part(s, 0, b) \in Seq(FilePiece) /\ Len(Part(s, 0, b)) = b
           /\ \A i \in 1 .. b : Part(s, 0, b)[i] = s[i]
<1>1. PICK a \in Nat : a = 0
    OBVIOUS
<1>2. a <= b
    BY <1>1
<1>3. PICK x : x = Part(s, a, b)
    OBVIOUS
<1>4. x \in Seq(FilePiece) /\ Len(x) = b - a /\ \A i \in 1 .. b - a : x[i] = s[a + i]
    BY <1>2, <1>3, PartProperties
<1>5. Len(x) = b /\ \A i \in 1 .. b : x[i] = s[i]
    BY <1>1, <1>4
<1> QED BY <1>1, <1>3, <1>4, <1>5

\* Two sequences that agree up to b have the same parts up to b.
LEMMA PartStable ==
    ASSUME NEW s \in Seq(FilePiece), NEW t \in Seq(FilePiece), NEW a \in Nat, NEW b \in Nat,
           a <= b, b <= Len(s), b <= Len(t), \A i \in 1 .. b : s[i] = t[i]
    PROVE  Part(s, a, b) = Part(t, a, b)
<1>1. PICK x, y : x = Part(s, a, b) /\ y = Part(t, a, b)
    OBVIOUS
<1>2. x \in Seq(FilePiece) /\ Len(x) = b - a /\ \A i \in 1 .. b - a : x[i] = s[a + i]
    BY <1>1, PartProperties
<1>3. y \in Seq(FilePiece) /\ Len(y) = b - a /\ \A i \in 1 .. b - a : y[i] = t[a + i]
    BY <1>1, PartProperties
<1>4. \A i \in 1 .. Len(x) : x[i] = y[i]
  <2> SUFFICES ASSUME NEW i \in 1 .. Len(x) PROVE x[i] = y[i]
      OBVIOUS
  <2>1. i \in 1 .. b - a /\ a + i \in 1 .. b
      BY <1>2
  <2> QED BY <1>2, <1>3, <2>1
<1>5. Len(x) = Len(y)
    BY <1>2, <1>3
<1>6. x = y
    BY <1>2, <1>3, <1>4, <1>5, SeqEqual
<1> QED BY <1>1, <1>6

\* Adjacent parts.
LEMMA PartJoin ==
    ASSUME NEW s \in Seq(FilePiece), NEW a \in Nat, NEW b \in Nat, NEW d \in Nat,
           a <= b, b <= d, d <= Len(s)
    PROVE  Part(s, a, b) \o Part(s, b, d) = Part(s, a, d)
<1>1. Len(s) \in Nat /\ b <= Len(s) /\ a <= d
    BY LenProperties
<1>2. PICK x, y, z : x = Part(s, a, b) /\ y = Part(s, b, d) /\ z = Part(s, a, d)
    OBVIOUS
<1>3. x \in Seq(FilePiece) /\ Len(x) = b - a /\ \A i \in 1 .. b - a : x[i] = s[a + i]
    BY <1>1, <1>2, PartProperties
<1>4. y \in Seq(FilePiece) /\ Len(y) = d - b /\ \A i \in 1 .. d - b : y[i] = s[b + i]
    BY <1>1, <1>2, PartProperties
<1>5. z \in Seq(FilePiece) /\ Len(z) = d - a /\ \A i \in 1 .. d - a : z[i] = s[a + i]
    BY <1>1, <1>2, PartProperties
<1>6. PICK v : v = x \o y
    OBVIOUS
<1>7. /\ v \in Seq(FilePiece) /\ Len(v) = Len(x) + Len(y)
      /\ \A i \in 1 .. Len(x) + Len(y) : v[i] = IF i <= Len(x) THEN x[i] ELSE y[i - Len(x)]
    BY <1>3, <1>4, <1>6, ConcatProperties
<1>8. Len(v) = d - a /\ Len(v) = Len(z)
    BY <1>3, <1>4, <1>5, <1>7
<1>9. ASSUME NEW i \in 1 .. Len(v) PROVE v[i] = z[i]
  <2>1. i \in 1 .. d - a /\ i \in 1 .. Len(x) + Len(y) /\ z[i] = s[a + i]
      BY <1>5, <1>7, <1>8
  <2>2. CASE i <= b - a
    <3>1. i \in 1 .. b - a /\ i <= Len(x)
        BY <1>3, <2>1, <2>2
    <3> QED BY <1>3, <1>7, <2>1, <3>1
  <2>3. CASE i > b - a
    <3>1. i - (b - a) \in 1 .. d - b /\ b + (i - (b - a)) = a + i /\ ~ (i <= Len(x)) /\ i - Len(x) = i - (b - a)
        BY <1>3, <2>1, <2>3
    <3>2. v[i] = y[i - (b - a)] /\ y[i - (b - a)] = s[b + (i - (b - a))]
        BY <1>4, <1>7, <2>1, <3>1
    <3> QED BY <2>1, <3>1, <3>2
  <2> QED BY <2>1, <2>2, <2>3
<1>10. v = z
    BY <1>5, <1>7, <1>8, <1>9, SeqEqual
<1> QED BY <1>2, <1>6, <1>10

\* The parts of a concatenation.
LEMMA PartConcat ==
    ASSUME NEW s \in Seq(FilePiece), NEW t \in Seq(FilePiece), NEW a \in Nat, a <= Len(s)
    PROVE  Part(s \o t, a, Len(s) + Len(t)) = Part(s, a, Len(s)) \o t
<1>1. PICK k, m, u : k = Len(s) /\ m = Len(s) + Len(t) /\ u = s \o t
    OBVIOUS
<1>2. k \in Nat /\ m \in Nat /\ Len(t) \in Nat /\ m = k + Len(t) /\ a <= k /\ k <= m
    BY <1>1, LenProperties
<1>3. /\ u \in Seq(FilePiece) /\ Len(u) = m
      /\ \A i \in 1 .. m : u[i] = IF i <= k THEN s[i] ELSE t[i - k]
    BY <1>1, ConcatProperties
<1>4. Part(u, a, k) \o Part(u, k, m) = Part(u, a, m)
  <2>1. m <= Len(u)
      BY <1>2, <1>3
  <2> QED BY <1>2, <1>3, <2>1, PartJoin
<1>5. Part(u, a, k) = Part(s, a, k)
  <2>1. k <= Len(u) /\ k <= Len(s)
      BY <1>1, <1>2, <1>3
  <2>2. \A i \in 1 .. k : u[i] = s[i]
      BY <1>2, <1>3
  <2> QED BY <1>2, <1>3, <2>1, <2>2, PartStable
<1>6. Part(u, k, m) = t
  <2>1. PICK y : y = Part(u, k, m)
      OBVIOUS
  <2>2. m <= Len(u)
      BY <1>2, <1>3
  <2>3. y \in Seq(FilePiece) /\ Len(y) = m - k /\ \A i \in 1 .. m - k : y[i] = u[k + i]
      BY <1>2, <1>3, <2>1, <2>2, PartProperties
  <2>4. Len(y) = Len(t)
      BY <1>2, <2>3
  <2>5. ASSUME NEW i \in 1 .. Len(y) PROVE y[i] = t[i]
    <3>1. i \in 1 .. m - k /\ k + i \in 1 .. m /\ ~ (k + i <= k) /\ k + i - k = i
        BY <1>2, <2>4
    <3>2. y[i] = u[k + i]
        BY <2>3, <3>1
    <3>3. PICK j : j = k + i
        OBVIOUS
    <3>4. j \in 1 .. m /\ ~ (j <= k) /\ j - k = i
        BY <1>2, <3>1, <3>3
    <3>5. u[j] = t[j - k]
        BY <1>3, <3>4
    <3> QED BY <3>2, <3>3, <3>4, <3>5
  <2>6. y = t
      BY <2>3, <2>4, <2>5, SeqEqual
  <2> QED BY <2>1, <2>6
<1>7. Part(u, a, m) = Part(s, a, k) \o t
    BY <1>4, <1>5, <1>6
<1> QED BY <1>1, <1>7

\* What a sequence without its last element is.
LEMMA FrontIsPart == \A s : Len(s) \in Nat => Front(s) = Part(s, 0, Len(s) - 1)
BY DEF Front, Part

\* The file of a slot; a slot without one is empty.
FileAt(fs, n) == IF n \in DOMAIN fs THEN fs[n] ELSE << >>

\* cut[n + 1] and cut[n] are the places in the history where the file of slot n begins and ends.
Cuts(cut, fs, w) ==
    /\ cut \in [0 .. MaxArchives + 1 -> 0 .. Len(w)]
    /\ cut[0] = Len(w)
    /\ \A m, n \in 0 .. MaxArchives + 1 : m <= n => cut[n] <= cut[m]
    /\ \A n \in Slot : FileAt(fs, n) = Part(w, cut[n + 1], cut[n])

\* The files follow one another in the history, and who is about to write has opened the log.
SegmentInv ==
    /\ \E cut : Cuts(cut, files, written)
    /\ \A p \in Process : pc[p] = "log_write" => 0 \in DOMAIN files

\* Files that read the same.
LEMMA CutsSame ==
    ASSUME NEW cut, NEW fs, NEW gs, NEW w, Cuts(cut, fs, w), \A n \in Slot : FileAt(gs, n) = FileAt(fs, n)
    PROVE  Cuts(cut, gs, w)
BY DEF Cuts

\* What is added to the log is added to the history.
LEMMA CutsConcat ==
    ASSUME NEW cut, NEW fs, NEW w \in Seq(FilePiece), NEW t \in Seq(FilePiece), Cuts(cut, fs, w),
           0 \in DOMAIN fs
    PROVE  \E c : Cuts(c, [fs EXCEPT ![0] = @ \o t], w \o t)
<1>1. MaxArchives \in Nat /\ Len(w) \in Nat /\ Len(t) \in Nat /\ MaxArchives > 0
    BY LenProperties, JournalConstants
<1>2. PICK u, gs, m : u = w \o t /\ gs = [fs EXCEPT ![0] = @ \o t] /\ m = Len(w) + Len(t)
    OBVIOUS
<1>3. /\ u \in Seq(FilePiece) /\ Len(u) = m /\ m \in Nat /\ Len(w) <= m
      /\ \A i \in 1 .. m : u[i] = IF i <= Len(w) THEN w[i] ELSE t[i - Len(w)]
    BY <1>1, <1>2, ConcatProperties
<1>4. PICK c : c = [cut EXCEPT ![0] = m]
    OBVIOUS
<1>5. cut \in [0 .. MaxArchives + 1 -> 0 .. Len(w)] /\ cut[0] = Len(w)
      /\ \A i, j \in 0 .. MaxArchives + 1 : i <= j => cut[j] <= cut[i]
    BY DEF Cuts
<1>6. c[0] = m /\ \A i \in 0 .. MaxArchives + 1 : i # 0 => c[i] = cut[i]
    BY <1>1, <1>4, <1>5
<1>7. c \in [0 .. MaxArchives + 1 -> 0 .. Len(u)]
    BY <1>1, <1>3, <1>4, <1>5
<1>8. ASSUME NEW i \in 0 .. MaxArchives + 1, NEW j \in 0 .. MaxArchives + 1, i <= j PROVE c[j] <= c[i]
  <2>1. CASE i = 0
      BY <1>3, <1>6, <1>7, <2>1
  <2>2. CASE i # 0
    <3>1. j # 0
        BY <1>8, <2>2
    <3> QED BY <1>5, <1>6, <1>8, <2>2, <3>1
  <2> QED BY <2>1, <2>2
<1>9. ASSUME NEW n \in Slot PROVE FileAt(gs, n) = Part(u, c[n + 1], c[n])
  <2>1. n \in 0 .. MaxArchives + 1 /\ n + 1 \in 0 .. MaxArchives + 1 /\ n + 1 # 0 /\ n \in Nat
      BY <1>1 DEF Slot
  <2>2. PICK a, b : a = cut[n + 1] /\ b = cut[n]
      OBVIOUS
  <2>3. a \in Nat /\ b \in Nat /\ a <= b /\ b <= Len(w) /\ c[n + 1] = a /\ FileAt(fs, n) = Part(w, a, b)
    <3>1. a \in 0 .. Len(w) /\ b \in 0 .. Len(w)
        BY <1>5, <2>1, <2>2
    <3>2. n <= n + 1
        BY <2>1
    <3>3. a <= b
        BY <1>5, <2>1, <2>2, <3>2
    <3>4. c[n + 1] = a
        BY <1>6, <2>1, <2>2
    <3>5. FileAt(fs, n) = Part(w, a, b)
        BY <2>2 DEF Cuts
    <3> QED BY <1>1, <3>1, <3>3, <3>4, <3>5
  <2>4. CASE n = 0
    <3>1. b = Len(w) /\ c[n] = m
        BY <1>5, <1>6, <2>2, <2>4
    <3>2. FileAt(gs, n) = FileAt(fs, n) \o t
        BY <1>2, <2>4 DEF FileAt
    <3>3. Part(u, a, m) = Part(w, a, b) \o t
        BY <1>2, <2>3, <3>1, PartConcat
    <3> QED BY <2>3, <3>1, <3>2, <3>3
  <2>5. CASE n # 0
    <3>1. c[n] = b /\ FileAt(gs, n) = FileAt(fs, n)
        BY <1>2, <1>6, <2>1, <2>2, <2>5 DEF FileAt
    <3>2. b <= Len(u) /\ \A i \in 1 .. b : u[i] = w[i]
        BY <1>1, <1>3, <2>3
    <3>3. Part(u, a, b) = Part(w, a, b)
        BY <1>3, <2>3, <3>2, PartStable
    <3> QED BY <2>3, <3>1, <3>3
  <2> QED BY <2>4, <2>5
<1>10. c[0] = Len(u)
    BY <1>3, <1>6
<1>11. Cuts(c, gs, u)
    BY <1>7, <1>8, <1>9, <1>10 DEF Cuts
<1> QED BY <1>2, <1>11

\* A loss of power takes the last piece of the log, which is the last of the history.
LEMMA CutsFront ==
    ASSUME NEW cut, NEW fs, NEW w \in Seq(FilePiece), Cuts(cut, fs, w), 0 \in DOMAIN fs, fs[0] # << >>
    PROVE  Front(w) \in Seq(FilePiece) /\ \E c : Cuts(c, [fs EXCEPT ![0] = Front(@)], Front(w))
<1>1. MaxArchives \in Nat /\ Len(w) \in Nat /\ MaxArchives > 0
    BY LenProperties, JournalConstants
<1>2. cut \in [0 .. MaxArchives + 1 -> 0 .. Len(w)] /\ cut[0] = Len(w)
      /\ \A i, j \in 0 .. MaxArchives + 1 : i <= j => cut[j] <= cut[i]
    BY DEF Cuts
<1>3. PICK a : a = cut[1]
    OBVIOUS
<1>4. a \in Nat /\ a <= Len(w) /\ fs[0] = Part(w, a, Len(w))
  <2>1. 0 \in Slot /\ 0 + 1 = 1
      BY <1>1 DEF Slot
  <2>2. FileAt(fs, 0) = Part(w, cut[0 + 1], cut[0])
      BY <2>1 DEF Cuts
  <2> QED BY <1>1, <1>2, <1>3, <2>1, <2>2 DEF FileAt
<1>5. fs[0] \in Seq(FilePiece) /\ Len(fs[0]) = Len(w) - a /\ \A i \in 1 .. Len(w) - a : fs[0][i] = w[a + i]
  <2>1. PICK b \in Nat : b = Len(w)
      BY <1>1
  <2>2. PICK x : x = Part(w, a, b)
      OBVIOUS
  <2>3. a \in Nat /\ a <= b /\ b <= Len(w)
      BY <1>4, <2>1
  <2>4. x \in Seq(FilePiece) /\ Len(x) = b - a /\ \A i \in 1 .. b - a : x[i] = w[a + i]
      BY <2>2, <2>3, PartProperties
  <2>5. fs[0] = x
      BY <1>4, <2>1, <2>2
  <2> QED BY <2>1, <2>4, <2>5
<1>6. Len(fs[0]) # 0
    BY <1>5, EmptySeq
<1>7. PICK k : k = Len(w) - 1
    OBVIOUS
<1>8. k \in Nat /\ Len(w) = k + 1 /\ a <= k /\ k <= Len(w)
    BY <1>1, <1>4, <1>5, <1>6, <1>7
<1>9. PICK u : u = Front(w)
    OBVIOUS
<1>10. u = Part(w, 0, k)
    BY <1>1, <1>7, <1>9, FrontIsPart
<1>12. u \in Seq(FilePiece) /\ Len(u) = k /\ \A i \in 1 .. k : u[i] = w[i]
    BY <1>8, <1>10, PartPrefix
<1>13. PICK gs, c : gs = [fs EXCEPT ![0] = Front(@)] /\ c = [cut EXCEPT ![0] = k]
    OBVIOUS
<1>14. c[0] = k /\ \A i \in 0 .. MaxArchives + 1 : i # 0 => c[i] = cut[i] /\ c[i] \in 0 .. k
  <2>1. c[0] = k /\ \A i \in 0 .. MaxArchives + 1 : i # 0 => c[i] = cut[i]
      BY <1>1, <1>2, <1>13
  <2>2. ASSUME NEW i \in 0 .. MaxArchives + 1, i # 0 PROVE cut[i] \in 0 .. k
    <3>1. cut[i] <= cut[1] /\ cut[i] \in 0 .. Len(w)
        BY <1>1, <1>2, <2>2
    <3> QED BY <1>1, <1>3, <1>4, <1>8, <3>1
  <2> QED BY <2>1, <2>2
<1>15. c \in [0 .. MaxArchives + 1 -> 0 .. Len(u)] /\ c[0] = Len(u)
  <2>1. DOMAIN c = 0 .. MaxArchives + 1 /\ c = [i \in 0 .. MaxArchives + 1 |-> c[i]]
      BY <1>2, <1>13
  <2>2. \A i \in 0 .. MaxArchives + 1 : c[i] \in 0 .. Len(u)
      BY <1>8, <1>12, <1>14
  <2> QED BY <1>12, <1>14, <2>1, <2>2
<1>16. ASSUME NEW i \in 0 .. MaxArchives + 1, NEW j \in 0 .. MaxArchives + 1, i <= j PROVE c[j] <= c[i]
  <2>1. CASE i = 0
      BY <1>8, <1>12, <1>14, <1>15, <2>1
  <2>2. CASE i # 0
    <3>1. j # 0
        BY <1>16, <2>2
    <3> QED BY <1>2, <1>14, <1>16, <2>2, <3>1
  <2> QED BY <2>1, <2>2
<1>17. ASSUME NEW n \in Slot PROVE FileAt(gs, n) = Part(u, c[n + 1], c[n])
  <2>1. n \in 0 .. MaxArchives + 1 /\ n + 1 \in 0 .. MaxArchives + 1 /\ n + 1 # 0 /\ n \in Nat
      BY <1>1 DEF Slot
  <2>2. CASE n = 0
    <3>1. c[n + 1] = a /\ c[n] = k
        BY <1>1, <1>3, <1>14, <2>1, <2>2
    <3>2. FileAt(gs, n) = Front(fs[0])
        BY <1>13, <2>2 DEF FileAt
    <3>3. PICK x, y : x = Part(u, a, k) /\ y = Front(fs[0])
        OBVIOUS
    <3>4. x \in Seq(FilePiece) /\ Len(x) = k - a /\ \A i \in 1 .. k - a : x[i] = u[a + i]
      <4>1. k <= Len(u)
          BY <1>8, <1>12
      <4> QED BY <1>4, <1>8, <1>12, <3>3, <4>1, PartProperties
    <3>5. PICK l : l = Len(fs[0]) - 1
        OBVIOUS
    <3>6. l \in Nat /\ l = k - a /\ l <= Len(fs[0]) /\ y = Part(fs[0], 0, l)
      <4>1. Len(fs[0]) \in Nat
          BY <1>5, LenProperties
      <4>2. y = Part(fs[0], 0, l)
          BY <3>3, <3>5, <4>1, FrontIsPart
      <4> QED BY <1>4, <1>5, <1>8, <3>5, <4>1, <4>2
    <3>7. y \in Seq(FilePiece) /\ Len(y) = l /\ \A i \in 1 .. l : y[i] = fs[0][i]
        BY <1>5, <3>6, PartPrefix
    <3>8. Len(x) = Len(y)
        BY <3>4, <3>6, <3>7
    <3>9. ASSUME NEW i \in 1 .. Len(x) PROVE x[i] = y[i]
      <4>1. /\ i \in 1 .. k - a /\ a + i \in 1 .. k /\ i \in 1 .. l /\ i \in 1 .. Len(w) - a
          BY <1>4, <1>8, <3>4, <3>6
      <4>2. x[i] = u[a + i] /\ u[a + i] = w[a + i]
          BY <1>12, <3>4, <4>1
      <4>3. y[i] = fs[0][i] /\ fs[0][i] = w[a + i]
          BY <1>5, <3>7, <4>1
      <4> QED BY <4>1, <4>2, <4>3
    <3>10. x = y
        BY <3>4, <3>7, <3>8, <3>9, SeqEqual
    <3> QED BY <3>1, <3>2, <3>3, <3>10
  <2>3. CASE n # 0
    <3>1. PICK d, b : d = cut[n + 1] /\ b = cut[n]
        OBVIOUS
    <3>2. c[n + 1] = d /\ c[n] = b /\ d \in 0 .. k /\ b \in 0 .. k
        BY <1>14, <2>1, <2>3, <3>1
    <3>3. d <= b
      <4>1. n <= n + 1
          BY <2>1
      <4> QED BY <1>2, <2>1, <3>1, <4>1
    <3>4. FileAt(fs, n) = Part(w, d, b) /\ FileAt(gs, n) = FileAt(fs, n)
        BY <1>13, <2>3, <3>1 DEF Cuts, FileAt
    <3>5. d \in Nat /\ b \in Nat /\ b <= Len(w) /\ b <= Len(u) /\ \A i \in 1 .. b : u[i] = w[i]
        BY <1>8, <1>12, <3>2
    <3>6. Part(u, d, b) = Part(w, d, b)
        BY <1>12, <3>3, <3>5, PartStable
    <3> QED BY <3>2, <3>4, <3>6
  <2> QED BY <2>2, <2>3
<1>18. Cuts(c, gs, u)
    BY <1>15, <1>16, <1>17 DEF Cuts
<1> QED BY <1>9, <1>12, <1>13, <1>18

\* A part that ends where it begins.
LEMMA PartEmpty == \A w, a : a \in Nat => Part(w, a, a) = << >>
BY SubSeqEmpty DEF Part

\* rotate_if_needed gives up the oldest archive.
LEMMA CutsDrop ==
    ASSUME NEW cut, NEW fs, NEW gs, NEW w \in Seq(FilePiece), Cuts(cut, fs, w),
           FileAt(gs, MaxArchives) = << >>,
           \A n \in Slot : n # MaxArchives => FileAt(gs, n) = FileAt(fs, n)
    PROVE  \E c : Cuts(c, gs, w)
<1>1. MaxArchives \in Nat /\ Len(w) \in Nat /\ MaxArchives > 0
    BY LenProperties, JournalConstants
<1>2. cut \in [0 .. MaxArchives + 1 -> 0 .. Len(w)] /\ cut[0] = Len(w)
      /\ \A i, j \in 0 .. MaxArchives + 1 : i <= j => cut[j] <= cut[i]
    BY DEF Cuts
<1>3. PICK c, M : M = MaxArchives + 1 /\ c = [cut EXCEPT ![M] = cut[MaxArchives]]
    OBVIOUS
<1>4. M \in 0 .. MaxArchives + 1 /\ M # 0 /\ MaxArchives \in 0 .. MaxArchives + 1 /\ M # MaxArchives
    BY <1>1, <1>3
<1>5. /\ c \in [0 .. MaxArchives + 1 -> 0 .. Len(w)] /\ c[0] = Len(w)
      /\ c[M] = cut[MaxArchives] /\ \A i \in 0 .. MaxArchives + 1 : i # M => c[i] = cut[i]
    BY <1>1, <1>2, <1>3, <1>4
<1>6. ASSUME NEW i \in 0 .. MaxArchives + 1, NEW j \in 0 .. MaxArchives + 1, i <= j PROVE c[j] <= c[i]
  <2>1. CASE i = M
    <3>1. j = M
        BY <1>1, <1>3, <1>6, <2>1
    <3> QED BY <1>1, <1>5, <2>1, <3>1
  <2>2. CASE i # M /\ j = M
    <3>1. i <= MaxArchives
        BY <1>1, <1>3, <2>2
    <3> QED BY <1>2, <1>4, <1>5, <2>2, <3>1
  <2>3. CASE i # M /\ j # M
      BY <1>2, <1>5, <1>6, <2>3
  <2> QED BY <2>1, <2>2, <2>3
<1>7. ASSUME NEW n \in Slot PROVE FileAt(gs, n) = Part(w, c[n + 1], c[n])
  <2>1. n \in 0 .. MaxArchives + 1 /\ n + 1 \in 0 .. MaxArchives + 1 /\ n # M
      BY <1>1, <1>3 DEF Slot
  <2>2. CASE n = MaxArchives
    <3>1. c[n + 1] = cut[n] /\ c[n] = cut[n] /\ cut[n] \in Nat
        BY <1>1, <1>2, <1>3, <1>5, <2>1, <2>2
    <3> QED BY <2>2, <3>1, PartEmpty
  <2>3. CASE n # MaxArchives
    <3>1. n + 1 # M
        BY <1>1, <1>3, <2>1, <2>3
    <3>2. c[n + 1] = cut[n + 1] /\ c[n] = cut[n]
        BY <1>5, <2>1, <3>1
    <3> QED BY <2>3, <3>2 DEF Cuts
  <2> QED BY <2>2, <2>3
<1>8. Cuts(c, gs, w)
    BY <1>5, <1>6, <1>7 DEF Cuts
<1> QED BY <1>8

\* durable_rename moves a file to the next slot, which is free.
LEMMA CutsRename ==
    ASSUME NEW cut, NEW fs, NEW gs, NEW w \in Seq(FilePiece), Cuts(cut, fs, w),
           NEW k \in Slot, k < MaxArchives, FileAt(fs, k + 1) = << >>,
           FileAt(gs, k + 1) = FileAt(fs, k), FileAt(gs, k) = << >>,
           \A n \in Slot : n # k /\ n # k + 1 => FileAt(gs, n) = FileAt(fs, n)
    PROVE  \E c : Cuts(c, gs, w)
<1>1. MaxArchives \in Nat /\ Len(w) \in Nat /\ MaxArchives > 0 /\ k \in Nat
    BY LenProperties, JournalConstants DEF Slot
<1>2. cut \in [0 .. MaxArchives + 1 -> 0 .. Len(w)] /\ cut[0] = Len(w)
      /\ \A i, j \in 0 .. MaxArchives + 1 : i <= j => cut[j] <= cut[i]
    BY DEF Cuts
<1>3. PICK c, M : M = k + 1 /\ c = [cut EXCEPT ![M] = cut[k]]
    OBVIOUS
<1>4. /\ M \in 0 .. MaxArchives + 1 /\ M # 0 /\ k \in 0 .. MaxArchives + 1 /\ M # k
      /\ M + 1 \in 0 .. MaxArchives + 1 /\ M + 1 # M /\ M \in Slot /\ M <= M + 1 /\ k <= M
    BY <1>1, <1>3 DEF Slot
<1>5. /\ c \in [0 .. MaxArchives + 1 -> 0 .. Len(w)] /\ c[0] = Len(w)
      /\ c[M] = cut[k] /\ \A i \in 0 .. MaxArchives + 1 : i # M => c[i] = cut[i]
    BY <1>1, <1>2, <1>3, <1>4
<1>6. cut[M + 1] = cut[M]
  <2>1. PICK a, b : a = cut[M + 1] /\ b = cut[M]
      OBVIOUS
  <2>2. a \in Nat /\ b \in Nat /\ a <= b /\ b <= Len(w)
      BY <1>1, <1>2, <1>4, <2>1
  <2>3. Part(w, a, b) = << >>
      BY <1>3, <1>4, <2>1 DEF Cuts
  <2>4. Len(Part(w, a, b)) = b - a /\ Len(<< >>) = 0
      BY <2>2, PartProperties, EmptySeq
  <2>5. a = b
      BY <2>2, <2>3, <2>4
  <2> QED BY <2>1, <2>5
<1>7. ASSUME NEW i \in 0 .. MaxArchives + 1, NEW j \in 0 .. MaxArchives + 1, i <= j PROVE c[j] <= c[i]
  <2>1. CASE i = M
    <3>1. CASE j = M
        BY <1>1, <1>5, <2>1, <3>1
    <3>2. CASE j # M
      <4>1. k <= j
          BY <1>1, <1>3, <1>7, <2>1
      <4> QED BY <1>2, <1>4, <1>5, <2>1, <3>2, <4>1
    <3> QED BY <3>1, <3>2
  <2>2. CASE i # M /\ j = M
    <3>1. i <= k
        BY <1>1, <1>3, <1>7, <2>2
    <3> QED BY <1>2, <1>4, <1>5, <2>2, <3>1
  <2>3. CASE i # M /\ j # M
      BY <1>2, <1>5, <1>7, <2>3
  <2> QED BY <2>1, <2>2, <2>3
<1>8. ASSUME NEW n \in Slot PROVE FileAt(gs, n) = Part(w, c[n + 1], c[n])
  <2>1. n \in 0 .. MaxArchives + 1 /\ n + 1 \in 0 .. MaxArchives + 1
      BY <1>1 DEF Slot
  <2>2. CASE n = k
    <3>1. c[n + 1] = cut[k] /\ c[n] = cut[k] /\ cut[k] \in Nat
        BY <1>1, <1>2, <1>3, <1>4, <1>5, <2>2
    <3> QED BY <2>2, <3>1, PartEmpty
  <2>3. CASE n = k + 1
    <3>1. n = M /\ c[n] = cut[k] /\ c[n + 1] = cut[M]
        BY <1>3, <1>4, <1>5, <1>6, <2>3
    <3>2. FileAt(fs, k) = Part(w, cut[k + 1], cut[k])
        BY DEF Cuts
    <3> QED BY <1>3, <2>3, <3>1, <3>2
  <2>4. CASE n # k /\ n # k + 1
    <3>1. n # M /\ n + 1 # M
        BY <1>1, <1>3, <2>1, <2>4
    <3>2. c[n + 1] = cut[n + 1] /\ c[n] = cut[n]
        BY <1>5, <2>1, <3>1
    <3> QED BY <2>4, <3>2 DEF Cuts
  <2> QED BY <2>2, <2>3, <2>4
<1>9. Cuts(c, gs, w)
    BY <1>5, <1>7, <1>8 DEF Cuts
<1> QED BY <1>9

\* Steps that leave the files and open no log.
LEMMA SegmentFrame ==
    ASSUME SegmentInv, UNCHANGED <<files, written>>,
           \A q \in Process : pc'[q] = "log_write" => pc[q] = "log_write"
    PROVE  SegmentInv'
BY DEF SegmentInv

\* What is appended to the log is appended to the history.
LEMMA SegmentAppend ==
    ASSUME JournalType, SegmentInv, NEW p \in Process, pc[p] = "log_write",
           NEW part \in {"some", "body", "line"}, AppendPart(p, part)
    PROVE  \E cut : Cuts(cut, files', written')
<1>1. entry[p] \in Entry /\ 0 \in DOMAIN files
    BY DEF JournalType, LogLabel, SegmentInv
<1> DEFINE piece == [id |-> entry[p].id, part |-> part, bytes |-> PartBytes(part, entry[p].bytes)]
<1>2. piece \in FilePiece
    BY <1>1, PartType
<1>3. files' = [files EXCEPT ![0] = Append(@, piece)] /\ written' = Append(written, piece)
    BY DEF AppendPart
<1> HIDE DEF piece
<1>4. PICK t : t = <<piece>>
    OBVIOUS
<1>5. written \in Seq(FilePiece) /\ files[0] \in Seq(FilePiece) /\ t \in Seq(FilePiece)
    BY <1>1, <1>2, <1>4 DEF JournalType
<1>6. Append(written, piece) = written \o t /\ Append(files[0], piece) = files[0] \o t
    BY <1>2, <1>4, <1>5, AppendIsConcat
<1>7. files' = [files EXCEPT ![0] = @ \o t] /\ written' = written \o t
    BY <1>1, <1>3, <1>6
<1>8. PICK cut : Cuts(cut, files, written)
    BY DEF SegmentInv
<1>9. \E c : Cuts(c, [files EXCEPT ![0] = @ \o t], written \o t)
    BY <1>1, <1>5, <1>8, CutsConcat
<1> QED BY <1>7, <1>9

\* One turn of the rotation loop gives up the oldest archive or moves one file to a free slot.
LEMMA SegmentShift ==
    ASSUME JournalType, SegmentInv, NEW p \in Process, Shift(p)
    PROVE  \E cut : Cuts(cut, files', written')
<1>1. PICK cut : Cuts(cut, files, written)
    BY DEF SegmentInv
<1>2. written \in Seq(FilePiece) /\ written' = written /\ DOMAIN files \subseteq Slot /\ slot \in Slot
    BY DEF JournalType, Shift
<1>3. MaxArchives \in Nat /\ MaxArchives > 0
    BY JournalConstants
<1>4. PICK gs : gs = files'
    OBVIOUS
<1>5. CASE slot = MaxArchives /\ files' = Restrict(files, DOMAIN files \ {slot})
  <2>1. FileAt(gs, MaxArchives) = << >>
      BY <1>4, <1>5 DEF FileAt, Restrict
  <2>2. \A n \in Slot : n # MaxArchives => FileAt(gs, n) = FileAt(files, n)
      BY <1>4, <1>5 DEF FileAt, Restrict
  <2>3. \E c : Cuts(c, gs, written)
      BY <1>1, <1>2, <2>1, <2>2, CutsDrop
  <2> QED BY <1>2, <1>4, <2>3
<1>6. CASE slot < MaxArchives /\ Exists(slot) /\ RenameSlot(slot)
  <2>1. PICK k \in Slot : k = slot
      BY <1>2
  <2>2. /\ k < MaxArchives /\ k \in DOMAIN files /\ k + 1 \notin DOMAIN files /\ k # k + 1
        /\ gs = [m \in (DOMAIN files \ {k}) \cup {k + 1} |-> IF m = k + 1 THEN files[k] ELSE files[m]]
      BY <1>3, <1>4, <1>6, <2>1 DEF Exists, RenameSlot, Slot
  <2>3. FileAt(files, k + 1) = << >> /\ FileAt(gs, k + 1) = FileAt(files, k) /\ FileAt(gs, k) = << >>
      BY <2>2 DEF FileAt
  <2>4. \A n \in Slot : n # k /\ n # k + 1 => FileAt(gs, n) = FileAt(files, n)
      BY <2>2 DEF FileAt
  <2>5. k < MaxArchives
      BY <2>2
  <2>6. \E c : Cuts(c, gs, written)
      BY <1>1, <1>2, <2>3, <2>4, <2>5, CutsRename
  <2> QED BY <1>2, <1>4, <2>6
<1>7. CASE UNCHANGED files
    BY <1>1, <1>2, <1>7
<1> QED BY <1>5, <1>6, <1>7 DEF Shift

\* Opening the log creates it empty or changes nothing.
LEMMA SegmentOpen ==
    ASSUME SegmentInv, files' = [m \in DOMAIN files \cup {0} |-> Content(m)], written' = written
    PROVE  (\E cut : Cuts(cut, files', written')) /\ 0 \in DOMAIN files'
<1>1. PICK cut : Cuts(cut, files, written)
    BY DEF SegmentInv
<1>2. PICK gs : gs = files'
    OBVIOUS
<1>3. \A n \in Slot : FileAt(gs, n) = FileAt(files, n)
    BY <1>2 DEF FileAt, Content, Exists
<1>4. Cuts(cut, gs, written)
    BY <1>1, <1>3, CutsSame
<1> QED BY <1>2, <1>4

\* The journal's steps.
LEMMA SegmentStep ==
    ASSUME LockInv, JournalType, SegmentInv, JournalNext
    PROVE  SegmentInv'
<1> USE DEF journalVars, storageVars
<1> SUFFICES ASSUME NEW p \in Process,
        \/ JournalStart(p) \/ Load(p) \/ LoadFails(p)
        \/ \E bytes \in EntrySizes : Log(p, bytes) \/ LogTooLarge(p, bytes)
        \/ Rotate(p) \/ Shift(p) \/ RotationFails(p)
        \/ OpenLog(p) \/ OpenLogFails(p) \/ Write(p) \/ WriteFails(p) \/ Sync(p) \/ SyncFails(p)
        \/ ClearMemory(p)
        \/ Export(p) \/ OpenExport(p) \/ OpenExportFails(p) \/ Copy(p) \/ Publish(p) \/ ExportFails(p)
      PROVE SegmentInv'
    BY DEF JournalNext
<1>1. CASE JournalStart(p) \/ Load(p) \/ LoadFails(p) \/ ClearMemory(p) \/ Rotate(p)
    BY <1>1, SegmentFrame DEF JournalStart, Load, LoadFails, ClearMemory, Rotate, Acquire, Return, Goto, LockInv
<1>2. CASE \/ Export(p) \/ OpenExport(p) \/ OpenExportFails(p) \/ Copy(p) \/ Publish(p) \/ ExportFails(p)
    BY <1>2, SegmentFrame DEF Export, OpenExport, OpenExportFails, Copy, Publish, ExportFails, Acquire, Step,
       Return, Goto, LockInv
<1>3. CASE RotationFails(p) \/ Sync(p) \/ SyncFails(p)
    BY <1>3, SegmentFrame DEF RotationFails, Sync, SyncFails, LogEnds, Return, Goto, LockInv
<1>4. CASE \E bytes \in EntrySizes : Log(p, bytes) \/ LogTooLarge(p, bytes)
    BY <1>4, SegmentFrame DEF Log, LogTooLarge, Acquire, Goto, LockInv
<1>5. ASSUME \E cut : Cuts(cut, files', written'), pc[p] \in LogLabel, pc'[p] # "log_write",
             \A q \in Process : q # p => pc'[q] = pc[q]
      PROVE  SegmentInv'
  <2>1. \A q \in Process : q # p => pc[q] \notin LogLabel
      BY <1>5, Alone DEF LogLabel
  <2>2. \A q \in Process : pc'[q] # "log_write"
      BY <1>5, <2>1 DEF LockInv, LogLabel
  <2> QED BY <1>5, <2>2 DEF SegmentInv
<1>6. CASE Shift(p)
  <2>1. pc[p] = "log_shift" /\ pc'[p] # "log_write" /\ \A q \in Process : q # p => pc'[q] = pc[q]
      BY <1>6 DEF Shift, Goto, LockInv
  <2> QED BY <1>5, <1>6, <2>1, SegmentShift DEF LogLabel
<1>7. CASE OpenLog(p)
    BY <1>7, SegmentOpen DEF OpenLog, SegmentInv
<1>8. CASE OpenLogFails(p)
  <2>1. pc[p] = "log_open" /\ pc' = [pc EXCEPT ![p] = "idle"] /\ written' = written
      BY <1>8 DEF OpenLogFails, LogEnds, Return, Goto
  <2>2. \E cut : Cuts(cut, files', written')
    <3>1. CASE UNCHANGED files
        BY <2>1, <3>1 DEF SegmentInv
    <3> QED BY <1>8, <2>1, <3>1, SegmentOpen DEF OpenLogFails
  <2> QED BY <1>5, <2>1, <2>2 DEF LogLabel, LockInv
<1>9. CASE Write(p)
  <2>1. pc[p] = "log_write" /\ pc' = [pc EXCEPT ![p] = "log_sync"] /\ AppendPart(p, "line")
      BY <1>9 DEF Write, Step, Goto
  <2>2. \E cut : Cuts(cut, files', written')
      BY <2>1, SegmentAppend
  <2> QED BY <1>5, <2>1, <2>2 DEF LogLabel, LockInv
<1>10. CASE WriteFails(p)
  <2>1. pc[p] = "log_write" /\ pc' = [pc EXCEPT ![p] = "idle"]
      BY <1>10 DEF WriteFails, LogEnds, Return, Goto
  <2>2. \E cut : Cuts(cut, files', written')
    <3>1. CASE UNCHANGED <<files, written>>
        BY <3>1 DEF SegmentInv
    <3> QED BY <1>10, <2>1, <3>1, SegmentAppend DEF WriteFails
  <2> QED BY <1>5, <2>1, <2>2 DEF LogLabel, LockInv
<1> QED BY <1>1, <1>2, <1>3, <1>4, <1>6, <1>7, <1>8, <1>9, <1>10

\* A crash cuts at most the append of the process that crashes.
LEMMA SegmentCrash ==
    ASSUME LockInv, JournalType, SegmentInv, NEW p \in Process, Crash(p)
    PROVE  SegmentInv'
<1>1. pc' = [q \in Process |-> IF q = p THEN "down" ELSE pc[q]]
    BY DEF Crash, Stop
<1>2. CASE UNCHANGED <<files, written>>
    BY <1>1, <1>2, SegmentFrame
<1>3. ASSUME pc[p] = "log_write", NEW part \in {"some", "body"}, AppendPart(p, part)
      PROVE  SegmentInv'
  <2>1. \E cut : Cuts(cut, files', written')
      BY <1>3, SegmentAppend
  <2>2. \A q \in Process : q # p => pc[q] \notin LogLabel
      BY <1>3, Alone
  <2>3. \A q \in Process : pc'[q] # "log_write"
      BY <1>1, <2>2 DEF LogLabel
  <2> QED BY <2>1, <2>3 DEF SegmentInv
<1> QED BY <1>2, <1>3 DEF Crash, JournalCrash

\* A loss of power takes the end of the log and of the history alike.
LEMMA SegmentPowerLoss ==
    ASSUME JournalType, DurableInv, SegmentInv, PowerLoss
    PROVE  SegmentInv'
<1>1. JournalPowerLoss /\ \A q \in Process : pc'[q] # "log_write"
    BY DEF PowerLoss, Stop
<1>2. PICK cut : Cuts(cut, files, written)
    BY DEF SegmentInv
<1>3. CASE UNCHANGED <<files, written>>
    BY <1>1, <1>3 DEF SegmentInv
<1>4. ASSUME Content(0) # << >>, NEW tail \in Seq(FilePiece),
             files' = [files EXCEPT ![0] = Front(@) \o tail], written' = Front(written) \o tail
      PROVE  SegmentInv'
  <2>1. written \in Seq(FilePiece) /\ 0 \in DOMAIN files /\ files[0] # << >>
      BY <1>4 DEF JournalType, Content, Exists
  <2>2. PICK u, gs : u = Front(written) /\ gs = [files EXCEPT ![0] = Front(@)]
      OBVIOUS
  <2>3. u \in Seq(FilePiece) /\ \E c : Cuts(c, gs, u)
      BY <1>2, <2>1, <2>2, CutsFront
  <2>4. PICK c : Cuts(c, gs, u)
      BY <2>3
  <2>5. 0 \in DOMAIN gs
      BY <2>1, <2>2
  <2>6. \E d : Cuts(d, [gs EXCEPT ![0] = @ \o tail], u \o tail)
      BY <1>4, <2>3, <2>4, <2>5, CutsConcat
  <2>7. files' = [gs EXCEPT ![0] = @ \o tail] /\ written' = u \o tail
      BY <1>4, <2>1, <2>2
  <2> QED BY <1>1, <2>6, <2>7 DEF SegmentInv
<1>5. \/ UNCHANGED <<files, written>>
      \/ /\ Content(0) # << >>
         /\ \E tail \in Seq(FilePiece) :
              files' = [files EXCEPT ![0] = Front(@) \o tail] /\ written' = Front(written) \o tail
  <2>1. UNCHANGED <<files, written>> \/ Content(0) # << >>
      BY <1>1 DEF JournalPowerLoss
  <2> QED BY <1>1, <2>1, PowerLossLeaves
<1> QED BY <1>3, <1>4, <1>5

\* SegmentInv is an invariant.
LEMMA SegmentInvariance == Spec => []SegmentInv
<1>1. Init => SegmentInv
  <2> SUFFICES ASSUME Init PROVE SegmentInv
      OBVIOUS
  <2>1. DOMAIN files = {} /\ written = << >> /\ \A p \in Process : pc[p] = "down"
      BY DEF Init, StorageInit, JournalInit
  <2>2. PICK c, w : w = written /\ c = [n \in 0 .. MaxArchives + 1 |-> 0]
      OBVIOUS
  <2>3. Len(w) = 0 /\ MaxArchives \in Nat
      BY <2>1, <2>2, EmptySeq, JournalConstants
  <2>4. c \in [0 .. MaxArchives + 1 -> 0 .. Len(w)] /\ c[0] = Len(w) /\ \A n \in 0 .. MaxArchives + 1 : c[n] = 0
      BY <2>2, <2>3
  <2>5. \A m, n \in 0 .. MaxArchives + 1 : m <= n => c[n] <= c[m]
      BY <2>4
  <2>6. ASSUME NEW n \in Slot PROVE FileAt(files, n) = Part(w, c[n + 1], c[n])
    <3>1. n \in 0 .. MaxArchives + 1 /\ n + 1 \in 0 .. MaxArchives + 1
        BY <2>3 DEF Slot
    <3>2. PICK z : z = 0
        OBVIOUS
    <3>3. c[n] = z /\ c[n + 1] = z /\ z \in Nat
        BY <2>4, <3>1, <3>2
    <3>4. Part(w, z, z) = << >>
        BY <3>3, PartEmpty
    <3> QED BY <2>1, <3>3, <3>4 DEF FileAt
  <2>7. Cuts(c, files, w)
      BY <2>4, <2>5, <2>6 DEF Cuts
  <2> QED BY <2>1, <2>2, <2>7 DEF SegmentInv
<1>2. StoreInv /\ SegmentInv /\ [Next]_vars => SegmentInv'
  <2> SUFFICES ASSUME StoreInv, SegmentInv, [Next]_vars PROVE SegmentInv'
      OBVIOUS
  <2>1. LockInv /\ JournalType /\ DurableInv
      BY DEF StoreInv
  <2>2. CASE SnapshotNext /\ UNCHANGED journalVars
    <3>1. \A q \in Process : pc'[q] = "log_write" => pc[q] = "log_write"
        BY <2>1, <2>2, SnapshotsOutsideJournal DEF WorkLabel, LogLabel
    <3> QED BY <2>2, <3>1, SegmentFrame DEF journalVars
  <2>3. CASE UNCHANGED vars \/ \E p \in Process : LockRefused(p) /\ UNCHANGED <<journalVars, snapshotVars>>
      BY <2>3, SegmentFrame DEF vars, LockRefused, storageVars, journalVars
  <2> QED BY <2>1, <2>2, <2>3, SegmentStep, SegmentCrash, SegmentPowerLoss DEF Next
<1> QED BY <1>1, <1>2, Invariance, PTL DEF Spec

\* An initial range of the naturals tells its end.
LEMMA SameRange ==
    ASSUME NEW m \in Nat, NEW n \in Nat, 1 .. m = 1 .. n
    PROVE  m = n
<1>1. CASE m = 0
  <2>1. n \notin 1 .. m
      BY <1>1
  <2>2. n \notin 1 .. n
      BY <2>1
  <2> QED BY <1>1, <2>2
<1>2. CASE m # 0
  <2>1. m \in 1 .. m
      BY <1>2
  <2>2. m \in 1 .. n
      BY <2>1
  <2>3. n \in 1 .. n
      BY <1>2, <2>2
  <2>4. n \in 1 .. m
      BY <2>3
  <2> QED BY <2>2, <2>4
<1> QED BY <1>1, <1>2

\* The files from the oldest archive to the log join to the history after the first cut.
LEMMA HistoryIsPart ==
    ASSUME JournalType, NEW cut, Cuts(cut, files, written)
    PROVE  History = Part(written, cut[MaxArchives + 1], Len(written))
<1>1. PICK w, N : w = written /\ N = MaxArchives + 1
    OBVIOUS
<1>2. /\ N \in Nat /\ N > 0 /\ MaxArchives = N - 1 /\ Slot = 0 .. N - 1
      /\ w \in Seq(FilePiece) /\ Len(w) \in Nat
    BY <1>1, JournalConstants, LenProperties DEF JournalType, Slot
<1>3. /\ cut \in [0 .. N -> 0 .. Len(w)] /\ cut[0] = Len(w)
      /\ \A i, j \in 0 .. N : i <= j => cut[j] <= cut[i]
      /\ \A n \in Slot : FileAt(files, n) = Part(w, cut[n + 1], cut[n])
    BY <1>1 DEF Cuts
<1>4. PICK q : q = [n \in 1 .. MaxArchives + 1 |-> Content(MaxArchives + 1 - n)]
    OBVIOUS
<1>5. q = [n \in 1 .. N |-> q[n]] /\ \A n \in 1 .. N : q[n] = Content(N - n)
  <2>1. q = [n \in 1 .. N |-> q[n]]
      BY <1>1, <1>4
  <2>2. ASSUME NEW n \in 1 .. N PROVE q[n] = Content(N - n)
    <3>1. PICK k : k = MaxArchives + 1 - n
        OBVIOUS
    <3>2. q[n] = Content(k)
        BY <1>1, <1>4, <3>1
    <3>3. k = N - n
        BY <1>1, <1>2, <3>1
    <3> QED BY <3>2, <3>3
  <2> QED BY <2>1, <2>2
<1>6. \A n \in Slot : Content(n) = FileAt(files, n) /\ Content(n) \in Seq(FilePiece)
  <2>1. << >> \in Seq(FilePiece)
      BY EmptySeq
  <2> QED BY <2>1 DEF Content, Exists, FileAt, JournalType
<1>7. q \in Seq(Seq(FilePiece)) /\ Len(q) = N
  <2>1. \A n \in 1 .. N : N - n \in Slot
      BY <1>2
  <2>2. q \in [1 .. N -> Seq(FilePiece)]
      BY <1>5, <1>6, <2>1
  <2>3. q \in Seq(Seq(FilePiece))
      BY <1>2, <2>2, SeqDef
  <2>4. Len(q) \in Nat /\ DOMAIN q = 1 .. Len(q)
      BY <2>3, LenProperties
  <2>5. 1 .. N = 1 .. Len(q)
      BY <2>2, <2>4
  <2>6. Len(q) = N
      BY <1>2, <2>4, <2>5, SameRange
  <2> QED BY <2>3, <2>6
<1> DEFINE Is(h) == h = [i \in 1 .. Len(q) |-> IF i = 1 THEN q[i] ELSE h[i - 1] \o q[i]]
           flat == CHOOSE h : Is(h)
<1>8. PICK h : h = [i \in 1 .. N |-> Part(w, cut[N], cut[N - i])]
    OBVIOUS
<1>9. ASSUME NEW i \in 1 .. N PROVE h[i] = IF i = 1 THEN q[i] ELSE h[i - 1] \o q[i]
  <2>1. PICK a, b, d : a = cut[N] /\ b = cut[N - i + 1] /\ d = cut[N - i]
      OBVIOUS
  <2>2. PICK n : n = N - i
      OBVIOUS
  <2>3. n \in Slot /\ n \in 0 .. N /\ n + 1 \in 0 .. N /\ N \in 0 .. N /\ n <= n + 1 /\ n + 1 <= N
      BY <1>2, <2>2
  <2>4. /\ a \in Nat /\ b \in Nat /\ d \in Nat /\ a <= b /\ b <= d /\ d <= Len(w)
    <3>1. a = cut[N] /\ b = cut[n + 1] /\ d = cut[n]
        BY <2>1, <2>2
    <3>2. a \in 0 .. Len(w) /\ b \in 0 .. Len(w) /\ d \in 0 .. Len(w)
        BY <1>3, <2>3, <3>1
    <3>3. a <= b /\ b <= d
        BY <1>3, <2>3, <3>1
    <3> QED BY <1>2, <3>2, <3>3
  <2>5. q[i] = Part(w, b, d)
    <3>1. q[i] = FileAt(files, n)
        BY <1>5, <1>6, <2>2, <2>3
    <3> QED BY <1>3, <2>1, <2>2, <2>3, <3>1
  <2>6. h[i] = Part(w, a, d)
      BY <1>8, <2>1
  <2>7. CASE i = 1
    <3>1. a = b
        BY <1>2, <2>1, <2>7
    <3> QED BY <2>5, <2>6, <2>7, <3>1
  <2>8. CASE i # 1
    <3>1. i - 1 \in 1 .. N /\ N - (i - 1) = N - i + 1
        BY <1>2, <2>8
    <3>2. h[i - 1] = Part(w, a, b)
        BY <1>8, <2>1, <3>1
    <3>3. Part(w, a, b) \o Part(w, b, d) = Part(w, a, d)
        BY <1>2, <2>4, PartJoin
    <3> QED BY <2>5, <2>6, <2>8, <3>2, <3>3
  <2> QED BY <2>7, <2>8
<1>10. Is(h)
  <2>1. h = [i \in 1 .. N |-> h[i]]
      BY <1>8
  <2> QED BY <1>7, <1>9, <2>1
<1>11. Is(flat)
  <2> HIDE DEF Is
  <2> QED BY <1>10
<1>12. History = flat[N]
  <2>1. Len(q) # 0
      BY <1>2, <1>7
  <2>2. FlattenSeq(q) = flat[Len(q)]
      BY <2>1 DEF FlattenSeq
  <2> HIDE DEF flat
  <2> QED BY <1>4, <1>7, <2>2 DEF History
<1> HIDE DEF flat
<1>13. \A i \in 1 .. N : flat[i] = IF i = 1 THEN q[i] ELSE flat[i - 1] \o q[i]
    BY <1>7, <1>11
<1> HIDE DEF Is
<1>14. flat[N] = h[N]
  <2> DEFINE G == {i \in 0 .. N : i = 0 \/ flat[i] = h[i]}
  <2>1. 0 \in G
      BY <1>2
  <2>2. ASSUME NEW i \in 1 .. N, i - 1 \in G PROVE i \in G
    <3>1. CASE i = 1
        BY <1>9, <1>13, <3>1
    <3>2. CASE i # 1
      <4>1. flat[i - 1] = h[i - 1]
          BY <2>2, <3>2
      <4>2. flat[i] = flat[i - 1] \o q[i] /\ h[i] = h[i - 1] \o q[i]
          BY <1>9, <1>13, <3>2
      <4>3. flat[i] = h[i] /\ i \in 0 .. N
          BY <1>2, <4>1, <4>2
      <4> QED BY <4>3
    <3> QED BY <3>1, <3>2
  <2> HIDE DEF G
  <2>3. N \in G
    <3>1. \A i \in 0 .. N : i \in G
        BY <1>2, <2>1, <2>2, UpTo
    <3> QED BY <1>2, <3>1
  <2> QED BY <1>2, <2>3 DEF G
<1>15. h[N] = Part(w, cut[N], Len(w))
    BY <1>2, <1>3, <1>8
<1> QED BY <1>1, <1>12, <1>14, <1>15

\* The last part of a sequence is a suffix of it.
LEMMA LastPartIsSuffix ==
    ASSUME NEW w \in Seq(FilePiece), NEW a \in Nat, a <= Len(w)
    PROVE  IsSuffix(Part(w, a, Len(w)), w)
<1>1. PICK m, s : m = Len(w) /\ s = Part(w, a, m)
    OBVIOUS
<1>2. m \in Nat /\ a <= m /\ m <= Len(w)
    BY <1>1, LenProperties
<1>3. s \in Seq(FilePiece) /\ Len(s) = m - a /\ \A i \in 1 .. m - a : s[i] = w[a + i]
    BY <1>1, <1>2, PartProperties
<1>4. ASSUME NEW t \in Seq(FilePiece)
      PROVE  /\ Reverse(t) \in Seq(FilePiece) /\ Len(Reverse(t)) = Len(t)
             /\ \A i \in 1 .. Len(t) : Reverse(t)[i] = t[(Len(t) - i) + 1]
  <2>1. Len(t) \in Nat
      BY LenProperties
  <2>2. PICK n \in Nat : n = Len(t)
      BY <2>1
  <2>3. PICK r : r = Reverse(t)
      OBVIOUS
  <2>4. r = [i \in 1 .. n |-> t[(n - i) + 1]]
      BY <2>2, <2>3 DEF Reverse
  <2>5. \A i \in 1 .. n : (n - i) + 1 \in 1 .. n /\ t[(n - i) + 1] \in FilePiece
    <3>1. \A i \in 1 .. n : (n - i) + 1 \in 1 .. n
        OBVIOUS
    <3> QED BY <2>2, <3>1, ElementOfSeq
  <2>6. r \in [1 .. n -> FilePiece]
      BY <2>4, <2>5
  <2>7. r \in Seq(FilePiece)
      BY <2>6, SeqDef
  <2>8. Len(r) \in Nat /\ DOMAIN r = 1 .. Len(r)
      BY <2>7, LenProperties
  <2>9. 1 .. n = 1 .. Len(r)
      BY <2>6, <2>8
  <2>10. Len(r) = n
      BY <2>8, <2>9, SameRange
  <2> QED BY <2>2, <2>3, <2>4, <2>7, <2>10
<1>5. PICK r, v : r = Reverse(s) /\ v = Reverse(w)
    OBVIOUS
<1>6. r \in Seq(FilePiece) /\ Len(r) = Len(s) /\ \A i \in 1 .. Len(s) : r[i] = s[(Len(s) - i) + 1]
    BY <1>3, <1>4, <1>5
<1>7. v \in Seq(FilePiece) /\ Len(v) = Len(w) /\ \A i \in 1 .. Len(w) : v[i] = w[(Len(w) - i) + 1]
    BY <1>4, <1>5
<1>8. PICK k : k = m - a
    OBVIOUS
<1>9. k \in Nat /\ k <= m /\ Len(r) = k /\ Len(v) = m /\ Len(s) = k
    BY <1>1, <1>2, <1>3, <1>6, <1>7, <1>8
<1>10. ASSUME NEW i \in 1 .. k PROVE r[i] = v[i]
  <2>1. /\ i \in 1 .. m /\ k - i + 1 \in 1 .. k /\ a + (k - i + 1) = m - i + 1
      BY <1>2, <1>8, <1>9
  <2>2. r[i] = s[k - i + 1] /\ v[i] = w[m - i + 1]
      BY <1>1, <1>6, <1>7, <1>9, <2>1
  <2>3. s[k - i + 1] = w[a + (k - i + 1)]
      BY <1>3, <1>8, <2>1
  <2> QED BY <2>1, <2>2, <2>3
<1>11. PICK z \in Nat : z = 0
    OBVIOUS
<1>12. Part(r, z, k) = Part(v, z, k)
  <2>1. z <= k /\ k <= Len(r) /\ k <= Len(v)
      BY <1>9, <1>11
  <2> QED BY <1>6, <1>7, <1>9, <1>10, <2>1, PartStable
<1>13. SubSeq(r, 1, k) = SubSeq(v, 1, k)
  <2>1. PICK y : y = z + 1
      OBVIOUS
  <2>2. SubSeq(r, y, k) = SubSeq(v, y, k)
      BY <1>12, <2>1, Zenon DEF Part
  <2>3. y = 1
      BY <1>11, <2>1
  <2> QED BY <2>2, <2>3
<1>14. IsPrefix(r, v)
    BY <1>9, <1>13 DEF IsPrefix
<1>15. IsSuffix(s, w)
    BY <1>5, <1>14 DEF IsSuffix
<1> QED BY <1>1, <1>15

\* What is on disk is an unbroken end of everything that was ever appended: rotations by several
\* processes, rotations that stop half-way, crashes and losses of power only ever cost the oldest
\* part, and the last piece while it is not flushed (rotate_if_needed).
THEOREM RotationLosesOnlyTheOldest == Spec => []JournalIsSuffix
<1>1. StoreInv /\ SegmentInv => JournalIsSuffix
  <2> SUFFICES ASSUME StoreInv, SegmentInv PROVE JournalIsSuffix
      OBVIOUS
  <2>1. JournalType /\ written \in Seq(FilePiece)
      BY DEF StoreInv, JournalType
  <2>2. PICK cut : Cuts(cut, files, written)
      BY DEF SegmentInv
  <2>3. PICK a : a = cut[MaxArchives + 1]
      OBVIOUS
  <2>4. a \in Nat /\ a <= Len(written)
    <3>1. Len(written) \in Nat /\ MaxArchives + 1 \in 0 .. MaxArchives + 1
        BY <2>1, LenProperties, JournalConstants
    <3> QED BY <2>2, <2>3, <3>1 DEF Cuts
  <2>5. History = Part(written, a, Len(written))
      BY <2>1, <2>2, <2>3, HistoryIsPart
  <2>6. IsSuffix(Part(written, a, Len(written)), written)
      BY <2>1, <2>4, LastPartIsSuffix
  <2> QED BY <2>5, <2>6 DEF JournalIsSuffix
<1> QED BY <1>1, Invariance, SegmentInvariance, PTL
=============================================================================
