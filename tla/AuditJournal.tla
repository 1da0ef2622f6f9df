---------------------------- MODULE AuditJournal ----------------------------
(***************************************************************************)
(* AuditLogger (crates/audit-journal/src/journal.rs): the JSON-lines log,  *)
(* its archives, the display buffer of each process and the exports.       *)
(*                                                                         *)
(* A file is the sequence of what appends left in it.  writeln! hands the  *)
(* serialized entry and the newline to the file separately, so an append   *)
(* that is cut short leaves some bytes of the entry, its body without the  *)
(* newline, or the whole line.  Slot 0 is audit.jsonl, slot n is           *)
(* audit.jsonl.n.                                                          *)
(***************************************************************************)
EXTENDS StorageRoot, Sequences, SequencesExt

CONSTANTS
    EntrySizes,     \* the lengths of entries with their newline
    MaxLogBytes,    \* max_log_bytes
    MaxArchives,    \* max_archives
    MaxMemory       \* max_memory_entries

ASSUME JournalConstants ==
    /\ EntrySizes \subseteq Nat \ {0, 1}
    /\ MaxLogBytes \in Nat \ {0}
    /\ MaxArchives \in Nat \ {0}
    /\ MaxMemory \in Nat

EntryId == 1 .. MaxCalls
Entry == [id : EntryId, bytes : EntrySizes]
NoEntry == [id |-> 0, bytes |-> 0]
Slot == 0 .. MaxArchives
Piece == [id : EntryId, part : {"some", "body", "line"}, bytes : Nat]

VARIABLES
    files,      \* the log and the archives that exist
    unsynced,   \* is the log's last piece not yet flushed by sync_data
    entry,      \* the entry each process is appending
    slot,       \* the slot the rotation of the lock holder looks at
    memory,     \* memory_buffer of each process, oldest first
    exports,    \* files of the export directory
    written,    \* history: everything appended to the log and not lost with power
    acked       \* history: entries whose log() returned Ok

journalVars == <<files, unsynced, entry, slot, memory, exports, written, acked>>

JournalInit ==
    /\ files = << >>
    /\ unsynced = FALSE
    /\ entry = [p \in Process |-> NoEntry]
    /\ slot = 0
    /\ memory = [p \in Process |-> << >>]
    /\ exports = << >>
    /\ written = << >>
    /\ acked = {}

-----------------------------------------------------------------------------
(* Files and lines. *)

Exists(n) == n \in DOMAIN files
Content(n) == IF Exists(n) THEN files[n] ELSE << >>

\* The bytes that each way of appending an entry leaves in the file.
PartBytes(part, bytes) ==
    CASE part = "some" -> 1
      [] part = "body" -> bytes - 1
      [] part = "line" -> bytes

\* The length of a file.
Bytes(content) ==
    LET sum[n \in 0 .. Len(content)] == IF n = 0 THEN 0 ELSE sum[n - 1] + content[n].bytes
    IN  sum[Len(content)]

\* serde_json accepts the line that piece i is part of: the line holds one complete entry.
\* A last line without its newline is still a line of BufRead::lines.
Readable(content, i) ==
    /\ content[i].part # "some"
    /\ i > 1 => content[i - 1].part = "line"
    /\ content[i].part = "body" => i = Len(content)

Loadable(content) == \A i \in DOMAIN content : Readable(content, i)

\* The last n elements of a sequence.
Newest(n, s) == IF Len(s) > n THEN SubSeq(s, Len(s) - n + 1, Len(s)) ELSE s

EntryIds(content) == [i \in DOMAIN content |-> content[i].id]

-----------------------------------------------------------------------------
(* AuditLogger::build: load the log under the storage lock. *)

\* Start-up has the root; a root that was just created cannot have a locked lock file.
JournalStart(p) ==
    /\ OpenRoot(p)
    /\ Acquire(p, "down", "start_load")
    /\ UNCHANGED <<calls, journalVars>>

\* load_recent_entries keeps the newest entries of a log whose every line parses.
Load(p) ==
    /\ pc[p] = "start_load"
    /\ Loadable(Content(0))
    /\ memory' = [memory EXCEPT ![p] = Newest(MaxMemory, EntryIds(Content(0)))]
    /\ Return(p, "idle")
    /\ UNCHANGED <<faults, files, unsynced, entry, slot, exports, written, acked>>

\* An entry that does not parse, or a file that cannot be read, refuses the start.
LoadFails(p) ==
    /\ pc[p] = "start_load"
    /\ \/ ~ Loadable(Content(0)) /\ UNCHANGED faults
       \/ Fault
    /\ Return(p, "down")
    /\ CloseRoot({p})
    /\ UNCHANGED journalVars

-----------------------------------------------------------------------------
(* AuditLogger::log. *)

\* The entry is serialized and its length checked before the lock is taken.
Log(p, bytes) ==
    /\ bytes <= MaxLogBytes
    /\ CountCall
    /\ Acquire(p, "idle", "log_rotate")
    /\ entry' = [entry EXCEPT ![p] = [id |-> calls', bytes |-> bytes]]
    /\ UNCHANGED <<files, unsynced, slot, memory, exports, written, acked>>

\* AuditError::EntryTooLarge: an entry longer than a whole log touches nothing.
LogTooLarge(p, bytes) ==
    /\ bytes > MaxLogBytes
    /\ pc[p] = "idle"
    /\ UNCHANGED <<storageVars, journalVars>>

\* log() returns an error and drops the lock; what it has appended stays.
LogEnds(p) ==
    /\ Return(p, "idle")
    /\ entry' = [entry EXCEPT ![p] = NoEntry]

\* Mutant: the size check forgets the entry that is about to be added.
NeedsRotation_CurrentOnly(bytes) == Bytes(Content(0)) > MaxLogBytes

NeedsRotation(bytes) == Bytes(Content(0)) + bytes > MaxLogBytes

\* rotate_if_needed: the size check.
Rotate(p) ==
    /\ pc[p] = "log_rotate"
    /\ IF NeedsRotation(entry[p].bytes)
         THEN Goto(p, "log_shift") /\ slot' = MaxArchives
         ELSE Goto(p, "log_open") /\ UNCHANGED slot
    /\ UNCHANGED <<lock, calls, faults, crashes, files, unsynced, entry, memory, exports, written, acked>>

\* durable_rename refuses an existing target.
RenameSlot(n) ==
    /\ ~ Exists(n + 1)
    /\ files' = [m \in (DOMAIN files \ {n}) \cup {n + 1} |->
                   IF m = n + 1 THEN files[n] ELSE files[m]]
    /\ unsynced' = (unsynced /\ n # 0)

\* rotate_if_needed: one turn of the loop, the last turn moving the log itself.
Shift(p) ==
    /\ pc[p] = "log_shift"
    /\ \/ /\ slot = MaxArchives
          /\ files' = Restrict(files, DOMAIN files \ {slot})
          /\ UNCHANGED unsynced
       \/ slot < MaxArchives /\ Exists(slot) /\ RenameSlot(slot)
       \/ slot < MaxArchives /\ ~ Exists(slot) /\ UNCHANGED <<files, unsynced>>
    /\ IF slot = 0
         THEN Goto(p, "log_open") /\ UNCHANGED slot
         ELSE slot' = slot - 1 /\ UNCHANGED pc
    /\ UNCHANGED <<lock, calls, faults, crashes, entry, memory, exports, written, acked>>

\* Any step of the rotation fails: log() returns the error, the renames done so far stay.
RotationFails(p) ==
    /\ pc[p] \in {"log_rotate", "log_shift"}
    /\ Fault
    /\ LogEnds(p)
    /\ UNCHANGED <<files, unsynced, slot, memory, exports, written, acked>>

\* open_log_for_append creates the log or opens the existing one.
OpenLog(p) ==
    /\ Step(p, "log_open", "log_write")
    /\ files' = [m \in DOMAIN files \cup {0} |-> Content(m)]
    /\ UNCHANGED <<unsynced, entry, slot, memory, exports, written, acked>>

\* The open fails; create_file may leave the new empty file when its deletion fails too.
OpenLogFails(p) ==
    /\ pc[p] = "log_open"
    /\ Fault
    /\ \/ UNCHANGED files
       \/ files' = [m \in DOMAIN files \cup {0} |-> Content(m)]
    /\ LogEnds(p)
    /\ UNCHANGED <<unsynced, slot, memory, exports, written, acked>>

\* Mutant: the seek to the end is left out and the entry overwrites the log.
AppendPart_NoSeek(p, part) ==
    LET piece == [id |-> entry[p].id, part |-> part, bytes |-> PartBytes(part, entry[p].bytes)] IN
    /\ files' = [files EXCEPT ![0] = <<piece>>]
    /\ written' = Append(written, piece)
    /\ unsynced' = TRUE

\* Bytes of p's entry reach the end of the log.
AppendPart(p, part) ==
    LET piece == [id |-> entry[p].id, part |-> part, bytes |-> PartBytes(part, entry[p].bytes)] IN
    /\ files' = [files EXCEPT ![0] = Append(@, piece)]
    /\ written' = Append(written, piece)
    /\ unsynced' = TRUE

Write(p) ==
    /\ Step(p, "log_write", "log_sync")
    /\ AppendPart(p, "line")
    /\ UNCHANGED <<entry, slot, memory, exports, acked>>

\* writeln! fails after nothing, some bytes, or everything but the newline.
WriteFails(p) ==
    /\ pc[p] = "log_write"
    /\ Fault
    /\ \/ UNCHANGED <<files, written, unsynced>>
       \/ \E part \in {"some", "body"} : AppendPart(p, part)
    /\ LogEnds(p)
    /\ UNCHANGED <<slot, memory, exports, acked>>

\* Mutant: sync_data is left out; the entry is acknowledged while only the cache has it.
Sync_Skipped(p) ==
    /\ pc[p] = "log_sync"
    /\ acked' = acked \cup {entry[p].id}
    /\ memory' = [memory EXCEPT ![p] = Newest(MaxMemory, Append(@, entry[p].id))]
    /\ LogEnds(p)
    /\ UNCHANGED <<faults, files, unsynced, slot, exports, written>>

\* sync_data succeeds, the entry enters the bounded buffer and log() returns Ok.
Sync(p) ==
    /\ pc[p] = "log_sync"
    /\ unsynced' = FALSE
    /\ acked' = acked \cup {entry[p].id}
    /\ memory' = [memory EXCEPT ![p] = Newest(MaxMemory, Append(@, entry[p].id))]
    /\ LogEnds(p)
    /\ UNCHANGED <<faults, files, slot, exports, written>>

\* flush or sync_data fails: an error is returned although the line is in the file.
SyncFails(p) ==
    /\ pc[p] = "log_sync"
    /\ Fault
    /\ LogEnds(p)
    /\ UNCHANGED <<files, unsynced, slot, memory, exports, written, acked>>

\* clear_memory, from the main thread, needs only the buffer's mutex, which log() holds
\* from its lock to its return.
ClearMemory(p) ==
    /\ pc[p] \notin {"down", "start_load",
                     "log_rotate", "log_shift", "log_open", "log_write", "log_sync"}
    /\ memory' = [memory EXCEPT ![p] = << >>]
    /\ UNCHANGED <<storageVars, files, unsynced, entry, slot, exports, written, acked>>

-----------------------------------------------------------------------------
(* AuditLogger::export_copy.  The export in progress is the last of exports. *)

Export(p) ==
    /\ CountCall
    /\ Acquire(p, "idle", "export_open")
    /\ UNCHANGED journalVars

\* The log is opened and its length read; the pending file is created.
OpenExport(p) ==
    /\ Exists(0)
    /\ Step(p, "export_open", "export_copy")
    /\ exports' = Append(exports, [state |-> "pending", content |-> << >>, source |-> files[0]])
    /\ UNCHANGED <<files, unsynced, entry, slot, memory, written, acked>>

\* There is no log, or a file cannot be opened or created.
OpenExportFails(p) ==
    /\ pc[p] = "export_open"
    /\ \/ ~ Exists(0) /\ UNCHANGED faults
       \/ Fault
    /\ Return(p, "idle")
    /\ UNCHANGED journalVars

\* The copy ends, by its own account successfully, after any number of pieces.
Copy(p) ==
    /\ pc[p] = "export_copy"
    /\ Goto(p, "export_publish")
    /\ LET source == exports[Len(exports)].source IN
       \E n \in 0 .. Len(source) :
          /\ IF n = Len(source) THEN UNCHANGED faults ELSE Fault
          /\ exports' = [exports EXCEPT ![Len(exports)].content = SubSeq(source, 1, n)]
    /\ UNCHANGED <<lock, calls, crashes, files, unsynced, entry, slot, memory, written, acked>>

\* Mutant: the lengths are not compared.
ExportVerified_Unchecked(e) == TRUE

\* copied_length and target_length against source_length.
ExportVerified(e) == Bytes(e.content) = Bytes(e.source)

\* Publish renames the pending file to its final name.
Publish(p) ==
    /\ pc[p] = "export_publish"
    /\ ExportVerified(exports[Len(exports)])
    /\ exports' = [exports EXCEPT ![Len(exports)].state = "published"]
    /\ Return(p, "idle")
    /\ UNCHANGED <<faults, files, unsynced, entry, slot, memory, written, acked>>

\* The copy, the verification or the rename fails: Drop deletes the pending file and
\* ignores a deletion that fails.
ExportFails(p) ==
    /\ \/ pc[p] \in {"export_copy", "export_publish"} /\ Fault
       \/ /\ pc[p] = "export_publish" /\ ~ ExportVerified(exports[Len(exports)])
          /\ UNCHANGED faults
    /\ exports' \in {Front(exports), exports}
    /\ Return(p, "idle")
    /\ UNCHANGED <<files, unsynced, entry, slot, memory, written, acked>>

-----------------------------------------------------------------------------
(* What a crash of p, or a loss of power, does to the journal's state. *)

JournalCrash(p) ==
    /\ \/ UNCHANGED <<files, written, unsynced>>
       \/ pc[p] = "log_write" /\ \E part \in {"some", "body"} : AppendPart(p, part)
    /\ entry' = [entry EXCEPT ![p] = NoEntry]
    /\ memory' = [memory EXCEPT ![p] = << >>]
    /\ UNCHANGED <<slot, exports, acked>>

\* The piece that was not flushed survives, is shortened, or is lost.
JournalPowerLoss ==
    /\ \/ UNCHANGED <<files, written>>
       \/ /\ unsynced /\ Content(0) # << >>
          /\ LET last == Last(files[0])
                 shorter == {[last EXCEPT !.part = part, !.bytes = PartBytes(part, @)] :
                               part \in {"some", "body"}}
                 kept == {<< >>} \cup {<<piece>> : piece \in
                            {piece \in shorter : last.part = "line" /\ piece.bytes < last.bytes}}
             IN \E tail \in kept :
                  /\ files' = [files EXCEPT ![0] = Front(@) \o tail]
                  /\ written' = Front(written) \o tail
    /\ unsynced' = FALSE
    /\ entry' = [p \in Process |-> NoEntry]
    /\ memory' = [p \in Process |-> << >>]
    /\ UNCHANGED <<slot, exports, acked>>

JournalNext ==
    \E p \in Process :
        \/ JournalStart(p) \/ LoadFails(p)
        \/ /\ \/ Load(p)
              \/ \E bytes \in EntrySizes : Log(p, bytes) \/ LogTooLarge(p, bytes)
              \/ Rotate(p) \/ Shift(p) \/ RotationFails(p)
              \/ OpenLog(p) \/ OpenLogFails(p) \/ Write(p) \/ WriteFails(p) \/ Sync(p) \/ SyncFails(p)
              \/ ClearMemory(p)
              \/ Export(p) \/ OpenExport(p) \/ OpenExportFails(p) \/ Copy(p) \/ Publish(p) \/ ExportFails(p)
           /\ UNCHANGED rootVars
=============================================================================
