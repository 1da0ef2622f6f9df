------------------------ MODULE MigrationTransaction ------------------------
(***************************************************************************)
(* ProfileMigrationEngine::execute_migration_with_cancel                   *)
(* (crates/core-profiles/src/migration.rs) on the handle-rooted file       *)
(* system of crates/platform-win32/src/secure_fs.rs.                       *)
(*                                                                         *)
(* One migration copies the selected folders of a source tree below a new  *)
(* target directory, file by file and chunk by chunk, while the operator   *)
(* may cancel, other software changes source files or creates objects      *)
(* below the target, and any call may fail.  A path is a node of the tree, *)
(* the same on both sides; data is a sequence of chunks, and equal data    *)
(* has equal SHA-256.                                                      *)
(*                                                                         *)
(* A retained handle has DELETE access and never shares it, so nobody can  *)
(* rename or remove a created object and its node identifies it.  A source *)
(* file is opened sharing READ only: it does not change while it is copied.*)
(***************************************************************************)
EXTENDS Naturals, SequencesExt, FiniteSetsExt, Functions

CONSTANTS
    Dir,          \* directories below the profile
    File,         \* files below them
    Target,       \* the target directory itself
    Children,     \* Children[d]: what d may hold, in the order of the lower-case names
    Roaming,      \* roots of include_roaming_appdata, each a path of directories
    Personal,     \* roots of include_personal_folders
    Chunk,        \* values of one buffer
    Content,      \* contents a source file may have
    MaxFaults,    \* bound: calls that fail although they could succeed
    MaxForeign,   \* bound: objects other software creates below the target
    MaxChanges    \* bound: changes of source files

Node == Dir \cup File \cup {Target}

\* A path of directories below the target.
Rooted(path) ==
    /\ path # <<>> /\ path[1] \in Range(Children[Target])
    /\ \A i \in 1 .. Len(path) - 1 : path[i + 1] \in Range(Children[path[i]])

\* The directories are a tree: no set of nodes has only nodes with a parent in the set.
ASSUME MigrationConstants ==
    /\ Dir \cap File = {} /\ Target \notin Dir \cup File
    /\ Children \in [Dir \cup {Target} -> Seq(Dir \cup File)]
    /\ \A S \in SUBSET (Dir \cup File) :
          S # {} => \E n \in S : \A d \in S \cap Dir : n \notin Range(Children[d])
    /\ Roaming \in Seq(Seq(Dir)) /\ Personal \in Seq(Seq(Dir))
    /\ \A path \in Range(Roaming) \cup Range(Personal) : Rooted(path)
    /\ Content \subseteq Seq(Chunk)
    /\ MaxFaults \in Nat /\ MaxForeign \in Nat /\ MaxChanges \in Nat

\* The source side of a node: a file with its data, a directory, a reparse point or nothing.
Source == [kind : {"file"}, data : Content]
          \cup [kind : {"directory", "absent", "reparse"}, data : {<<>>}]

\* An object on the target side, and who made it.
Object == [owner : {"ours", "foreign"}, data : Seq(Chunk)]
Nothing == [owner |-> "none", data |-> <<>>]

\* What is still to be done, the innermost call first: a migration root, a directory to open or
\* create, a directory to enumerate, an enumerated entry.
Task == [do : {"root"}, path : Seq(Dir)] \cup [do : {"ensure", "list"}, node : Dir]
        \cup [do : {"entry"}, node : Dir \cup File]

Event == {"MigrationStarted", "MigrationWarning", "MigrationSuccess", "MigrationRolledBack",
          "MigrationRollbackFailed"}

VARIABLES
    src,       \* the source side
    dst,       \* the target side
    cancel,    \* the cancellation token
    pc,        \* where the worker is
    scope,     \* the roots the plan selects
    todo,      \* tasks of the enclosing calls
    created,   \* CopyTransaction::created_entries
    manifest,  \* CopyTransaction::manifest
    observed,  \* CopyTransaction::observed_copied_bytes
    current,   \* the file being copied, or Target
    hashed,    \* what the source hasher has seen
    base,      \* completed_bytes: copied_bytes() when the file was opened
    verified,  \* buffers of the copy read back
    failures,  \* did a removal of the rollback fail
    trail,     \* journal events of this migration
    report,    \* the last MigrationProgress
    result,    \* what the call returned
    history,   \* source files touched, a created object given up, a lost journal write, and
               \* whether cancellation came before the last check
    left       \* remaining environment budget

file == <<current, hashed, base, verified>>
transaction == <<created, manifest, observed>>
vars == <<src, dst, cancel, pc, scope, todo, transaction, file, failures, trail, report, result,
          history, left>>

Labels == {"guard", "logStarted", "createTarget", "warn", "work", "copy", "verify",
           "logSuccess", "rollback", "logRolledBack", "logRollbackFailed", "ended"}

TypeOK ==
    /\ src \in [Dir \cup File -> Source]
    /\ dst \in [Node -> Object \cup {Nothing}]
    /\ cancel \in BOOLEAN
    /\ pc \in Labels
    /\ scope \in {Roaming, Personal, Roaming \o Personal}
    /\ todo \in Seq(Task)
    /\ created \in Seq(Node)
    /\ manifest \in Seq([file : File, data : Seq(Chunk)])
    /\ observed \in Nat /\ base \in Nat /\ verified \in Nat
    /\ current \in File \cup {Target}
    /\ hashed \in Seq(Chunk)
    /\ failures \in BOOLEAN
    /\ trail \in Seq(Event)
    /\ report \in [files : Nat, bytes : Nat]
    /\ result \in {"none", "ok", "error", "rollbackError"}
    /\ history \in [touched : SUBSET File, orphan : SUBSET Node, auditLost : BOOLEAN,
                    inTime : BOOLEAN]
    /\ left \in [fault : 0..MaxFaults, foreign : 0..MaxForeign, change : 0..MaxChanges]

\* open_relative_directory_if_present and the enumeration see plain directories, none, or
\* reparse points; the plan selects at least one scope (validate_for_execution).
Init ==
    /\ src \in [Dir \cup File -> Source]
    /\ \A d \in Dir : src[d].kind # "file"
    /\ \A f \in File : src[f].kind # "directory"
    /\ dst = [n \in Node |-> Nothing]
    /\ cancel = FALSE
    /\ pc = "guard"
    /\ scope \in {Roaming, Personal, Roaming \o Personal}
    /\ todo = [i \in DOMAIN scope |-> [do |-> "root", path |-> scope[i]]]
    /\ created = <<>> /\ manifest = <<>> /\ observed = 0
    /\ current = Target /\ hashed = <<>> /\ base = 0 /\ verified = 0
    /\ failures = FALSE
    /\ trail = <<>>
    /\ report = [files |-> 0, bytes |-> 0]
    /\ result = "none"
    /\ history = [touched |-> {}, orphan |-> {}, auditLost |-> FALSE, inTime |-> FALSE]
    /\ left = [fault |-> MaxFaults, foreign |-> MaxForeign, change |-> MaxChanges]

-----------------------------------------------------------------------------

Spend(kind) == left[kind] > 0 /\ left' = [left EXCEPT ![kind] = @ - 1]

\* The bytes of the manifest's lines, added up.
TotalBytes(lines) ==
    LET total[n \in 0 .. Len(lines)] == IF n = 0 THEN 0 ELSE total[n - 1] + Len(lines[n].data)
    IN  total[Len(lines)]

\* CopyTransaction::copied_bytes
CopiedBytes == IF observed > TotalBytes(manifest) THEN observed ELSE TotalBytes(manifest)

\* on_progress
Report(bytes) == report' = [files |-> Len(manifest), bytes |-> bytes]

Log(e) == trail' = Append(trail, e)

\* AuditLogger::log fails; the line may be in the file all the same.
LogFails(e) == /\ Spend("fault")
               /\ history' = [history EXCEPT !.auditLost = TRUE]
               /\ Log(e) \/ UNCHANGED trail

Return(r) == pc' = "ended" /\ result' = r

\* The closure of execute_migration_with_cancel returns an error.
Fail == /\ pc' = "rollback"
        /\ Report(CopiedBytes)

NonEmpty(n) == n \notin File /\ \E k \in Range(Children[n]) : dst[k] # Nothing
-----------------------------------------------------------------------------
(* Before the transaction.                                                 *)

\* acquire_operation_guard and validate_for_execution accept the plan.
Validate ==
    /\ pc = "guard"
    /\ dst[Target] = Nothing
    /\ pc' = "logStarted"
    /\ UNCHANGED <<src, dst, cancel, scope, todo, transaction, file, failures, trail, report,
                   result, history, left>>

\* The guard is taken, the source is loaded, a path is refused, or the target exists.
Refuse ==
    /\ pc = "guard"
    /\ Return("error")
    /\ UNCHANGED <<src, dst, cancel, scope, todo, transaction, file, failures, trail, report,
                   history, left>>

LogStarted ==
    /\ pc = "logStarted"
    /\ \/ /\ Log("MigrationStarted")
          /\ pc' = "createTarget"
          /\ UNCHANGED <<history, left, result>>
       \/ LogFails("MigrationStarted") /\ Return("error")
    /\ UNCHANGED <<src, dst, cancel, scope, todo, transaction, file, failures, report>>

-----------------------------------------------------------------------------
(* Creating objects: secure_fs.rs, FILE_CREATE.                            *)

\* The object is new and its handle enters the transaction.
Create(n) ==
    /\ dst[n] = Nothing
    /\ dst' = [dst EXCEPT ![n] = [owner |-> "ours", data |-> <<>>]]
    /\ created' = Append(created, n)

\* PendingCreatedHandle::fail: a check on the new handle fails and the object is deleted at
\* once; when that fails too the object is given up.
CreateFails(n) ==
    /\ left.fault > 0
    /\ \/ /\ left' = [left EXCEPT !.fault = @ - 1]
          /\ UNCHANGED <<dst, history>>
       \/ /\ left.fault > 1 /\ dst[n] = Nothing
          /\ left' = [left EXCEPT !.fault = @ - 2]
          /\ dst' = [dst EXCEPT ![n] = [owner |-> "ours", data |-> <<>>]]
          /\ history' = [history EXCEPT !.orphan = @ \cup {n}]
    /\ Fail

\* Mutant: the handle of the target directory is not retained.
CreateTarget_Unregistered ==
    /\ pc = "createTarget"
    /\ dst[Target] = Nothing
    /\ dst' = [dst EXCEPT ![Target] = [owner |-> "ours", data |-> <<>>]]
    /\ pc' = "warn"
    /\ UNCHANGED <<src, cancel, scope, todo, transaction, file, failures, trail, report, result,
                   history, left>>

CreateTarget ==
    /\ pc = "createTarget"
    /\ Create(Target)
    /\ pc' = "warn"
    /\ UNCHANGED <<src, cancel, scope, todo, manifest, observed, file, failures, trail, report,
                   result, history, left>>

CreateTargetFails ==
    /\ pc = "createTarget"
    /\ \/ CreateFails(Target)
       \/ dst[Target] # Nothing /\ Fail /\ UNCHANGED <<dst, history, left>>
    /\ UNCHANGED <<src, cancel, scope, todo, transaction, file, failures, trail, result>>

\* The DPAPI warning is logged when the source holds Microsoft\Protect.
Warn ==
    /\ pc = "warn"
    /\ \/ /\ \/ Log("MigrationWarning")
             \/ UNCHANGED trail
          /\ pc' = "work"
          /\ Report(0)
          /\ UNCHANGED <<history, left>>
       \/ LogFails("MigrationWarning") /\ Fail
    /\ UNCHANGED <<src, dst, cancel, scope, todo, transaction, file, failures, result>>
-----------------------------------------------------------------------------
(* copy_tree_verified, with the calls it nests as tasks.                   *)

Working(do) == pc = "work" /\ todo # <<>> /\ Head(todo).do = do

Rest(tasks) == todo' = tasks \o Tail(todo)

\* Every directory of the path is in the source.
Opens(source, path) == \A i \in DOMAIN path : source[path[i]].kind = "directory"

\* A root that is missing in the source is skipped; the directories of a present one are
\* ensured from the target down.
OpenRoot ==
    /\ Working("root") /\ ~cancel
    /\ LET path == Head(todo).path
           last == path[Len(path)]
       IN  \/ /\ \E i \in DOMAIN path : /\ src[path[i]].kind = "absent"
                                        /\ \A j \in 1 .. i - 1 : src[path[j]].kind = "directory"
              /\ Rest(<<>>)
           \/ /\ Opens(src, path)
              /\ Rest([i \in DOMAIN path |-> [do |-> "ensure", node |-> path[i]]]
                      \o <<[do |-> "list", node |-> last]>>)
    /\ UNCHANGED <<src, dst, cancel, pc, scope, transaction, file, failures, trail, report,
                   result, history, left>>

\* Mutant: a directory that was there is recorded as created.
EnsureDirectory_Claims ==
    /\ Working("ensure")
    /\ LET n == Head(todo).node
       IN  \/ Create(n)
           \/ /\ dst[n].owner = "foreign"
              /\ created' = Append(created, n)
              /\ UNCHANGED dst
    /\ Rest(<<>>)
    /\ UNCHANGED <<src, cancel, pc, scope, manifest, observed, file, failures, trail, report,
                   result, history, left>>

\* open_or_create_directory: a directory that is there is used and does not become ours.
EnsureDirectory ==
    /\ Working("ensure")
    /\ LET n == Head(todo).node
       IN  \/ Create(n)
           \/ dst[n].owner = "foreign" /\ UNCHANGED <<dst, created>>
    /\ Rest(<<>>)
    /\ UNCHANGED <<src, cancel, pc, scope, manifest, observed, file, failures, trail, report,
                   result, history, left>>

Entries(d) == {k \in Range(Children[d]) : src[k].kind # "absent"}

\* The entries in the order of their names (sort_by_key).
Sorted(d, entries) ==
    \A i, j \in DOMAIN entries :
       i < j => \E m, n \in DOMAIN Children[d] :
                   m < n /\ entries[i] = Children[d][m] /\ entries[j] = Children[d][n]

AsTasks(entries) == [i \in DOMAIN entries |-> [do |-> "entry", node |-> entries[i]]]

\* SecureDirectory::entries refuses a directory that lists a reparse point.
ListDirectory ==
    /\ Working("list")
    /\ LET d == Head(todo).node
       IN  /\ \A k \in Entries(d) : src[k].kind # "reparse"
           /\ \E entries \in SetToSeqs(Entries(d)) :
                 Sorted(d, entries) /\ Rest(AsTasks(entries))
    /\ UNCHANGED <<src, dst, cancel, pc, scope, transaction, file, failures, trail, report,
                   result, history, left>>

EnterDirectory ==
    /\ Working("entry") /\ ~cancel
    /\ Head(todo).node \in Dir
    /\ Rest(<<[do |-> "ensure", node |-> Head(todo).node],
              [do |-> "list", node |-> Head(todo).node]>>)
    /\ UNCHANGED <<src, dst, cancel, pc, scope, transaction, file, failures, trail, report,
                   result, history, left>>

\* Mutant: bytes are counted from zero for every file.
OpenFile_FromZero ==
    /\ Working("entry") /\ ~cancel
    /\ LET f == Head(todo).node
       IN  /\ f \in File /\ src[f].kind = "file"
           /\ Create(f)
           /\ current' = f
    /\ hashed' = <<>> /\ verified' = 0
    /\ base' = 0
    /\ pc' = "copy"
    /\ Rest(<<>>)
    /\ UNCHANGED <<src, cancel, scope, manifest, observed, failures, trail, report, result,
                   history, left>>

\* copy_file_verified: the source is opened, then the copy is created; an existing one is
\* never overwritten.
OpenFile ==
    /\ Working("entry") /\ ~cancel
    /\ LET f == Head(todo).node
       IN  /\ f \in File /\ src[f].kind = "file"
           /\ Create(f)
           /\ current' = f
    /\ hashed' = <<>> /\ verified' = 0
    /\ base' = CopiedBytes
    /\ pc' = "copy"
    /\ Rest(<<>>)
    /\ UNCHANGED <<src, cancel, scope, manifest, observed, failures, trail, report, result,
                   history, left>>

\* One buffer is read, written, hashed and reported; a defective medium may keep another value.
CopyChunk ==
    /\ pc = "copy" /\ ~cancel
    /\ Len(hashed) < Len(src[current].data)
    /\ LET c == src[current].data[Len(hashed) + 1]
           bytes == base + Len(hashed) + 1
       IN  /\ hashed' = Append(hashed, c)
           /\ \/ /\ dst' = [dst EXCEPT ![current].data = Append(@, c)]
                 /\ UNCHANGED left
              \/ /\ \E x \in Chunk \ {c} : dst' = [dst EXCEPT ![current].data = Append(@, x)]
                 /\ Spend("fault")
           /\ observed' = bytes
           /\ Report(bytes)
    /\ UNCHANGED <<src, cancel, pc, scope, todo, created, manifest, current, base, verified,
                   failures, trail, result, history>>

\* End of the source: flush, synchronize, rewind.
EndOfFile ==
    /\ pc = "copy" /\ ~cancel
    /\ Len(hashed) = Len(src[current].data)
    /\ pc' = "verify"
    /\ Report(CopiedBytes)
    /\ UNCHANGED <<src, dst, cancel, scope, todo, transaction, file, failures, trail, result,
                   history, left>>

\* sha256_file
ReadBack ==
    /\ pc = "verify" /\ ~cancel
    /\ verified < Len(dst[current].data)
    /\ verified' = verified + 1
    /\ UNCHANGED <<src, dst, cancel, pc, scope, todo, transaction, current, hashed, base,
                   failures, trail, report, result, history, left>>

\* Mutant: only the length is compared.
Matches_ByLength == Len(dst[current].data) = Len(hashed)

Matches == dst[current].data = hashed

\* The verified file enters the manifest.
Verified ==
    /\ pc = "verify" /\ ~cancel
    /\ verified = Len(dst[current].data)
    /\ Matches
    /\ manifest' = Append(manifest, [file |-> current, data |-> hashed])
    /\ pc' = "work"
    /\ UNCHANGED <<src, dst, cancel, scope, todo, created, observed, file, failures, trail,
                   report, result, history, left>>
-----------------------------------------------------------------------------
(* Ends.                                                                   *)

\* Mutant: the token is not checked before the receipt.
Finalize_Unchecked ==
    /\ pc = "work" /\ todo = <<>>
    /\ pc' = "logSuccess"
    /\ Report(TotalBytes(manifest))
    /\ UNCHANGED <<src, dst, cancel, scope, todo, transaction, file, failures, trail, result,
                   history, left>>

\* Nothing is left to copy: the last checks of the token and the receipt.
Finalize ==
    /\ pc = "work" /\ todo = <<>> /\ ~cancel
    /\ pc' = "logSuccess"
    /\ Report(TotalBytes(manifest))
    /\ UNCHANGED <<src, dst, cancel, scope, todo, transaction, file, failures, trail, result,
                   history, left>>

LogSuccess ==
    /\ pc = "logSuccess"
    /\ \/ /\ Log("MigrationSuccess")
          /\ Return("ok")
          /\ UNCHANGED <<history, left, report>>
       \/ LogFails("MigrationSuccess") /\ Fail /\ UNCHANGED result
    /\ UNCHANGED <<src, dst, cancel, scope, todo, transaction, file, failures>>

\* The token is set at a check, or a check of this code refuses what it meets.
Stopped ==
    \/ cancel /\ \/ pc \in {"copy", "verify"}
                 \/ pc = "work" /\ todo = <<>>
                 \/ Working("root") \/ Working("entry")
    \/ pc = "verify" /\ verified = Len(dst[current].data) /\ ~Matches
    \/ /\ Working("root")
       /\ LET path == Head(todo).path
          IN  \E i \in DOMAIN path : /\ src[path[i]].kind = "reparse"
                                     /\ \A j \in 1 .. i - 1 : src[path[j]].kind = "directory"
    \/ Working("list") /\ \E k \in Entries(Head(todo).node) : src[k].kind = "reparse"
    \/ /\ Working("entry") /\ Head(todo).node \in File
       /\ src[Head(todo).node].kind # "file" \/ dst[Head(todo).node] # Nothing

Stop ==
    /\ Stopped
    /\ Fail
    /\ UNCHANGED <<src, dst, cancel, scope, todo, transaction, file, failures, trail, result,
                   history, left>>

\* A call of the copy fails.
Fault ==
    /\ pc \in {"warn", "copy", "verify"} \/ (pc = "work" /\ todo # <<>>)
    /\ \/ Spend("fault") /\ Fail /\ UNCHANGED <<dst, history>>
       \/ /\ Working("ensure") \/ (Working("entry") /\ Head(todo).node \in File)
          /\ CreateFails(Head(todo).node)
    /\ UNCHANGED <<src, cancel, scope, todo, transaction, file, failures, trail, result>>
-----------------------------------------------------------------------------
(* CopyTransaction::rollback                                               *)

\* Mutant: a directory that cannot be removed is tried again.
RemoveCreated_Insists ==
    LET n == created[Len(created)]
    IN  /\ pc = "rollback" /\ created # <<>>
        /\ IF NonEmpty(n)
           THEN failures' = TRUE /\ UNCHANGED <<dst, created>>
           ELSE /\ created' = SubSeq(created, 1, Len(created) - 1)
                /\ dst' = [dst EXCEPT ![n] = Nothing]
                /\ UNCHANGED failures
        /\ UNCHANGED <<src, cancel, pc, scope, todo, manifest, observed, file, trail, report,
                       result, history, left>>

\* The last created object is deleted through its handle; a directory that is not empty is
\* not.  Errors do not stop the rollback.
RemoveCreated ==
    LET n == created[Len(created)]
    IN  /\ pc = "rollback" /\ created # <<>>
        /\ created' = SubSeq(created, 1, Len(created) - 1)
        /\ \/ /\ ~NonEmpty(n)
              /\ dst' = [dst EXCEPT ![n] = Nothing]
              /\ UNCHANGED <<failures, left>>
           \/ /\ NonEmpty(n)
              /\ failures' = TRUE
              /\ UNCHANGED <<dst, left>>
           \/ /\ Spend("fault")
              /\ failures' = TRUE
              /\ UNCHANGED dst
        /\ UNCHANGED <<src, cancel, pc, scope, todo, manifest, observed, file, trail, report,
                       result, history>>

RollbackEnds ==
    /\ pc = "rollback" /\ created = <<>>
    /\ pc' = IF failures THEN "logRollbackFailed" ELSE "logRolledBack"
    /\ UNCHANGED <<src, dst, cancel, scope, todo, transaction, file, failures, trail, report,
                   result, history, left>>

\* Mutant: only a rollback that failed is recorded.
LogRollback_OnlyFailures ==
    /\ pc \in {"logRolledBack", "logRollbackFailed"}
    /\ \/ ~failures /\ UNCHANGED <<trail, history, left>>
       \/ failures /\ Log("MigrationRollbackFailed") /\ UNCHANGED <<history, left>>
    /\ Return(IF failures THEN "rollbackError" ELSE "error")
    /\ UNCHANGED <<src, dst, cancel, scope, todo, transaction, file, failures, report>>

LogRollback ==
    /\ pc \in {"logRolledBack", "logRollbackFailed"}
    /\ LET e == IF failures THEN "MigrationRollbackFailed" ELSE "MigrationRolledBack"
       IN  \/ Log(e) /\ UNCHANGED <<history, left>>
           \/ LogFails(e)
    /\ Return(IF failures THEN "rollbackError" ELSE "error")
    /\ UNCHANGED <<src, dst, cancel, scope, todo, transaction, file, failures, report>>
-----------------------------------------------------------------------------
(* The operator and other software.                                        *)

\* cancel_migration or a deferred close sets the token.
Cancel ==
    /\ pc # "ended" /\ ~cancel
    /\ cancel' = TRUE
    /\ history' = [history EXCEPT !.inTime = pc # "logSuccess"]
    /\ UNCHANGED <<src, dst, pc, scope, todo, transaction, file, failures, trail, report,
                   result, left>>

\* An object appears below the target; a parent directory must be there.
Foreign ==
    /\ pc # "ended"
    /\ Spend("foreign")
    /\ \E n \in Node :
          /\ dst[n] = Nothing
          /\ n = Target \/ \E d \in Node \ File : n \in Range(Children[d]) /\ dst[d] # Nothing
          /\ dst' = [dst EXCEPT ![n] = [owner |-> "foreign", data |-> <<>>]]
    /\ UNCHANGED <<src, cancel, pc, scope, todo, transaction, file, failures, trail, report,
                   result, history>>

\* A source file that is not open is written, removed, or replaced by a reparse point.
ChangeSource ==
    /\ pc # "ended"
    /\ Spend("change")
    /\ \E f \in File :
          /\ ~(f = current /\ pc \in {"copy", "verify"})
          /\ \E s \in Source \ {src[f]} : s.kind # "directory" /\ src' = [src EXCEPT ![f] = s]
          /\ history' = [history EXCEPT !.touched = @ \cup {f}]
    /\ UNCHANGED <<dst, cancel, pc, scope, todo, transaction, file, failures, trail, report,
                   result>>
-----------------------------------------------------------------------------

Worker ==
    \/ Validate \/ Refuse \/ LogStarted \/ CreateTarget \/ CreateTargetFails \/ Warn
    \/ OpenRoot \/ EnsureDirectory \/ ListDirectory \/ EnterDirectory
    \/ OpenFile \/ CopyChunk \/ EndOfFile \/ ReadBack \/ Verified
    \/ Finalize \/ LogSuccess \/ Stop \/ Fault
    \/ RemoveCreated \/ RollbackEnds \/ LogRollback

Next == Worker \/ Cancel \/ Foreign \/ ChangeSource

Spec == Init /\ [][Next]_vars

\* The worker thread is scheduled.
FairSpec == Spec /\ WF_vars(Worker)

-----------------------------------------------------------------------------
(* Properties.                                                             *)

\* "Migration rollback removes only files and directories created by the current transaction":
\* no step touches an object of other software, not even a directory that was copied into.
ForeignKept == [][\A n \in Node : dst[n].owner = "foreign" => dst'[n] = dst[n]]_vars

\* A migration that returns an ordinary error, cancelled or failed at any point, leaves nothing
\* it created.  The exception is a target directory whose own creation was half done and whose
\* immediate deletion failed: no handle of it enters the transaction.
RolledBackIsGone ==
    result = "error" =>
        \A n \in Node : dst[n].owner = "ours" => n = Target /\ Target \in history.orphan

\* A successful migration is complete and verified: every selected file that nobody changed has
\* an exact copy of our own, and every line of the manifest is true of the copy.  What is below n
\* is the smallest set that holds n and, with a directory of the source, what it holds; a file is
\* selected when it is below a root whose path is all there.
Closed(source, S) ==
    \A d \in S \cap Dir : source[d].kind = "directory" => Range(Children[d]) \subseteq S

Below(source, n) ==
    {m \in Dir \cup File :
       \A S \in SUBSET (Dir \cup File) : n \in S /\ Closed(source, S) => m \in S}

Selected(f) ==
    \E i \in DOMAIN scope : Opens(src, scope[i]) /\ f \in Below(src, scope[i][Len(scope[i])])

SuccessIsComplete ==
    result = "ok" =>
        /\ \A f \in File \ history.touched :
              Selected(f) /\ src[f].kind = "file"
                 => dst[f] = [owner |-> "ours", data |-> src[f].data]
        /\ \A i \in DOMAIN manifest :
              dst[manifest[i].file] = [owner |-> "ours", data |-> manifest[i].data]

\* A cancellation that arrives before the last check of the token is never answered by success.
CancelHonoured == history.inTime => result # "ok"

\* The journal ends with the outcome: after MigrationStarted every return is preceded by the
\* event that names it, unless a journal write failed.
Outcome(r) == CASE r = "ok" -> "MigrationSuccess"
                [] r = "error" -> "MigrationRolledBack"
                [] r = "rollbackError" -> "MigrationRollbackFailed"

JournalTellsOutcome ==
    result # "none" /\ trail # <<>> /\ ~history.auditLost
        => trail[Len(trail)] = Outcome(result)

\* "Honest progress": files and bytes never go back, from the first report to the rollback's.
ProgressMonotone ==
    [][report'.files >= report.files /\ report'.bytes >= report.bytes]_vars

\* Every migration returns, whatever it meets below the target.
MigrationEnds == <>(result # "none")
=============================================================================
