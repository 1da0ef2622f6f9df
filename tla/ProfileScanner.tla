--------------------------- MODULE ProfileScanner ---------------------------
(***************************************************************************)
(* The profile scan: ProfileScanner (crates/core-profiles/src/scanner.rs), *)
(* the Restart Manager session it opens for each profile, its audit event  *)
(* (AppController::scan_profiles), the rescan that follows a repair        *)
(* (execute_repair) and the report and selection the main window shows     *)
(* (controller.rs, state.rs).                                              *)
(*                                                                         *)
(* Windows keeps changing what is scanned: keys come and go while          *)
(* RegEnumKeyExW walks them by index, users log on and off, and programs   *)
(* open and close a profile's NTUSER.DAT between the two calls that count  *)
(* and list them.                                                          *)
(***************************************************************************)
EXTENDS Naturals, Sequences, FiniteSets

CONSTANTS
    Sid,          \* user SIDs
    Orphan,       \* the SIDs whose account is gone
    Dir,          \* profile directories, as normalized paths
    None,         \* the empty path, no report
    Names,        \* the names ProfileList can have, in the order they are enumerated
    KeyChoices,   \* the keys each of them may hold
    Start,        \* the machines a scan may start on
    MaxLockers,   \* bound: programs that have a profile's NTUSER.DAT open
    MaxScans,     \* bound: scans and rescans begun
    MaxChanges,   \* bound: changes Windows makes
    MaxFaults     \* bound: calls that fail although they could succeed

\* A repair keeps the canonical key it displaces under a .pre-repair-* name.
Name == [sid : Sid, kind : {"canonical", "bak", "preserved", "system"}]

\* ProfileImagePath with or without a trailing separator, and the State mask's two bits the
\* scanner tells apart.
Path == [dir : Dir \cup {None}, slash : BOOLEAN]
Key == [path : Path, temp : BOOLEAN, dirty : BOOLEAN]

\* What a directory is: a profile, one without NTUSER.DAT, or a junction to a profile.
Content == {"missing", "bare", "profile", "junction"}

ASSUME ScannerConstants ==
    /\ None \notin Dir /\ Orphan \subseteq Sid
    /\ Names \in Seq(Name)
    /\ \A i \in DOMAIN Names : KeyChoices[Names[i]] \subseteq Key
    /\ \A i, j \in DOMAIN Names : Names[i] = Names[j] => i = j
    /\ \A m \in Start : /\ DOMAIN m.registry \subseteq {Names[i] : i \in DOMAIN Names}
                        /\ \A name \in DOMAIN m.registry : m.registry[name] \in KeyChoices[name]
                        /\ m.loaded \subseteq Sid
                        /\ m.content \in [Dir -> Content] /\ m.lockers \in [Dir -> 0 .. MaxLockers]
    /\ MaxLockers \in Nat /\ MaxScans \in Nat /\ MaxChanges \in Nat /\ MaxFaults \in Nat

Anomaly == {"BakSuffix", "TempSession", "PathCollision", "DirtyStateMask", "LockedNtUserDat",
            "MissingDirectory", "RegistryReadFailure", "SidResolutionFailure",
            "FilesystemScanFailure", "LockInspectionFailure"}
Health == {"Healthy", "Warning", "Corrupted"}

\* struct UserProfile.  History, overlooked: is_dir or is_file failed and that was taken for an
\* answer.
Profile == [name : Name, path : Path, loaded : BOOLEAN, anomalies : SUBSET Anomaly, health : Health,
            overlooked : BOOLEAN]

VARIABLES
    registry,   \* the keys of ProfileList
    loaded,     \* SIDs whose hive is loaded under HKEY_USERS
    content,    \* what each directory is
    lockers,    \* programs that have each directory's NTUSER.DAT open
    purpose,    \* what the scan is for: "scan", or "repair" that it follows
    pc,         \* the next step of the scan
    index,      \* the enumeration's index, then the position in names
    names,      \* the names enumerated
    profiles,   \* the profiles evaluated so far; the last one is being evaluated
    needed,     \* proc_info_needed of the first RmGetList
    quiet,      \* history: nothing changed and no call failed since the scan began
    locked,     \* history: directories whose NTUSER.DAT was open ever since the scan began
    events,     \* the operation's events in the journal
    pending,    \* the result queued for the main window
    shown,      \* the report the main window shows, with its history
    selected,   \* the selected row and the repair state copied from it
    scans, changes, faults

world == <<registry, loaded, content, lockers>>
window == <<shown, selected>>
vars == <<world, purpose, pc, index, names, profiles, needed, quiet, locked, events, pending, window, scans,
          changes, faults>>

NoSelection == [row |-> 0]
Present == {i \in DOMAIN Names : Names[i] \in DOMAIN registry}

Init ==
    /\ \E m \in Start : /\ registry = m.registry /\ loaded = m.loaded
                        /\ content = m.content /\ lockers = m.lockers
    /\ purpose = "scan" /\ pc = "idle" /\ index = 0 /\ names = << >> /\ profiles = << >> /\ needed = 0
    /\ quiet = TRUE /\ locked = {}
    /\ events = {}
    /\ pending = None /\ shown = None /\ selected = NoSelection
    /\ scans = 0 /\ changes = 0 /\ faults = 0

Fault ==
    /\ faults < MaxFaults
    /\ faults' = faults + 1
    /\ quiet' = FALSE

NoFault == UNCHANGED <<faults, quiet>>

\* What is on disk at a path; the empty path is no directory.
At(path) == IF path.dir = None THEN "missing" ELSE content[path.dir]
HasHive(path) == At(path) \in {"profile", "junction"}

\* A .pre-repair-* name is no SID: it resolves to no account and HKEY_USERS has no such key.
Resolves(name) == name.kind # "preserved" /\ name.sid \notin Orphan
IsLoaded(name) == name.kind # "preserved" /\ name.sid \in loaded

-----------------------------------------------------------------------------
(* enum_subkeys. *)

\* begin_operation admits one operation at a time, and the next only when the result of the
\* last one was applied.
Begin(kind, logged) ==
    /\ pc = "idle" /\ pending = None
    /\ scans < MaxScans
    /\ scans' = scans + 1
    /\ purpose' = kind /\ pc' = "enum"
    /\ quiet' = TRUE
    /\ locked' = {d \in Dir : lockers[d] > 0}
    /\ events' = logged
    /\ UNCHANGED <<loaded, content, lockers, index, names, profiles, needed, pending, window, changes, faults>>

BeginScan == Begin("scan", {}) /\ UNCHANGED registry

\* What a successful execute_plan (RepairTransaction) leaves of ProfileList.
Canonical(sid) == [sid |-> sid, kind |-> "canonical"]
Bak(sid) == [sid |-> sid, kind |-> "bak"]
Preserved(sid) == [sid |-> sid, kind |-> "preserved"]

Repaired(sid, fixBak, resetState) ==
    LET key == registry[IF fixBak THEN Bak(sid) ELSE Canonical(sid)]
        kept == IF fixBak /\ Canonical(sid) \in DOMAIN registry THEN {Preserved(sid)} ELSE {}
        gone == IF fixBak THEN {Bak(sid)} ELSE {}
    IN [n \in (DOMAIN registry \ gone) \cup {Canonical(sid)} \cup kept |->
          IF n = Canonical(sid)
            THEN IF resetState THEN [key EXCEPT !.temp = FALSE, !.dirty = FALSE] ELSE key
            ELSE IF n \in kept THEN registry[Canonical(sid)] ELSE registry[n]]

\* execute_repair of the selected profile: its plan passed the engine's own checks and
\* RepairSuccess was logged; the worker goes on to scan again.
BeginRescan ==
    /\ selected.row # 0
    /\ ~ selected.blocked /\ ~ selected.loaded
    /\ LET sid == selected.name.sid IN
       /\ selected.name.kind \in {"canonical", "bak"} /\ sid \notin loaded
       /\ selected.name \in DOMAIN registry
       /\ selected.path.dir # None /\ registry[selected.name].path.dir = selected.path.dir
       /\ HasHive(selected.path) => lockers[selected.path.dir] = 0
       /\ \E fixBak, resetState \in BOOLEAN :
             /\ fixBak \/ resetState
             /\ LET source == IF fixBak THEN Bak(sid) ELSE Canonical(sid) IN
                source \in DOMAIN registry /\ registry[source].path.dir # None
             /\ fixBak => Preserved(sid) \notin DOMAIN registry
             /\ registry' = Repaired(sid, fixBak, resetState)
    /\ DOMAIN registry' \subseteq {Names[i] : i \in DOMAIN Names}
    /\ Begin("repair", {"RepairSuccess"})

\* The name at an index of the keys as they are now.
NameAt(n) == Names[CHOOSE i \in Present : Cardinality({j \in Present : j < i}) = n]

\* RegEnumKeyExW returns a name.
Enumerate ==
    /\ pc = "enum"
    /\ index < Cardinality(Present)
    /\ names' = Append(names, NameAt(index))
    /\ index' = index + 1
    /\ UNCHANGED <<world, purpose, pc, profiles, needed, quiet, locked, events, pending, window, scans, changes, faults>>

\* ERROR_NO_MORE_ITEMS.
Enumerated ==
    /\ pc = "enum"
    /\ index >= Cardinality(Present)
    /\ pc' = "key" /\ index' = 1
    /\ UNCHANGED <<world, purpose, names, profiles, needed, quiet, locked, events, pending, window, scans, changes, faults>>

\* ProfileList cannot be opened or enumerated, or a key enumerated is gone or unreadable
\* (ProfileKeyUnreadable): the whole scan fails.
ScanFails ==
    /\ \/ pc \in {"enum", "key"} /\ Fault
       \/ /\ pc = "key" /\ index <= Len(names)
          /\ names[index].kind # "system" /\ names[index] \notin DOMAIN registry
          /\ NoFault
    /\ pc' = IF purpose = "scan" THEN "audit_error" ELSE "not_refreshed"
    /\ UNCHANGED <<world, purpose, index, names, profiles, needed, locked, events, pending, window, scans, changes>>

-----------------------------------------------------------------------------
(* One profile. *)

\* The profile being evaluated with more anomalies.
Marked(more) == [profiles EXCEPT ![Len(profiles)].anomalies = @ \cup more]
Current == profiles[Len(profiles)]

NextKey == index + 1

SkipSystem ==
    /\ pc = "key" /\ index <= Len(names)
    /\ names[index].kind = "system"
    /\ index' = NextKey
    /\ UNCHANGED <<world, purpose, pc, names, profiles, needed, quiet, locked, events, pending, window, scans, changes, faults>>

\* The key is opened and its values read: a value that cannot be read is an anomaly, and a
\* path counts as empty, a State as 0.  The SID is resolved.
ReadKey ==
    /\ pc = "key" /\ index <= Len(names)
    /\ names[index].kind # "system" /\ names[index] \in DOMAIN registry
    /\ LET key == registry[names[index]]
           Draft(values, failures) ==
             Append(profiles,
               [name |-> names[index], path |-> values.path, loaded |-> FALSE, health |-> "Healthy",
                overlooked |-> FALSE,
                anomalies |-> failures
                   \cup (IF Resolves(names[index]) THEN {} ELSE {"SidResolutionFailure"})
                   \cup (IF values.path.dir = None THEN {"RegistryReadFailure"} ELSE {})
                   \cup (IF names[index].kind = "bak" THEN {"BakSuffix"} ELSE {})
                   \cup (IF values.temp THEN {"TempSession"} ELSE {})
                   \cup (IF values.dirty /\ ~ values.temp THEN {"DirtyStateMask"} ELSE {})])
       IN \/ profiles' = Draft(key, {}) /\ NoFault
          \/ /\ profiles' \in
                  {Draft([key EXCEPT !.path = [dir |-> None, slash |-> FALSE]], {"RegistryReadFailure"}),
                   Draft([key EXCEPT !.temp = FALSE, !.dirty = FALSE], {"RegistryReadFailure"}),
                   Draft(key, {"RegistryReadFailure"}),
                   Draft(key, {"SidResolutionFailure"})}
             /\ Fault
    /\ pc' = "probe"
    /\ UNCHANGED <<world, purpose, index, names, needed, locked, events, pending, window, scans, changes>>

\* is_dir and is_file answer false when the path cannot be examined.
DirExists(path, failed) == "is_dir" \notin failed /\ At(path) # "missing"
NtUserExists(path, failed) == "is_file" \notin failed /\ HasHive(path)

\* HKEY_USERS, the directory and NTUSER.DAT, each of which may fail; only the hive of a profile
\* that is not loaded is inspected.
Probe ==
    /\ pc = "probe"
    /\ \E failed \in SUBSET {"open_key", "is_dir", "is_file"} :
          LET there == DirExists(Current.path, failed)
              inUse == "open_key" \notin failed /\ IsLoaded(Current.name)
          IN /\ IF failed = {} THEN NoFault ELSE Fault
             /\ profiles' = [profiles EXCEPT ![Len(profiles)] =
                  [@ EXCEPT !.loaded = inUse,
                            !.overlooked = failed \cap {"is_dir", "is_file"} # {},
                            !.anomalies = Current.anomalies
                               \cup (IF there THEN {} ELSE {"MissingDirectory"})
                               \cup (IF "open_key" \in failed THEN {"RegistryReadFailure"} ELSE {})]]
             /\ pc' = IF there /\ NtUserExists(Current.path, failed) /\ ~ inUse THEN "count" ELSE "size"
    /\ UNCHANGED <<world, purpose, index, names, needed, locked, events, pending, window, scans, changes>>

\* The first RmGetList says how many processes there are.
CountLockers ==
    /\ pc = "count"
    /\ needed' = lockers[Current.path.dir]
    /\ pc' = IF needed' = 0 THEN "size" ELSE "list"
    /\ UNCHANGED <<world, purpose, index, names, profiles, quiet, locked, events, pending, window, scans, changes, faults>>

\* The second RmGetList fills a buffer of that size.
ListLockers ==
    /\ pc = "list"
    /\ lockers[Current.path.dir] <= needed
    /\ profiles' = IF lockers[Current.path.dir] > 0 THEN Marked({"LockedNtUserDat"}) ELSE profiles
    /\ pc' = "size"
    /\ UNCHANGED <<world, purpose, index, names, needed, quiet, locked, events, pending, window, scans, changes, faults>>

\* Mutant: an inspection that fails is taken for a hive nobody has open.
InspectionFailure_Ignored == {}

InspectionFailure == {"LockInspectionFailure"}

\* A Restart Manager call fails, or the second one finds more processes than the first.
InspectionFails ==
    /\ \/ pc \in {"count", "list"} /\ Fault
       \/ pc = "list" /\ lockers[Current.path.dir] > needed /\ NoFault
    /\ profiles' = Marked(InspectionFailure)
    /\ pc' = "size"
    /\ UNCHANGED <<world, purpose, index, names, needed, locked, events, pending, window, scans, changes>>

\* compute_health.
HealthOf(name, anomalies) ==
    IF name.kind = "bak" \/ anomalies \cap {"BakSuffix", "TempSession", "PathCollision"} # {}
      THEN "Corrupted"
      ELSE IF anomalies # {} THEN "Warning" ELSE "Healthy"

\* directory_size of a directory that was found, which refuses a junction, and the profile's
\* health.
Measure ==
    /\ pc = "size"
    /\ \E failure \in {{}, {"FilesystemScanFailure"}} :
          LET anomalies == Current.anomalies \cup failure
              there == "MissingDirectory" \notin Current.anomalies
          IN
          /\ IF failure = {} THEN (there => At(Current.path) # "junction") /\ NoFault
                            ELSE \/ there /\ At(Current.path) = "junction" /\ NoFault
                                 \/ there /\ At(Current.path) # "junction" /\ Fault
          /\ profiles' = [profiles EXCEPT ![Len(profiles)] =
               [@ EXCEPT !.anomalies = anomalies, !.health = HealthOf(Current.name, anomalies)]]
    /\ pc' = "key" /\ index' = NextKey
    /\ UNCHANGED <<world, purpose, names, needed, locked, events, pending, window, scans, changes>>

-----------------------------------------------------------------------------
(* The report. *)

\* Mutant: the paths are compared as they are written.
SamePath_Literal(a, b) == a.dir # None /\ a = b

\* Two profile paths are the same after normalization.
SamePath(a, b) == a.dir # None /\ a.dir = b.dir

Collides(i) == \E j \in DOMAIN profiles \ {i} : SamePath(profiles[i].path, profiles[j].path)

\* mark_path_collisions; the health of a colliding profile is computed again.
MarkCollisions ==
    /\ pc = "key" /\ index > Len(names)
    /\ profiles' = [i \in DOMAIN profiles |->
          IF Collides(i)
            THEN LET anomalies == profiles[i].anomalies \cup {"PathCollision"} IN
                 [profiles[i] EXCEPT !.anomalies = anomalies,
                                     !.health = HealthOf(profiles[i].name, anomalies)]
            ELSE profiles[i]]
    /\ pc' = IF purpose = "scan" THEN "audit" ELSE "refresh"
    /\ UNCHANGED <<world, purpose, index, names, needed, quiet, locked, events, pending, window, scans, changes, faults>>

\* build_diagnostic_report counts each health.
Count(report, health) == Cardinality({i \in DOMAIN report : report[i].health = health})

\* Mutant: warnings alone do not count.
ScanAuditStatus_CorruptedOnly(report) == IF Count(report, "Corrupted") > 0 THEN "warning" ELSE "success"

\* scan_audit_status.
ScanAuditStatus(report) ==
    IF Count(report, "Warning") > 0 \/ Count(report, "Corrupted") > 0 THEN "warning" ELSE "success"

\* The result goes to the event loop; the scan's own state ends with it.
Queue(result) ==
    /\ pending' = result
    /\ pc' = "idle" /\ index' = 0 /\ names' = << >> /\ profiles' = << >> /\ needed' = 0 /\ locked' = {}

\* The scan's event is logged and its report queued.
Audit ==
    /\ pc = "audit"
    /\ events' = events \cup {ScanAuditStatus(profiles)}
    /\ Queue([purpose |-> purpose, report |-> profiles, locked |-> locked, events |-> events'])
    /\ UNCHANGED <<world, purpose, quiet, window, scans, changes, faults>>

\* The log fails, with or without its line in the file: the scan has failed.
AuditFails ==
    /\ pc = "audit"
    /\ Fault
    /\ events' \in {events, events \cup {ScanAuditStatus(profiles)}}
    /\ pc' = "audit_error"
    /\ UNCHANGED <<world, purpose, index, names, profiles, needed, locked, pending, window, scans, changes>>

\* A failure is logged as well; a failure to log it is added to the error.
AuditError ==
    /\ pc = "audit_error"
    /\ \/ events' = events \cup {"failed"} /\ NoFault
       \/ events' \in {events, events \cup {"failed"}} /\ Fault
    /\ Queue([purpose |-> purpose, report |-> None, locked |-> {}, events |-> events'])
    /\ UNCHANGED <<world, purpose, window, scans, changes>>

\* After a repair the report, or the failure to get one, is queued with nothing more logged.
Refresh ==
    /\ pc \in {"refresh", "not_refreshed"}
    /\ IF pc = "refresh"
         THEN Queue([purpose |-> purpose, report |-> profiles, locked |-> locked, events |-> events])
         ELSE Queue([purpose |-> purpose, report |-> None, locked |-> {}, events |-> events])
    /\ UNCHANGED <<world, purpose, quiet, events, window, scans, changes, faults>>

-----------------------------------------------------------------------------
(* The main window. *)

\* repair_suggestions and the fields apply_selected_profile copies from a row.
Blocked(profile) == profile.anomalies \cap {"LockedNtUserDat", "LockInspectionFailure"} # {}

Selection(i, profile) ==
    [row |-> i, name |-> profile.name, path |-> profile.path, loaded |-> profile.loaded,
     blocked |-> Blocked(profile),
     fixBak |-> "BakSuffix" \in profile.anomalies,
     resetState |-> "DirtyStateMask" \in profile.anomalies]

\* Mutant: the new report is shown under the old selection.
AfterReport_KeepsSelection == selected

\* render_report with reset_selection.
AfterReport == NoSelection

\* queue_scan_result, and the end of execute_repair: a failed scan leaves the report that is
\* shown.
ApplyResult ==
    /\ pending # None
    /\ pending' = None
    /\ IF pending.report = None
         THEN UNCHANGED window
         ELSE shown' = pending /\ selected' = AfterReport
    /\ UNCHANGED <<world, purpose, pc, index, names, profiles, needed, quiet, locked, events, scans, changes, faults>>

\* select_profile.
SelectProfile(i) ==
    /\ shown # None
    /\ i \in DOMAIN shown.report
    /\ selected' = Selection(i, shown.report[i])
    /\ UNCHANGED <<world, purpose, pc, index, names, profiles, needed, quiet, locked, events, pending, shown, scans,
                   changes, faults>>

-----------------------------------------------------------------------------
(* Windows. *)

Change ==
    /\ changes < MaxChanges
    /\ changes' = changes + 1
    /\ quiet' = FALSE
    /\ UNCHANGED <<content, purpose, pc, index, names, profiles, needed, events, pending, window, scans, faults>>

\* A logon, an administrator or another WinProfile adds or removes a key.
KeyAdded(name) ==
    /\ name \notin DOMAIN registry
    /\ \E key \in KeyChoices[name] :
          registry' = [n \in DOMAIN registry \cup {name} |-> IF n = name THEN key ELSE registry[n]]
    /\ Change
    /\ UNCHANGED <<loaded, lockers, locked>>

KeyRemoved(name) ==
    /\ name \in DOMAIN registry
    /\ registry' = [n \in DOMAIN registry \ {name} |-> registry[n]]
    /\ Change
    /\ UNCHANGED <<loaded, lockers, locked>>

\* A user logs on or off.
LogonOrOff(sid) ==
    /\ loaded' = IF sid \in loaded THEN loaded \ {sid} ELSE loaded \cup {sid}
    /\ Change
    /\ UNCHANGED <<registry, lockers, locked>>

\* A program opens or closes a profile's NTUSER.DAT.
LockersChange(d) ==
    /\ lockers' \in {[lockers EXCEPT ![d] = n] : n \in 0 .. MaxLockers \ {lockers[d]}}
    /\ locked' = {e \in locked : lockers'[e] > 0}
    /\ Change
    /\ UNCHANGED <<registry, loaded>>

Scan ==
    \/ Enumerate \/ Enumerated \/ ScanFails \/ SkipSystem \/ ReadKey \/ Probe \/ CountLockers \/ ListLockers
    \/ InspectionFails \/ Measure \/ MarkCollisions \/ Audit \/ AuditFails \/ AuditError
    \/ Refresh

Next ==
    \/ BeginScan \/ BeginRescan \/ Scan \/ ApplyResult
    \/ \E i \in 1 .. Len(Names) * 2 : SelectProfile(i)
    \/ \E i \in DOMAIN Names : KeyAdded(Names[i]) \/ KeyRemoved(Names[i])
    \/ \E sid \in Sid : LogonOrOff(sid)
    \/ \E d \in Dir : LockersChange(d)

Spec == Init /\ [][Next]_vars

-----------------------------------------------------------------------------

\* Every variable has its type.
TypeOK ==
    /\ DOMAIN registry \subseteq Name /\ \A name \in DOMAIN registry : registry[name] \in Key
    /\ loaded \in SUBSET Sid
    /\ content \in [Dir -> Content] /\ lockers \in [Dir -> 0 .. MaxLockers]
    /\ index \in Nat /\ needed \in 0 .. MaxLockers
    /\ names \in Seq(Name)
    /\ profiles \in Seq(Profile) /\ Len(profiles) <= Len(names)
    /\ quiet \in BOOLEAN /\ locked \in SUBSET Dir
    /\ purpose \in {"scan", "repair"}
    /\ events \in SUBSET {"success", "warning", "failed", "RepairSuccess"}
    /\ scans \in 0 .. MaxScans /\ changes \in 0 .. MaxChanges /\ faults \in 0 .. MaxFaults

\* When nothing changes during a scan or a rescan and no call fails, the report is what the
\* scanner's rules say of the registry and the disk: every key but the system's once, each with
\* exactly its anomalies, and health by the worst of them.
QuietScanIsExact ==
    pc \in {"audit", "refresh"} /\ quiet =>
        LET keys == {name \in DOMAIN registry : name.kind # "system"}
            Other(name) == {n \in keys \ {name} : registry[n].path.dir = registry[name].path.dir}
        IN /\ Len(profiles) = Cardinality(keys)
           /\ {profiles[i].name : i \in DOMAIN profiles} = keys
           /\ \A i \in DOMAIN profiles :
                LET r == profiles[i]
                    key == registry[r.name]
                    Has(a) == a \in r.anomalies
                IN /\ r.path = key.path /\ r.loaded = IsLoaded(r.name)
                   /\ Has("RegistryReadFailure") <=> key.path.dir = None
                   /\ Has("SidResolutionFailure") <=> ~ Resolves(r.name)
                   /\ Has("BakSuffix") <=> r.name.kind = "bak"
                   /\ Has("TempSession") <=> key.temp
                   /\ Has("DirtyStateMask") <=> key.dirty /\ ~ key.temp
                   /\ Has("PathCollision") <=> key.path.dir # None /\ Other(r.name) # {}
                   /\ Has("MissingDirectory") <=> At(key.path) = "missing"
                   /\ Has("LockedNtUserDat") <=>
                        HasHive(key.path) /\ lockers[key.path.dir] > 0 /\ ~ r.loaded
                   /\ Has("FilesystemScanFailure") <=> At(key.path) = "junction"
                   /\ ~ Has("LockInspectionFailure")
                   /\ r.health = "Corrupted" <=>
                        r.name.kind = "bak" \/ key.temp \/ (key.path.dir # None /\ Other(r.name) # {})
                   /\ r.health = "Healthy" <=> r.anomalies = {}

\* A report is shown only after its operation was logged: for a scan the journal has the event
\* that says warning exactly when a row is not healthy, and a scan whose logging failed is not
\* shown; for the rescan that follows a repair it has RepairSuccess, and no event of the rescan.
ShownIsAudited ==
    shown # None =>
        IF shown.purpose = "repair"
          THEN shown.events = {"RepairSuccess"}
          ELSE (IF \A i \in DOMAIN shown.report : shown.report[i].health = "Healthy"
                  THEN "success" ELSE "warning") \in shown.events

\* A profile whose NTUSER.DAT another program had open during the whole scan is not offered for
\* repair: once selected, it counts as loaded or as blocked, even when the number of programs
\* changed between the two calls of the Restart Manager or one of them failed, and whatever was
\* selected when its report arrived.  The exception is a row whose is_dir or is_file failed: the
\* scanner takes that for no directory or no NTUSER.DAT and never asks the Restart Manager.
LockedHiveBlocksRepair ==
    /\ selected.row # 0
    /\ selected.path.dir \in shown.locked /\ HasHive(selected.path)
    => selected.loaded \/ selected.blocked \/ shown.report[selected.row].overlooked
=============================================================================
