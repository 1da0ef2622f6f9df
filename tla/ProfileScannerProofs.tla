------------------------ MODULE ProfileScannerProofs ------------------------
(***************************************************************************)
(* TLAPS proofs about ProfileScanner, for any machine, any names and keys, *)
(* any number of scans, changes and failing calls.                         *)
(***************************************************************************)
EXTENDS ProfileScanner, SequenceTheorems, FiniteSetTheorems, WellFoundedInduction, TLAPS

\* The directory at the path holds an NTUSER.DAT.
Hive(disk, path) == path.dir # None /\ disk[path.dir] \in {"profile", "junction"}

\* A profile whose hive one of these directories holds open is loaded or blocked, or its
\* directory or NTUSER.DAT could not be examined.
Safe(disk, open, profile) ==
    profile.path.dir \in open /\ Hive(disk, profile.path) =>
        profile.loaded \/ Blocked(profile) \/ profile.overlooked

\* What scan_audit_status must say of a report.
Status(report) ==
    IF \A i \in DOMAIN report : report[i].health = "Healthy" THEN "success" ELSE "warning"

\* A queued or shown report is logged, or follows a repair that was, and its rows are safe.
Good(disk, result) ==
    result.report # None =>
       /\ IF result.purpose = "repair" THEN result.events = {"RepairSuccess"}
                                      ELSE Status(result.report) \in result.events
       /\ \A i \in DOMAIN result.report : Safe(disk, result.locked, result.report[i])

Types ==
    /\ DOMAIN registry \subseteq Name /\ \A name \in DOMAIN registry : registry[name] \in Key
    /\ content \in [Dir -> Content] /\ lockers \in [Dir -> 0 .. MaxLockers]
    /\ profiles \in Seq(Profile)
    /\ locked \in SUBSET Dir

\* The profile is evaluated, or the Restart Manager has not answered yet.
Inspecting == {"probe", "count", "list"}

RowsInv ==
    /\ pc \in {"idle", "enum"} => profiles = << >>
    /\ pc \in Inspecting \cup {"size"} => profiles # << >>
    /\ pc \in {"count", "list"} => Hive(content, profiles[Len(profiles)].path)
    /\ \A i \in DOMAIN profiles :
          i # Len(profiles) \/ pc \notin Inspecting => Safe(content, locked, profiles[i])

ResultsInv ==
    /\ pending # None => Good(content, pending)
    /\ shown # None => shown.report # None /\ Good(content, shown)
    /\ \/ selected = NoSelection
       \/ /\ shown # None
          /\ \E i \in DOMAIN shown.report : selected = Selection(i, shown.report[i])

\* A scan ends with its event, a rescan with the event of its repair alone.
PurposeInv ==
    /\ purpose \in {"scan", "repair"}
    /\ pc \in {"audit", "audit_error"} => purpose = "scan"
    /\ pc \in {"refresh", "not_refreshed"} => purpose = "repair"
    /\ purpose = "repair" /\ pc # "idle" => events = {"RepairSuccess"}

ScanInv ==
    /\ Types
    /\ \A d \in locked : lockers[d] > 0
    /\ RowsInv
    /\ ResultsInv
-----------------------------------------------------------------------------
(* Operators. *)

\* The empty path holds no hive.
LEMMA HiveMeaning == \A path : HasHive(path) <=> Hive(content, path)
BY DEF HasHive, At, Hive

\* An element of a sequence.
LEMMA Element == ASSUME NEW T, NEW s \in Seq(T), NEW i \in DOMAIN s PROVE s[i] \in T
BY ElementOfSeq, LenProperties

\* The last element of a sequence that is not empty.
LEMMA LastIndex ==
    ASSUME NEW T, NEW s \in Seq(T), s # << >>
    PROVE  Len(s) \in DOMAIN s /\ s[Len(s)] \in T
<1>1. Len(s) \in DOMAIN s
    BY EmptySeq, LenProperties
<1> QED BY <1>1, Element

\* Replacing an element.
LEMMA Replaced ==
    ASSUME NEW T, NEW s \in Seq(T), NEW i \in DOMAIN s, NEW x \in T
    PROVE  /\ [s EXCEPT ![i] = x] \in Seq(T) /\ DOMAIN [s EXCEPT ![i] = x] = DOMAIN s
           /\ Len([s EXCEPT ![i] = x]) = Len(s) /\ [s EXCEPT ![i] = x][i] = x
           /\ \A j \in DOMAIN s : j # i => [s EXCEPT ![i] = x][j] = s[j]
<1>1. DOMAIN s = 1 .. Len(s)
    BY LenProperties
<1> QED BY <1>1, ExceptSeq

\* A fewer of open hives leaves a safe profile safe.
LEMMA SafeMonotone ==
    ASSUME NEW disk, NEW a, NEW b, b \subseteq a, NEW profile, Safe(disk, a, profile)
    PROVE  Safe(disk, b, profile)
BY DEF Safe

\* More anomalies leave a safe profile safe.
LEMMA SafeMore ==
    ASSUME NEW disk, NEW open, NEW p, NEW q, q.path = p.path, q.loaded = p.loaded,
           q.overlooked = p.overlooked, p.anomalies \subseteq q.anomalies, Safe(disk, open, p)
    PROVE  Safe(disk, open, q)
BY DEF Safe, Blocked

\* scan_audit_status counts what a report shows.
LEMMA AuditStatus ==
    ASSUME NEW report \in Seq(Profile)
    PROVE  ScanAuditStatus(report) = Status(report)
<1>1. IsFiniteSet(DOMAIN report)
    BY LenProperties, FS_Interval
<1>2. ASSUME NEW h
      PROVE  Count(report, h) > 0 <=> \E i \in DOMAIN report : report[i].health = h
  <2> DEFINE S == {i \in DOMAIN report : report[i].health = h}
  <2>1. IsFiniteSet(S)
      BY <1>1, FS_Subset
  <2>2. Cardinality(S) \in Nat /\ (Cardinality(S) = 0 <=> S = {})
      BY <2>1, FS_CardinalityType, FS_EmptySet
  <2>3. Count(report, h) = Cardinality(S)
      BY DEF Count
  <2>4. Count(report, h) > 0 <=> S # {}
      BY <2>2, <2>3
  <2> QED BY <2>4
<1>3. \A i \in DOMAIN report : report[i].health \in Health
  <2>1. \A i \in DOMAIN report : report[i] \in Profile
      BY Element
  <2> QED BY <2>1 DEF Profile
<1> QED BY <1>2, <1>3 DEF ScanAuditStatus, Status, Health
-----------------------------------------------------------------------------
(* The scan. *)

\* A step between profiles.
LEMMA MoveInv ==
    ASSUME ScanInv, UNCHANGED <<registry, content, lockers, profiles, locked, pending, shown, selected>>,
           pc \notin Inspecting,
           \/ pc' \in {"key", "audit_error", "not_refreshed"}
           \/ pc = "enum" /\ pc' = "enum"
    PROVE  ScanInv'
<1>1. Types' /\ \A d \in locked' : lockers'[d] > 0
    BY DEF ScanInv, Types
<1>2. RowsInv'
    BY DEF ScanInv, RowsInv, Inspecting, Safe, Hive
<1>3. ResultsInv'
    BY DEF ScanInv, ResultsInv
<1> QED BY <1>1, <1>2, <1>3 DEF ScanInv

\* A scan begins, of a registry that was left alone or repaired.
LEMMA BeginInv ==
    ASSUME ScanInv, NEW kind, NEW logged, Begin(kind, logged),
           DOMAIN registry' \subseteq Name, \A name \in DOMAIN registry' : registry'[name] \in Key
    PROVE  ScanInv'
<1>1. /\ pc = "idle" /\ pc' = "enum" /\ locked' = {d \in Dir : lockers[d] > 0}
      /\ UNCHANGED <<content, lockers, profiles, pending, shown, selected>>
    BY DEF Begin, window
<1>2. Types' /\ \A d \in locked' : lockers'[d] > 0
    BY <1>1 DEF ScanInv, Types
<1>3. RowsInv'
    BY <1>1, EmptySeq, LenProperties DEF ScanInv, RowsInv, Inspecting
<1>4. ResultsInv'
    BY <1>1 DEF ScanInv, ResultsInv
<1> QED BY <1>2, <1>3, <1>4 DEF ScanInv

\* A repair leaves keys in the registry.
LEMMA RepairedKeys ==
    ASSUME \A name \in DOMAIN registry : registry[name] \in Key,
           NEW sid, NEW fixBak \in BOOLEAN, NEW resetState \in BOOLEAN,
           (IF fixBak THEN Bak(sid) ELSE Canonical(sid)) \in DOMAIN registry
    PROVE  \A name \in DOMAIN Repaired(sid, fixBak, resetState) :
              Repaired(sid, fixBak, resetState)[name] \in Key
<1>1. PICK key : key = registry[IF fixBak THEN Bak(sid) ELSE Canonical(sid)]
    OBVIOUS
<1>2. PICK canonical : canonical = Canonical(sid)
    OBVIOUS
<1>3. key \in Key /\ [key EXCEPT !.temp = FALSE, !.dirty = FALSE] \in Key
    BY <1>1 DEF Key
<1>4. PICK gone : gone = IF fixBak THEN {Bak(sid)} ELSE {}
    OBVIOUS
<1>5. PICK kept : /\ kept = IF fixBak /\ canonical \in DOMAIN registry THEN {Preserved(sid)} ELSE {}
                  /\ kept # {} => canonical \in DOMAIN registry
    OBVIOUS
<1>6. PICK D : D = (DOMAIN registry \ gone) \cup {canonical} \cup kept
    OBVIOUS
<1>7. Repaired(sid, fixBak, resetState) =
        [n \in D |-> IF n = canonical
                      THEN IF resetState THEN [key EXCEPT !.temp = FALSE, !.dirty = FALSE] ELSE key
                      ELSE IF n \in kept THEN registry[canonical] ELSE registry[n]]
    BY <1>1, <1>2, <1>4, <1>5, <1>6, Zenon DEF Repaired
<1> QED BY <1>3, <1>5, <1>6, <1>7

LEMMA BeginScanInv == ASSUME ScanInv, BeginScan PROVE ScanInv'
<1>1. Begin("scan", {}) /\ registry' = registry
    BY DEF BeginScan
<1>2. DOMAIN registry' \subseteq Name /\ \A name \in DOMAIN registry' : registry'[name] \in Key
    BY <1>1 DEF ScanInv, Types
<1> QED BY <1>1, <1>2, BeginInv

LEMMA BeginRescanInv == ASSUME ScanInv, BeginRescan PROVE ScanInv'
<1>1. /\ Begin("repair", {"RepairSuccess"})
      /\ DOMAIN registry' \subseteq {Names[i] : i \in DOMAIN Names}
    BY DEF BeginRescan
<1>2. PICK sid : \E fixBak, resetState \in BOOLEAN :
         /\ (IF fixBak THEN Bak(sid) ELSE Canonical(sid)) \in DOMAIN registry
         /\ registry' = Repaired(sid, fixBak, resetState)
    BY ZenonT(60) DEF BeginRescan
<1>3. \A name \in DOMAIN registry' : registry'[name] \in Key
    BY <1>2, RepairedKeys DEF ScanInv, Types
<1>4. DOMAIN registry' \subseteq Name
    BY <1>1, ScannerConstants, Element
<1> QED BY <1>1, <1>3, <1>4, BeginInv

\* A profile is added, to be inspected.
LEMMA AddedInv ==
    ASSUME ScanInv, NEW p \in Profile, profiles' = Append(profiles, p), pc' = "probe", pc = "key",
           UNCHANGED <<registry, content, lockers, locked, pending, shown, selected>>
    PROVE  ScanInv'
<1>1. profiles \in Seq(Profile)
    BY DEF ScanInv, Types
<1>2. /\ profiles' \in Seq(Profile) /\ Len(profiles') = Len(profiles) + 1 /\ Len(profiles) \in Nat
      /\ \A i \in 1 .. Len(profiles) : profiles'[i] = profiles[i]
      /\ DOMAIN profiles = 1 .. Len(profiles) /\ DOMAIN profiles' = 1 .. Len(profiles')
    BY <1>1, AppendProperties, LenProperties
<1>3. \A i \in DOMAIN profiles' : i # Len(profiles') => i \in DOMAIN profiles /\ profiles'[i] = profiles[i]
    BY <1>2
<1>4. \A i \in DOMAIN profiles : Safe(content, locked, profiles[i])
    BY DEF ScanInv, RowsInv, Inspecting
<1>5. \A i \in DOMAIN profiles' : i # Len(profiles') => Safe(content', locked', profiles'[i])
    BY <1>3, <1>4
<1>6. profiles' # << >>
    BY <1>2, EmptySeq
<1>7. RowsInv'
    BY <1>5, <1>6 DEF RowsInv, Inspecting
<1>8. Types' /\ (\A d \in locked' : lockers'[d] > 0) /\ ResultsInv'
    BY <1>2 DEF ScanInv, Types, ResultsInv
<1> QED BY <1>7, <1>8 DEF ScanInv

LEMMA ReadKeyInv == ASSUME ScanInv, ReadKey PROVE ScanInv'
<1>1. /\ pc = "key" /\ pc' = "probe" /\ names[index] \in DOMAIN registry
      /\ UNCHANGED <<registry, content, lockers, locked, pending, shown, selected>>
    BY DEF ReadKey, world, window
<1>2. PICK key, name : key = registry[names[index]] /\ name = names[index]
    OBVIOUS
<1>3. key \in Key /\ name \in Name
    BY <1>1, <1>2 DEF ScanInv, Types
<1> DEFINE Anomalies(values, failures) ==
               failures \cup (IF Resolves(name) THEN {} ELSE {"SidResolutionFailure"})
               \cup (IF values.path.dir = None THEN {"RegistryReadFailure"} ELSE {})
               \cup (IF name.kind = "bak" THEN {"BakSuffix"} ELSE {})
               \cup (IF values.temp THEN {"TempSession"} ELSE {})
               \cup (IF values.dirty /\ ~ values.temp THEN {"DirtyStateMask"} ELSE {})
           Draft(values, failures) ==
               [name |-> name, path |-> values.path, loaded |-> FALSE, health |-> "Healthy",
                overlooked |-> FALSE, anomalies |-> Anomalies(values, failures)]
<1>4. ASSUME NEW values \in Key, NEW failures \in SUBSET Anomaly PROVE Draft(values, failures) \in Profile
  <2>1. Anomalies(values, failures) \in SUBSET Anomaly
      BY DEF Anomaly
  <2>2. values.path \in Path
      BY DEF Key
  <2> HIDE DEF Anomalies
  <2> QED BY <1>3, <2>1, <2>2 DEF Profile, Health
<1>5. /\ [key EXCEPT !.path = [dir |-> None, slash |-> FALSE]] \in Key
      /\ [key EXCEPT !.temp = FALSE, !.dirty = FALSE] \in Key
    BY <1>3 DEF Key, Path
<1>6. {} \in SUBSET Anomaly /\ {"RegistryReadFailure"} \in SUBSET Anomaly
      /\ {"SidResolutionFailure"} \in SUBSET Anomaly
    BY DEF Anomaly
<1>7. \E values \in Key, failures \in SUBSET Anomaly : profiles' = Append(profiles, Draft(values, failures))
  <2>1. \/ profiles' = Append(profiles, Draft(key, {}))
        \/ profiles' \in
              {Append(profiles, Draft([key EXCEPT !.path = [dir |-> None, slash |-> FALSE]], {"RegistryReadFailure"})),
               Append(profiles, Draft([key EXCEPT !.temp = FALSE, !.dirty = FALSE], {"RegistryReadFailure"})),
               Append(profiles, Draft(key, {"RegistryReadFailure"})),
               Append(profiles, Draft(key, {"SidResolutionFailure"}))}
      BY <1>2, ZenonT(60) DEF ReadKey
  <2> HIDE DEF Draft
  <2> QED BY <1>3, <1>5, <1>6, <2>1
<1>8. PICK p \in Profile : profiles' = Append(profiles, p)
  <2> HIDE DEF Draft
  <2> QED BY <1>4, <1>7
<1> QED BY <1>1, <1>8, AddedInv

\* The last profile is replaced by one that says the same of its path.
LEMMA LastInv ==
    ASSUME ScanInv, pc \in Inspecting \cup {"size"}, NEW p \in Profile,
           profiles' = [profiles EXCEPT ![Len(profiles)] = p], p.path = profiles[Len(profiles)].path,
           UNCHANGED <<registry, content, lockers, locked, pending, shown, selected>>,
           pc' \in {"count", "list", "size", "key"},
           pc' \in {"count", "list"} => Hive(content, p.path),
           pc' \notin Inspecting => Safe(content, locked, p)
    PROVE  ScanInv'
<1>1. profiles \in Seq(Profile) /\ profiles # << >>
    BY DEF ScanInv, Types, RowsInv
<1>2. /\ profiles' \in Seq(Profile) /\ DOMAIN profiles' = DOMAIN profiles /\ Len(profiles') = Len(profiles)
      /\ profiles'[Len(profiles)] = p
      /\ \A j \in DOMAIN profiles : j # Len(profiles) => profiles'[j] = profiles[j]
    BY <1>1, LastIndex, Replaced
<1>3. \A i \in DOMAIN profiles : i # Len(profiles) => Safe(content, locked, profiles[i])
    BY DEF ScanInv, RowsInv
<1>4. \A i \in DOMAIN profiles' : i # Len(profiles') \/ pc' \notin Inspecting => Safe(content', locked', profiles'[i])
    BY <1>2, <1>3
<1>5. profiles' # << >>
    BY <1>1, <1>2, EmptySeq
<1>6. pc' \in {"count", "list"} => Hive(content', profiles'[Len(profiles')].path)
    BY <1>2
<1>7. RowsInv'
    BY <1>4, <1>5, <1>6 DEF RowsInv
<1>8. Types' /\ (\A d \in locked' : lockers'[d] > 0) /\ ResultsInv'
    BY <1>2 DEF ScanInv, Types, ResultsInv
<1> QED BY <1>7, <1>8 DEF ScanInv

\* What probing makes of the row c: the answers that failed are taken for "no".
ProbedRow(c, failed, p) ==
    /\ profiles' = [profiles EXCEPT ![Len(profiles)] = p]
    /\ p.name = c.name /\ p.path = c.path
    /\ p.loaded <=> "open_key" \notin failed /\ IsLoaded(c.name)
    /\ p.overlooked <=> "is_dir" \in failed \/ "is_file" \in failed
    /\ p.anomalies = c.anomalies \cup (IF DirExists(c.path, failed) THEN {} ELSE {"MissingDirectory"})
                       \cup (IF "open_key" \in failed THEN {"RegistryReadFailure"} ELSE {})
    /\ pc' = IF DirExists(c.path, failed) /\ NtUserExists(c.path, failed) /\ ~ p.loaded
               THEN "count" ELSE "size"
    /\ IF failed = {} THEN quiet' = quiet ELSE quiet' = FALSE

LEMMA ProbeMeaning ==
    ASSUME Probe, profiles \in Seq(Profile), profiles # << >>,
           NEW c, c = profiles[Len(profiles)]
    PROVE  \E failed \in SUBSET {"open_key", "is_dir", "is_file"}, p \in Profile : ProbedRow(c, failed, p)
<1> DEFINE L(failed) == "open_key" \notin failed /\ IsLoaded(c.name)
           O(failed) == failed \cap {"is_dir", "is_file"} # {}
           A(failed) == c.anomalies \cup (IF DirExists(c.path, failed) THEN {} ELSE {"MissingDirectory"})
                           \cup (IF "open_key" \in failed THEN {"RegistryReadFailure"} ELSE {})
           P(failed) == [c EXCEPT !.loaded = L(failed), !.overlooked = O(failed), !.anomalies = A(failed)]
<1>1. c \in Profile /\ Len(profiles) \in DOMAIN profiles
    BY LastIndex
<1>2. Current = c
    BY DEF Current
<1>3. PICK failed \in SUBSET {"open_key", "is_dir", "is_file"} :
         /\ IF failed = {} THEN NoFault ELSE Fault
         /\ profiles' = [profiles EXCEPT ![Len(profiles)] =
               [@ EXCEPT !.loaded = L(failed), !.overlooked = O(failed),
                         !.anomalies = A(failed)]]
         /\ pc' = IF DirExists(c.path, failed) /\ NtUserExists(c.path, failed) /\ ~ L(failed)
                    THEN "count" ELSE "size"
    BY <1>2, ZenonT(60) DEF Probe
<1>4. profiles' = [profiles EXCEPT ![Len(profiles)] = P(failed)]
    BY <1>3, Zenon
<1>5. L(failed) \in BOOLEAN /\ O(failed) \in BOOLEAN
    OBVIOUS
<1>6. A(failed) \in SUBSET Anomaly
    BY <1>1 DEF Profile, Anomaly
<1>7. O(failed) <=> "is_dir" \in failed \/ "is_file" \in failed
    OBVIOUS
<1>8. PICK l, o, a : l = L(failed) /\ o = O(failed) /\ a = A(failed)
    OBVIOUS
<1>9. PICK p : p = [c EXCEPT !.loaded = l, !.overlooked = o, !.anomalies = a]
    OBVIOUS
<1>10. p = P(failed)
    BY <1>8, <1>9
<1>11. /\ p \in Profile /\ p.name = c.name /\ p.path = c.path
       /\ p.loaded = l /\ p.overlooked = o /\ p.anomalies = a
  <2>1. l \in BOOLEAN /\ o \in BOOLEAN /\ a \in SUBSET Anomaly
      BY <1>5, <1>6, <1>8
  <2> HIDE DEF L, O, A, P
  <2> QED BY <1>1, <1>9, <2>1 DEF Profile
<1>12. IF failed = {} THEN quiet' = quiet ELSE quiet' = FALSE
    BY <1>3 DEF NoFault, Fault
<1>13. /\ p.loaded <=> "open_key" \notin failed /\ IsLoaded(c.name)
       /\ p.overlooked <=> "is_dir" \in failed \/ "is_file" \in failed
    BY <1>7, <1>8, <1>11
<1>14. p.anomalies = A(failed) /\ profiles' = [profiles EXCEPT ![Len(profiles)] = p]
    BY <1>4, <1>8, <1>10, <1>11
<1>15. pc' = IF DirExists(c.path, failed) /\ NtUserExists(c.path, failed) /\ ~ p.loaded
               THEN "count" ELSE "size"
    BY <1>3, <1>13
<1> QED BY <1>11, <1>12, <1>13, <1>14, <1>15 DEF ProbedRow

LEMMA ProbeInv == ASSUME ScanInv, Probe PROVE ScanInv'
<1>1. pc = "probe" /\ UNCHANGED <<registry, content, lockers, locked, pending, shown, selected>>
    BY DEF Probe, world, window
<1>2. profiles \in Seq(Profile) /\ profiles # << >>
    BY <1>1 DEF ScanInv, Types, RowsInv, Inspecting
<1>3. PICK c : c = profiles[Len(profiles)]
    OBVIOUS
<1>0. PICK failed \in SUBSET {"open_key", "is_dir", "is_file"}, p \in Profile : ProbedRow(c, failed, p)
    BY <1>2, <1>3, ProbeMeaning
<1>4. /\ profiles' = [profiles EXCEPT ![Len(profiles)] = p] /\ p.path = c.path
      /\ p.overlooked <=> "is_dir" \in failed \/ "is_file" \in failed
      /\ pc' = IF DirExists(c.path, failed) /\ NtUserExists(c.path, failed) /\ ~ p.loaded
                 THEN "count" ELSE "size"
    BY <1>0 DEF ProbedRow
<1>5. Hive(content, p.path) => At(p.path) # "missing" /\ HasHive(p.path)
    BY HiveMeaning DEF Hive, At
<1>6. pc' = "count" => Hive(content, p.path)
    BY <1>4, HiveMeaning DEF NtUserExists
<1>7. pc' # "count" => Safe(content, locked, p)
    BY <1>4, <1>5 DEF Safe, DirExists, NtUserExists
<1>8. pc' \in {"count", "size"}
    BY <1>4
<1> QED BY <1>1, <1>3, <1>4, <1>6, <1>7, <1>8, LastInv DEF Inspecting

\* A step that leaves the profile as it is, having seen nobody with its hive open.
LEMMA SeenInv ==
    ASSUME ScanInv, pc \in {"count", "list"}, pc' \in {"list", "size"},
           UNCHANGED <<registry, content, lockers, profiles, locked, pending, shown, selected>>,
           pc' = "size" => lockers[profiles[Len(profiles)].path.dir] = 0
    PROVE  ScanInv'
<1>1. profiles # << >> /\ Hive(content, profiles[Len(profiles)].path)
    BY DEF ScanInv, RowsInv, Inspecting
<1>2. pc' = "size" => profiles[Len(profiles)].path.dir \notin locked
    BY DEF ScanInv
<1>3. pc' = "size" => Safe(content, locked, profiles[Len(profiles)])
    BY <1>2 DEF Safe
<1>4. \A i \in DOMAIN profiles : i # Len(profiles) => Safe(content, locked, profiles[i])
    BY DEF ScanInv, RowsInv
<1>5. RowsInv'
    BY <1>1, <1>3, <1>4 DEF RowsInv, Inspecting
<1>6. Types' /\ (\A d \in locked' : lockers'[d] > 0) /\ ResultsInv'
    BY DEF ScanInv, Types, ResultsInv
<1> QED BY <1>5, <1>6 DEF ScanInv

LEMMA CountLockersInv == ASSUME ScanInv, CountLockers PROVE ScanInv'
<1>1. /\ pc = "count" /\ pc' \in {"list", "size"}
      /\ UNCHANGED <<registry, content, lockers, profiles, locked, pending, shown, selected>>
      /\ pc' = "size" => lockers[profiles[Len(profiles)].path.dir] = 0
    BY DEF CountLockers, world, window, Current
<1> QED BY <1>1, SeenInv

\* The profile is marked with an anomaly that blocks its repair.
LEMMA BlockedInv ==
    ASSUME ScanInv, pc \in {"count", "list"}, pc' = "size",
           NEW a \in {"LockedNtUserDat", "LockInspectionFailure"}, profiles' = Marked({a}),
           UNCHANGED <<registry, content, lockers, locked, pending, shown, selected>>
    PROVE  ScanInv'
<1>1. profiles \in Seq(Profile) /\ profiles # << >>
    BY DEF ScanInv, Types, RowsInv, Inspecting
<1>2. PICK c : c = profiles[Len(profiles)]
    OBVIOUS
<1>3. c \in Profile /\ Len(profiles) \in DOMAIN profiles
    BY <1>1, <1>2, LastIndex
<1>4. PICK p : p = [c EXCEPT !.anomalies = @ \cup {a}]
    OBVIOUS
<1>5. p \in Profile /\ p.path = c.path /\ a \in p.anomalies
    BY <1>3, <1>4 DEF Profile, Anomaly
<1>6. Safe(content, locked, p)
    BY <1>5 DEF Safe, Blocked
<1>7. profiles' = [profiles EXCEPT ![Len(profiles)] = p]
    BY <1>2, <1>3, <1>4 DEF Marked
<1> QED BY <1>2, <1>5, <1>6, <1>7, LastInv DEF Inspecting

LEMMA ListLockersInv == ASSUME ScanInv, ListLockers PROVE ScanInv'
<1>1. /\ pc = "list" /\ pc' = "size"
      /\ UNCHANGED <<registry, content, lockers, locked, pending, shown, selected>>
      /\ profiles' = IF lockers[profiles[Len(profiles)].path.dir] > 0
                       THEN Marked({"LockedNtUserDat"}) ELSE profiles
    BY DEF ListLockers, world, window, Current
<1>2. CASE lockers[profiles[Len(profiles)].path.dir] > 0
    BY <1>1, <1>2, BlockedInv
<1>3. CASE ~ (lockers[profiles[Len(profiles)].path.dir] > 0)
  <2>1. profiles \in Seq(Profile) /\ profiles # << >> /\ Hive(content, profiles[Len(profiles)].path)
      BY <1>1 DEF ScanInv, Types, RowsInv, Inspecting
  <2>2. profiles[Len(profiles)] \in Profile
      BY <2>1, LastIndex
  <2>3. profiles[Len(profiles)].path.dir \in Dir
      BY <2>1, <2>2 DEF Profile, Path, Hive
  <2>4. lockers[profiles[Len(profiles)].path.dir] = 0
      BY <1>3, <2>3, ScannerConstants DEF ScanInv, Types
  <2> QED BY <1>1, <1>3, <2>4, SeenInv
<1> QED BY <1>2, <1>3

LEMMA InspectionFailsInv == ASSUME ScanInv, InspectionFails PROVE ScanInv'
<1>1. /\ pc \in {"count", "list"} /\ pc' = "size"
      /\ UNCHANGED <<registry, content, lockers, locked, pending, shown, selected>>
      /\ profiles' = Marked({"LockInspectionFailure"})
    BY DEF InspectionFails, world, window, InspectionFailure
<1> QED BY <1>1, BlockedInv

LEMMA MeasureInv == ASSUME ScanInv, Measure PROVE ScanInv'
<1>1. /\ pc = "size" /\ pc' = "key"
      /\ UNCHANGED <<registry, content, lockers, locked, pending, shown, selected>>
    BY DEF Measure, world, window
<1>2. profiles \in Seq(Profile) /\ profiles # << >>
    BY <1>1 DEF ScanInv, Types, RowsInv, Inspecting
<1>3. PICK c : c = profiles[Len(profiles)]
    OBVIOUS
<1>4. c \in Profile /\ Len(profiles) \in DOMAIN profiles
    BY <1>2, <1>3, LastIndex
<1>5. PICK f \in {{}, {"FilesystemScanFailure"}} :
         profiles' = [profiles EXCEPT ![Len(profiles)] =
            [@ EXCEPT !.anomalies = Current.anomalies \cup f,
                      !.health = HealthOf(Current.name, Current.anomalies \cup f)]]
    BY DEF Measure
<1>6. PICK p : p = [c EXCEPT !.anomalies = c.anomalies \cup f, !.health = HealthOf(c.name, c.anomalies \cup f)]
    OBVIOUS
<1>7. HealthOf(c.name, c.anomalies \cup f) \in Health
    BY DEF HealthOf, Health
<1>8. /\ p \in Profile /\ p.path = c.path /\ p.loaded = c.loaded /\ p.overlooked = c.overlooked
      /\ c.anomalies \subseteq p.anomalies
    BY <1>4, <1>6, <1>7 DEF Profile, Anomaly
<1>9. Safe(content, locked, c)
    BY <1>1, <1>3, <1>4 DEF ScanInv, RowsInv, Inspecting
<1>10. Safe(content, locked, p)
    BY <1>8, <1>9, SafeMore
<1>11. profiles' = [profiles EXCEPT ![Len(profiles)] = p]
    BY <1>3, <1>4, <1>5, <1>6 DEF Current
<1> QED BY <1>1, <1>3, <1>8, <1>10, <1>11, LastInv

LEMMA MarkCollisionsInv == ASSUME ScanInv, MarkCollisions PROVE ScanInv'
<1>1. /\ pc = "key" /\ pc' \in {"audit", "refresh"}
      /\ UNCHANGED <<registry, content, lockers, locked, pending, shown, selected>>
    BY Zenon DEF MarkCollisions, world, window
<1>2. profiles \in Seq(Profile) /\ DOMAIN profiles = 1 .. Len(profiles) /\ Len(profiles) \in Nat
    BY LenProperties DEF ScanInv, Types
<1> DEFINE R(i) == LET anomalies == profiles[i].anomalies \cup {"PathCollision"} IN
                   [profiles[i] EXCEPT !.anomalies = anomalies,
                                       !.health = HealthOf(profiles[i].name, anomalies)]
           Row(i) == IF Collides(i) THEN R(i) ELSE profiles[i]
<1>3. ASSUME NEW i \in DOMAIN profiles PROVE Row(i) \in Profile /\ Safe(content, locked, Row(i))
  <2>1. PICK p, a : p = profiles[i] /\ a = p.anomalies \cup {"PathCollision"}
      OBVIOUS
  <2>2. p \in Profile /\ Safe(content, locked, p)
      BY <1>1, <1>2, <2>1, Element DEF ScanInv, RowsInv, Inspecting
  <2>3. HealthOf(p.name, a) \in Health
      BY DEF HealthOf, Health
  <2>4. a \in SUBSET Anomaly
      BY <2>1, <2>2 DEF Profile, Anomaly
  <2>5. PICK q : q = [p EXCEPT !.anomalies = a, !.health = HealthOf(p.name, a)]
      OBVIOUS
  <2>6. /\ q \in Profile /\ q.path = p.path /\ q.loaded = p.loaded /\ q.overlooked = p.overlooked
        /\ p.anomalies \subseteq q.anomalies
      BY <2>1, <2>2, <2>3, <2>4, <2>5 DEF Profile
  <2>7. Safe(content, locked, q)
      BY <2>2, <2>6, SafeMore
  <2>8. R(i) = q
      BY <2>1, <2>5
  <2> HIDE DEF R
  <2> QED BY <2>1, <2>2, <2>6, <2>7, <2>8
<1>4. profiles' = [i \in DOMAIN profiles |-> Row(i)]
    BY Zenon DEF MarkCollisions
<1> HIDE DEF Row
<1>5. profiles' \in Seq(Profile) /\ DOMAIN profiles' = DOMAIN profiles
    BY <1>2, <1>3, <1>4, IsASeq
<1>6. \A i \in DOMAIN profiles' : Safe(content', locked', profiles'[i])
    BY <1>1, <1>3, <1>4
<1>7. RowsInv'
    BY <1>1, <1>6 DEF RowsInv, Inspecting
<1>8. Types' /\ (\A d \in locked' : lockers'[d] > 0) /\ ResultsInv'
    BY <1>1, <1>5 DEF ScanInv, Types, ResultsInv
<1> QED BY <1>7, <1>8 DEF ScanInv
-----------------------------------------------------------------------------
(* The report. *)

\* A result is queued.
LEMMA QueueInv ==
    ASSUME ScanInv, NEW result, Good(content, result), Queue(result),
           UNCHANGED <<registry, content, lockers, shown, selected>>
    PROVE  ScanInv'
<1>1. pending' = result /\ pc' = "idle" /\ profiles' = << >> /\ locked' = {}
    BY DEF Queue
<1>2. profiles' \in Seq(Profile) /\ DOMAIN profiles' = {}
    BY <1>1, EmptySeq
<1>3. Types' /\ \A d \in locked' : lockers'[d] > 0
    BY <1>1, <1>2 DEF ScanInv, Types
<1>4. RowsInv'
    BY <1>1, <1>2 DEF RowsInv, Inspecting
<1>5. ResultsInv'
    BY <1>1 DEF ScanInv, ResultsInv
<1> QED BY <1>3, <1>4, <1>5 DEF ScanInv

LEMMA AuditInv == ASSUME ScanInv, PurposeInv, Audit PROVE ScanInv'
<1>1. PICK r : r = [purpose |-> purpose, report |-> profiles, locked |-> locked, events |-> events']
    OBVIOUS
<1>2. /\ pc = "audit" /\ Queue(r) /\ events' = events \cup {ScanAuditStatus(profiles)}
      /\ UNCHANGED <<registry, content, lockers, shown, selected>>
    BY <1>1 DEF Audit, world, window
<1>3. Status(profiles) \in r.events
    BY <1>1, <1>2, AuditStatus DEF ScanInv, Types
<1>4. \A i \in DOMAIN profiles : Safe(content, locked, profiles[i])
    BY <1>2 DEF ScanInv, RowsInv, Inspecting
<1>5. r.report = profiles /\ r.locked = locked /\ r.purpose = "scan"
    BY <1>1, <1>2 DEF PurposeInv
<1>6. Good(content, r)
    BY <1>3, <1>4, <1>5 DEF Good
<1> QED BY <1>2, <1>6, QueueInv

\* A result without a report is queued.
LEMMA NoReportInv ==
    ASSUME ScanInv, NEW logged, UNCHANGED <<registry, content, lockers, shown, selected>>,
           Queue([purpose |-> purpose, report |-> None, locked |-> {}, events |-> logged])
    PROVE  ScanInv'
<1>1. PICK r : r = [purpose |-> purpose, report |-> None, locked |-> {}, events |-> logged]
    OBVIOUS
<1>2. Good(content, r)
    BY <1>1 DEF Good
<1> QED BY <1>1, <1>2, QueueInv

LEMMA AuditErrorInv == ASSUME ScanInv, AuditError PROVE ScanInv'
<1>1. /\ Queue([purpose |-> purpose, report |-> None, locked |-> {}, events |-> events'])
      /\ UNCHANGED <<registry, content, lockers, shown, selected>>
    BY DEF AuditError, world, window
<1> QED BY <1>1, NoReportInv

\* After a repair the report is shown with the repair's event alone.
LEMMA RefreshInv == ASSUME ScanInv, PurposeInv, Refresh PROVE ScanInv'
<1>1. UNCHANGED <<registry, content, lockers, shown, selected>> /\ pc \in {"refresh", "not_refreshed"}
    BY DEF Refresh, world, window
<1>2. CASE pc = "refresh"
  <2>1. PICK r : r = [purpose |-> purpose, report |-> profiles, locked |-> locked, events |-> events]
      OBVIOUS
  <2>2. Queue(r)
      BY <1>2, <2>1 DEF Refresh
  <2>3. \A i \in DOMAIN profiles : Safe(content, locked, profiles[i])
      BY <1>2 DEF ScanInv, RowsInv, Inspecting
  <2>4. r.report = profiles /\ r.locked = locked /\ r.purpose = "repair" /\ r.events = {"RepairSuccess"}
      BY <1>2, <2>1 DEF PurposeInv
  <2>5. Good(content, r)
      BY <2>3, <2>4 DEF Good
  <2> QED BY <1>1, <2>2, <2>5, QueueInv
<1>3. CASE pc = "not_refreshed"
    BY <1>1, <1>3, NoReportInv DEF Refresh
<1> QED BY <1>1, <1>2, <1>3

LEMMA ScanStepInv == ASSUME ScanInv, PurposeInv, Scan PROVE ScanInv'
<1>1. ASSUME Enumerate \/ Enumerated \/ ScanFails \/ SkipSystem \/ AuditFails PROVE ScanInv'
  <2>1. /\ UNCHANGED <<registry, content, lockers, profiles, locked, pending, shown, selected>>
        /\ pc \notin Inspecting
        /\ pc' \in {"key", "audit_error", "not_refreshed"} \/ (pc = "enum" /\ pc' = "enum")
      BY <1>1 DEF Enumerate, Enumerated, ScanFails, SkipSystem, AuditFails, world, window, Inspecting
  <2> QED BY <2>1, MoveInv
<1> QED BY <1>1, ReadKeyInv, ProbeInv, CountLockersInv, ListLockersInv, InspectionFailsInv, MeasureInv,
           MarkCollisionsInv, AuditInv, AuditErrorInv, RefreshInv DEF Scan
-----------------------------------------------------------------------------
(* The main window and Windows. *)

LEMMA ApplyResultInv == ASSUME ScanInv, ApplyResult PROVE ScanInv'
<1>1. /\ pending # None /\ pending' = None
      /\ UNCHANGED <<registry, content, lockers, pc, profiles, locked>>
    BY DEF ApplyResult, world
<1>2. Types' /\ (\A d \in locked' : lockers'[d] > 0) /\ RowsInv'
    BY <1>1 DEF ScanInv, Types, RowsInv
<1>3. CASE pending.report = None
  <2>1. shown' = shown /\ selected' = selected
      BY <1>3 DEF ApplyResult, window
  <2>2. ResultsInv'
      BY <1>1, <2>1 DEF ScanInv, ResultsInv
  <2> QED BY <1>2, <2>2 DEF ScanInv
<1>4. CASE pending.report # None
  <2>1. shown' = pending /\ selected' = NoSelection
      BY <1>4 DEF ApplyResult, AfterReport
  <2>2. ResultsInv'
      BY <1>1, <1>4, <2>1 DEF ScanInv, ResultsInv
  <2> QED BY <1>2, <2>2 DEF ScanInv
<1> QED BY <1>3, <1>4

LEMMA SelectProfileInv == ASSUME ScanInv, NEW i, SelectProfile(i) PROVE ScanInv'
<1>1. /\ shown # None /\ i \in DOMAIN shown.report /\ selected' = Selection(i, shown.report[i])
      /\ UNCHANGED <<registry, content, lockers, pc, profiles, locked, pending, shown>>
    BY DEF SelectProfile, world
<1>2. Types' /\ (\A d \in locked' : lockers'[d] > 0) /\ RowsInv'
    BY <1>1 DEF ScanInv, Types, RowsInv
<1>3. ResultsInv'
    BY <1>1 DEF ScanInv, ResultsInv
<1> QED BY <1>2, <1>3 DEF ScanInv

\* Windows changes something else than the scan's own state.
LEMMA WindowsInv ==
    ASSUME ScanInv, UNCHANGED <<content, pc, profiles, pending, shown, selected>>,
           DOMAIN registry' \subseteq Name, \A name \in DOMAIN registry' : registry'[name] \in Key,
           lockers' \in [Dir -> 0 .. MaxLockers], locked' \subseteq locked,
           \A d \in locked' : lockers'[d] > 0
    PROVE  ScanInv'
<1>1. Types'
    BY DEF ScanInv, Types
<1>2. \A p : Safe(content, locked, p) => Safe(content', locked', p)
    BY SafeMonotone
<1>3. RowsInv'
    BY <1>2 DEF ScanInv, RowsInv
<1>4. ResultsInv'
    BY DEF ScanInv, ResultsInv
<1> QED BY <1>1, <1>3, <1>4 DEF ScanInv

LEMMA KeyInv ==
    ASSUME ScanInv, NEW i \in DOMAIN Names, KeyAdded(Names[i]) \/ KeyRemoved(Names[i])
    PROVE  ScanInv'
<1>1. UNCHANGED <<content, pc, profiles, pending, shown, selected, lockers, locked>>
    BY DEF KeyAdded, KeyRemoved, Change, window
<1>2. DOMAIN registry \subseteq Name /\ \A name \in DOMAIN registry : registry[name] \in Key
    BY DEF ScanInv, Types
<1>3. Names[i] \in Name /\ KeyChoices[Names[i]] \subseteq Key
    BY ScannerConstants
<1>4. DOMAIN registry' \subseteq Name /\ \A name \in DOMAIN registry' : registry'[name] \in Key
  <2>1. CASE KeyAdded(Names[i])
    <3>1. PICK key \in KeyChoices[Names[i]] :
             registry' = [n \in DOMAIN registry \cup {Names[i]} |-> IF n = Names[i] THEN key ELSE registry[n]]
        BY <2>1 DEF KeyAdded
    <3> QED BY <1>2, <1>3, <3>1
  <2>2. CASE KeyRemoved(Names[i])
    <3>1. registry' = [n \in DOMAIN registry \ {Names[i]} |-> registry[n]]
        BY <2>2 DEF KeyRemoved
    <3> QED BY <1>2, <3>1
  <2> QED BY <2>1, <2>2
<1>5. lockers' \in [Dir -> 0 .. MaxLockers] /\ \A d \in locked' : lockers'[d] > 0
    BY <1>1 DEF ScanInv, Types
<1> QED BY <1>1, <1>4, <1>5, WindowsInv

LEMMA LogonInv == ASSUME ScanInv, NEW sid \in Sid, LogonOrOff(sid) PROVE ScanInv'
<1>1. UNCHANGED <<registry, content, pc, profiles, pending, shown, selected, lockers, locked>>
    BY DEF LogonOrOff, Change, window
<1>2. /\ DOMAIN registry' \subseteq Name /\ \A name \in DOMAIN registry' : registry'[name] \in Key
      /\ lockers' \in [Dir -> 0 .. MaxLockers] /\ \A d \in locked' : lockers'[d] > 0
    BY <1>1 DEF ScanInv, Types
<1> QED BY <1>1, <1>2, WindowsInv

LEMMA LockersInv == ASSUME ScanInv, NEW d \in Dir, LockersChange(d) PROVE ScanInv'
<1>1. UNCHANGED <<registry, content, pc, profiles, pending, shown, selected>>
    BY DEF LockersChange, Change, window
<1>2. PICK n \in 0 .. MaxLockers : lockers' = [lockers EXCEPT ![d] = n]
    BY DEF LockersChange
<1>3. lockers' \in [Dir -> 0 .. MaxLockers]
    BY <1>2 DEF ScanInv, Types
<1>4. locked' \subseteq locked /\ \A e \in locked' : lockers'[e] > 0
    BY DEF LockersChange
<1>5. DOMAIN registry' \subseteq Name /\ \A name \in DOMAIN registry' : registry'[name] \in Key
    BY <1>1 DEF ScanInv, Types
<1> QED BY <1>1, <1>3, <1>4, <1>5, WindowsInv
-----------------------------------------------------------------------------

LEMMA InitInv == ASSUME Init PROVE ScanInv
<1>1. PICK m \in Start : /\ registry = m.registry /\ loaded = m.loaded
                         /\ content = m.content /\ lockers = m.lockers
    BY DEF Init
<1>2. pc = "idle" /\ profiles = << >> /\ locked = {} /\ pending = None /\ shown = None /\ selected = NoSelection
    BY DEF Init
<1>3. profiles \in Seq(Profile) /\ DOMAIN profiles = {}
    BY <1>2, EmptySeq
<1>4. DOMAIN registry \subseteq {Names[i] : i \in DOMAIN Names} /\ \A name \in DOMAIN registry : registry[name] \in KeyChoices[name]
    BY <1>1, ScannerConstants
<1>5. DOMAIN registry \subseteq Name /\ \A name \in DOMAIN registry : registry[name] \in Key
    BY <1>4, ScannerConstants
<1>6. content \in [Dir -> Content] /\ lockers \in [Dir -> 0 .. MaxLockers]
    BY <1>1, ScannerConstants
<1>7. Types
    BY <1>2, <1>3, <1>5, <1>6 DEF Types
<1>8. RowsInv /\ ResultsInv
    BY <1>2, <1>3 DEF RowsInv, Inspecting, ResultsInv
<1> QED BY <1>2, <1>7, <1>8 DEF ScanInv

LEMMA StepInv == ASSUME ScanInv, PurposeInv, [Next]_vars PROVE ScanInv'
<1>1. CASE UNCHANGED vars
  <2>1. UNCHANGED <<registry, content, lockers, pc, profiles, locked, pending, shown, selected>>
      BY <1>1 DEF vars, world, window
  <2> QED BY <2>1 DEF ScanInv, Types, RowsInv, ResultsInv
<1>2. CASE Next
    BY <1>2, BeginScanInv, BeginRescanInv, ScanStepInv, ApplyResultInv, SelectProfileInv, KeyInv, LogonInv,
       LockersInv DEF Next
<1> QED BY <1>1, <1>2

\* A scan logs its own event and a rescan none.
LEMMA PurposeInvariance == Spec => []PurposeInv
<1>1. Init => PurposeInv
    BY DEF Init, PurposeInv
<1>2. PurposeInv /\ [Next]_vars => PurposeInv'
  <2> SUFFICES ASSUME PurposeInv, [Next]_vars PROVE PurposeInv'
      OBVIOUS
  <2>1. ASSUME UNCHANGED <<purpose, pc, events>> PROVE PurposeInv'
      BY <2>1 DEF PurposeInv
  <2>2. CASE UNCHANGED vars \/ ApplyResult \/ \E i \in 1 .. Len(Names) * 2 : SelectProfile(i)
    <3>1. UNCHANGED <<purpose, pc, events>>
        BY <2>2 DEF vars, ApplyResult, SelectProfile
    <3> QED BY <2>1, <3>1
  <2>3. CASE \/ \E i \in DOMAIN Names : KeyAdded(Names[i]) \/ KeyRemoved(Names[i])
             \/ \E sid \in Sid : LogonOrOff(sid)
             \/ \E d \in Dir : LockersChange(d)
    <3>1. UNCHANGED <<purpose, pc, events>>
        BY <2>3 DEF KeyAdded, KeyRemoved, LogonOrOff, LockersChange, Change
    <3> QED BY <2>1, <3>1
  <2>4. CASE BeginScan \/ BeginRescan
      BY <2>4 DEF BeginScan, BeginRescan, Begin, PurposeInv
  <2>5. CASE Enumerate \/ Enumerated \/ SkipSystem \/ ReadKey \/ Probe \/ CountLockers \/ ListLockers
             \/ InspectionFails \/ Measure
    <3> SUFFICES /\ UNCHANGED <<purpose, events>> /\ pc # "idle"
                 /\ pc' \in {"enum", "key", "probe", "count", "list", "size"}
        BY DEF PurposeInv
    <3>1. CASE Enumerate \/ Enumerated \/ SkipSystem \/ CountLockers
        BY <3>1 DEF Enumerate, Enumerated, SkipSystem, CountLockers
    <3>2. CASE ReadKey
        BY <3>2, Zenon DEF ReadKey
    <3>3. CASE Probe
        BY <3>3, Zenon DEF Probe
    <3>4. CASE ListLockers \/ InspectionFails \/ Measure
        BY <3>4 DEF ListLockers, InspectionFails, Measure
    <3> QED BY <2>5, <3>1, <3>2, <3>3, <3>4
  <2>6. CASE ScanFails \/ MarkCollisions
    <3>1. /\ UNCHANGED <<purpose, events>> /\ pc \in {"enum", "key"}
          /\ pc' \in IF purpose = "scan" THEN {"audit", "audit_error"} ELSE {"refresh", "not_refreshed"}
        BY <2>6, Zenon DEF ScanFails, MarkCollisions
    <3> QED BY <3>1 DEF PurposeInv
  <2>7. CASE AuditFails
      BY <2>7 DEF AuditFails, PurposeInv
  <2>8. CASE Audit \/ AuditError \/ Refresh
      BY <2>8 DEF Audit, AuditError, Refresh, Queue, PurposeInv
  <2> QED BY <2>2, <2>3, <2>4, <2>5, <2>6, <2>7, <2>8 DEF Next, Scan
<1> QED BY <1>1, <1>2, PTL DEF Spec

\* ScanInv holds in every state of a scan and of the rescan after a repair, whatever Windows
\* changes and whichever calls fail, the failures that is_dir and is_file swallow included.
THEOREM Invariance == Spec => []ScanInv
<1>1. Init => ScanInv
    BY InitInv
<1>2. ScanInv /\ PurposeInv /\ [Next]_vars => ScanInv'
    BY StepInv
<1> QED BY <1>1, <1>2, PurposeInvariance, PTL DEF Spec

\* The window never shows the report of a scan whose event the journal lacks, and the event says
\* warning exactly when a row is not healthy (scan_profiles, scan_audit_status,
\* queue_scan_result).  The report after a repair is shown with the repair's event and none of
\* its own (execute_repair).
THEOREM ShownAudited == Spec => []ShownIsAudited
<1>1. ScanInv => ShownIsAudited
    BY DEF ScanInv, ResultsInv, Good, Status, ShownIsAudited
<1> QED BY <1>1, Invariance, PTL

\* A profile whose NTUSER.DAT a program had open during the whole scan is never offered for
\* repair as if it were free (inspect_locks, repair_suggestions, apply_selected_profile), unless
\* is_dir or is_file could not examine it (evaluate_profile).
THEOREM LockedHivesBlockRepair == Spec => []LockedHiveBlocksRepair
<1>1. ASSUME ScanInv, selected.row # 0, selected.path.dir \in shown.locked, HasHive(selected.path)
      PROVE  selected.loaded \/ selected.blocked \/ shown.report[selected.row].overlooked
  <2>1. selected # NoSelection
      BY <1>1 DEF NoSelection
  <2>2. PICK i \in DOMAIN shown.report : shown # None /\ selected = Selection(i, shown.report[i])
      BY <1>1, <2>1 DEF ScanInv, ResultsInv
  <2>3. PICK p : p = shown.report[i]
      OBVIOUS
  <2>4. Safe(content, shown.locked, p)
      BY <1>1, <2>2, <2>3 DEF ScanInv, ResultsInv, Good
  <2>5. /\ selected.path = p.path /\ selected.loaded = p.loaded /\ selected.blocked = Blocked(p)
        /\ shown.report[selected.row] = p
      BY <2>2, <2>3, Zenon DEF Selection
  <2>6. p.loaded \/ Blocked(p) \/ p.overlooked
      BY <1>1, <2>4, <2>5, HiveMeaning DEF Safe
  <2> QED BY <2>5, <2>6, Zenon
<1>2. ScanInv => LockedHiveBlocksRepair
    BY <1>1 DEF LockedHiveBlocksRepair
<1> QED BY <1>2, Invariance, PTL
-----------------------------------------------------------------------------
(* A quiet scan. *)

\* What is scanned.
Machine == [registry |-> registry, loaded |-> loaded, content |-> content, lockers |-> lockers]

\* The indices of the keys that are there, and how many of them come before one.
Indices(m) == {i \in DOMAIN Names : Names[i] \in DOMAIN m.registry}
Below(S, i) == {j \in S : j < i}

\* The anomalies of a name when its values were read, when its directory was looked at, when the
\* Restart Manager has answered, and when its directory was measured.
Drafted(m, name) ==
    (IF Resolves(name) THEN {} ELSE {"SidResolutionFailure"})
       \cup (IF m.registry[name].path.dir = None THEN {"RegistryReadFailure"} ELSE {})
       \cup (IF name.kind = "bak" THEN {"BakSuffix"} ELSE {})
       \cup (IF m.registry[name].temp THEN {"TempSession"} ELSE {})
       \cup (IF m.registry[name].dirty /\ ~ m.registry[name].temp THEN {"DirtyStateMask"} ELSE {})
Disk(m, path) == IF path.dir = None THEN "missing" ELSE m.content[path.dir]
Probed(m, name) ==
    Drafted(m, name) \cup IF Disk(m, m.registry[name].path) = "missing" THEN {"MissingDirectory"} ELSE {}
InUse(m, name) == name.kind # "preserved" /\ name.sid \in m.loaded
OpenElsewhere(m, name) ==
    /\ Hive(m.content, m.registry[name].path)
    /\ m.lockers[m.registry[name].path.dir] > 0
    /\ ~ InUse(m, name)
Inspected(m, name) ==
    Probed(m, name) \cup IF OpenElsewhere(m, name) THEN {"LockedNtUserDat"} ELSE {}
Evaluated(m, name) ==
    Inspected(m, name)
       \cup IF Disk(m, m.registry[name].path) = "junction" THEN {"FilesystemScanFailure"} ELSE {}
SharesPath(m, name) ==
    /\ m.registry[name].path.dir # None
    /\ \E n \in DOMAIN m.registry \ {name} :
          n.kind # "system" /\ m.registry[n].path.dir = m.registry[name].path.dir
Marks(m, name) == Evaluated(m, name) \cup IF SharesPath(m, name) THEN {"PathCollision"} ELSE {}

\* A row that stands for its key, with these anomalies.
Stands(m, r, anomalies) ==
    /\ r.path = m.registry[r.name].path
    /\ r.loaded <=> InUse(m, r.name)
    /\ r.anomalies = anomalies
Done(m, r) == Stands(m, r, Evaluated(m, r.name)) /\ r.health = HealthOf(r.name, r.anomalies)
Reported(m, r) == Stands(m, r, Marks(m, r.name)) /\ r.health = HealthOf(r.name, r.anomalies)

\* The names enumerated so far are the first ones of the keys there are.
Ranked(m, list) ==
    \A k \in 1 .. Len(list) : \E i \in Indices(m) :
        list[k] = Names[i] /\ Cardinality(Below(Indices(m), i)) + 1 = k

\* The names are the keys, each once.
Listed(m, list) ==
    /\ \A k \in 1 .. Len(list) : list[k] \in DOMAIN m.registry
    /\ \A k, l \in 1 .. Len(list) : list[k] = list[l] => k = l
    /\ \A name \in DOMAIN m.registry : \E k \in 1 .. Len(list) : list[k] = name

\* The rows stand for the first n names but the system's, each once.
RowsOf(list, n, rows) ==
    /\ \A i \in DOMAIN rows : rows[i].name.kind # "system" /\ \E k \in 1 .. n : rows[i].name = list[k]
    /\ \A k \in 1 .. n : list[k].kind # "system" => \E i \in DOMAIN rows : rows[i].name = list[k]
    /\ \A i, j \in DOMAIN rows : rows[i].name = rows[j].name => i = j

\* What the profile being evaluated has, step by step.
Stage(m, r, at, count) ==
    /\ r.path = m.registry[r.name].path
    /\ at = "probe" => r.anomalies = Drafted(m, r.name)
    /\ at \in {"count", "list"} =>
          /\ Stands(m, r, Probed(m, r.name)) /\ Hive(m.content, r.path) /\ ~ r.loaded
    /\ at = "list" => count = m.lockers[r.path.dir] /\ count > 0
    /\ at = "size" => Stands(m, r, Inspected(m, r.name))

\* What a quiet scan of m has found at a step: its place, the names and the rows.
QuietScan(m, at, place, list, rows, count) ==
    /\ at = "enum" => Len(list) = place /\ Ranked(m, list)
    /\ at \in {"key", "audit", "refresh"} \cup Inspecting \cup {"size"} => Listed(m, list)
    /\ at = "key" => /\ place \in 1 .. Len(list) + 1 /\ RowsOf(list, place - 1, rows)
                     /\ \A i \in DOMAIN rows : Done(m, rows[i])
    /\ at \in Inspecting \cup {"size"} =>
          /\ place \in 1 .. Len(list) /\ RowsOf(list, place, rows)
          /\ \A i \in DOMAIN rows : i # Len(rows) => Done(m, rows[i])
          /\ Stage(m, rows[Len(rows)], at, count)
    /\ at \in {"audit", "refresh"} => /\ RowsOf(list, Len(list), rows)
                                      /\ \A i \in DOMAIN rows : Reported(m, rows[i])

\* The names enumerated are names, and while nothing changed and no call failed the scan has
\* found what is there.
QuietInv ==
    /\ DOMAIN registry \subseteq {Names[i] : i \in DOMAIN Names}
    /\ names \in Seq(Name) /\ index \in Nat
    /\ pc = "idle" => names = << >> /\ index = 0
    /\ quiet => QuietScan(Machine, pc, index, names, profiles, needed)
-----------------------------------------------------------------------------
(* The order of the enumeration. *)

\* A set of naturals that is not empty has a least element.
LEMMA LeastNatural ==
    ASSUME NEW T, T \subseteq Nat, T # {}
    PROVE  \E x \in T : x \in Nat /\ \A y \in T : x <= y
<1>1. IsWellFoundedOn(OpToRel(<, Nat), Nat)
    BY NatLessThanWellFounded
<1>2. PICK x \in T : \A y \in T : ~ (<<y, x>> \in OpToRel(<, Nat))
    BY <1>1, WFMin
<1>3. x \in Nat /\ \A y \in T : y \in Nat
    BY <1>2
<1>4. \A y \in T : ~ (y < x)
    BY <1>2, <1>3, Zenon DEF OpToRel
<1>5. ASSUME NEW y \in T PROVE x <= y
  <2>1. ~ (y < x) /\ y \in Nat
      BY <1>3, <1>4
  <2> QED BY <1>3, <2>1
<1> QED BY <1>2, <1>3, <1>5

\* The elements up to one.
LEMMA UpToElement ==
    ASSUME NEW S, S \subseteq Nat, IsFiniteSet(S), NEW i \in S
    PROVE  /\ IsFiniteSet(Below(S, i) \cup {i}) /\ Cardinality(Below(S, i)) \in Nat
           /\ Cardinality(Below(S, i) \cup {i}) = Cardinality(Below(S, i)) + 1
<1>1. IsFiniteSet(Below(S, i))
    BY FS_Subset DEF Below
<1>2. i \notin Below(S, i)
    BY DEF Below
<1> QED BY <1>1, <1>2, FS_AddElement, FS_CardinalityType

\* Later elements have more before them, and none as many as there are.
LEMMA RankMonotone ==
    ASSUME NEW S, S \subseteq Nat, IsFiniteSet(S), NEW i \in S
    PROVE  /\ Cardinality(Below(S, i)) < Cardinality(S)
           /\ \A j \in S : i < j => Cardinality(Below(S, i)) < Cardinality(Below(S, j))
<1>1. PICK U : U = Below(S, i) \cup {i}
    OBVIOUS
<1>2. IsFiniteSet(U) /\ Cardinality(Below(S, i)) \in Nat /\ Cardinality(U) = Cardinality(Below(S, i)) + 1
    BY <1>1, UpToElement
<1>3. ASSUME NEW V, U \subseteq V, IsFiniteSet(V) PROVE Cardinality(Below(S, i)) < Cardinality(V)
  <2>1. Cardinality(U) <= Cardinality(V) /\ Cardinality(V) \in Nat
      BY <1>2, <1>3, FS_Subset, FS_CardinalityType
  <2> QED BY <1>2, <2>1
<1>4. U \subseteq S
    BY <1>1 DEF Below
<1>5. ASSUME NEW j \in S, i < j PROVE Cardinality(Below(S, i)) < Cardinality(Below(S, j))
  <2>1. U \subseteq Below(S, j)
    <3>1. ASSUME NEW k \in U PROVE k \in Below(S, j)
      <4>1. k \in S /\ k \in Nat /\ i \in Nat /\ j \in Nat /\ (k < i \/ k = i)
          BY <1>1 DEF Below
      <4>2. k < j
          BY <1>5, <4>1
      <4> QED BY <4>1, <4>2 DEF Below
    <3> QED BY <3>1
  <2>2. IsFiniteSet(Below(S, j))
      BY FS_Subset DEF Below
  <2> QED BY <1>3, <2>1, <2>2
<1> QED BY <1>3, <1>4, <1>5

\* Two elements have the same number of elements before them only when they are one.
LEMMA RankUnique ==
    ASSUME NEW S, S \subseteq Nat, IsFiniteSet(S), NEW i \in S, NEW j \in S,
           Cardinality(Below(S, i)) = Cardinality(Below(S, j))
    PROVE  i = j
<1>1. Cardinality(Below(S, i)) \in Nat /\ i \in Nat /\ j \in Nat
    BY UpToElement
<1>2. PICK a, b : a = Cardinality(Below(S, i)) /\ b = Cardinality(Below(S, j))
    OBVIOUS
<1>3. (i < j => a < b) /\ (j < i => b < a) /\ a = b /\ a \in Nat
    BY <1>1, <1>2, RankMonotone
<1> QED BY <1>1, <1>3

\* Every place of a finite set of naturals has its element.
LEMMA RankExists ==
    ASSUME NEW S, S \subseteq Nat, IsFiniteSet(S), NEW n \in Nat, n < Cardinality(S)
    PROVE  \E i \in S : Cardinality(Below(S, i)) = n
<1> DEFINE T == {k \in Nat : k < Cardinality(S) /\ ~ \E i \in S : Cardinality(Below(S, i)) = k}
<1> SUFFICES ASSUME n \in T PROVE FALSE
    OBVIOUS
<1>1. PICK x \in T : x \in Nat /\ \A y \in T : x <= y
    BY LeastNatural
<1>2. x < Cardinality(S) /\ ~ \E i \in S : Cardinality(Below(S, i)) = x
    BY <1>1
<1>3. Cardinality(S) \in Nat
    BY FS_CardinalityType
<1>4. CASE x = 0
  <2>1. S # {}
      BY <1>2, <1>4, FS_EmptySet
  <2>2. PICK y \in S : y \in Nat /\ \A z \in S : y <= z
      BY <2>1, LeastNatural
  <2>3. Below(S, y) = {}
    <3> SUFFICES ASSUME NEW z \in Below(S, y) PROVE FALSE
        OBVIOUS
    <3>1. z \in S /\ z < y /\ z \in Nat
        BY DEF Below
    <3> QED BY <2>2, <3>1
  <2> QED BY <1>2, <1>4, <2>2, <2>3, FS_EmptySet
<1>5. CASE x # 0
  <2>1. x - 1 \in Nat /\ ~ (x <= x - 1) /\ x - 1 < Cardinality(S)
      BY <1>1, <1>2, <1>3, <1>5
  <2>2. x - 1 \notin T
      BY <1>1, <2>1
  <2>3. PICK i \in S : Cardinality(Below(S, i)) = x - 1
      BY <2>1, <2>2
  <2>4. PICK U : U = Below(S, i) \cup {i}
      OBVIOUS
  <2>5. Cardinality(U) = x /\ U \subseteq S
    <3>1. Cardinality(U) = Cardinality(Below(S, i)) + 1
        BY <2>4, UpToElement
    <3>2. U \subseteq S
        BY <2>4 DEF Below
    <3> QED BY <1>1, <2>3, <3>1, <3>2
  <2>6. S \ U # {} /\ S \ U \subseteq Nat
    <3>1. U # S
        BY <1>2, <1>3, <2>5
    <3> QED BY <2>5, <3>1
  <2>7. PICK y \in S \ U : y \in Nat /\ \A z \in S \ U : y <= z
      BY <2>6, LeastNatural
  <2>8. Below(S, y) = U
    <3>1. ASSUME NEW j \in Below(S, y) PROVE j \in U
      <4>1. j \in S /\ j < y /\ j \in Nat
          BY DEF Below
      <4> QED BY <2>7, <4>1
    <3>2. ASSUME NEW j \in U PROVE j \in Below(S, y)
      <4>1. j \in S /\ j \in Nat /\ i \in Nat /\ j <= i
          BY <2>4 DEF Below
      <4>2. y # i /\ ~ (y < i)
          BY <2>4, <2>7 DEF Below
      <4>3. j < y
          BY <2>7, <4>1, <4>2
      <4> QED BY <4>1, <4>3 DEF Below
    <3> QED BY <3>1, <3>2
  <2> QED BY <1>2, <2>5, <2>7, <2>8
<1> QED BY <1>4, <1>5

\* The keys that are there.
LEMMA IndicesFinite ==
    ASSUME NEW m
    PROVE  Indices(m) \subseteq Nat /\ IsFiniteSet(Indices(m)) /\ Indices(m) \subseteq DOMAIN Names
<1>1. DOMAIN Names = 1 .. Len(Names) /\ Len(Names) \in Nat
    BY ScannerConstants, LenProperties
<1>2. IsFiniteSet(DOMAIN Names)
    BY <1>1, FS_Interval
<1> QED BY <1>1, <1>2, FS_Subset DEF Indices

\* RegEnumKeyExW's name at an index.
LEMMA NameAtMeaning ==
    ASSUME NEW n \in Nat, n < Cardinality(Present)
    PROVE  /\ \E i \in Indices(Machine) :
                 NameAt(n) = Names[i] /\ Cardinality(Below(Indices(Machine), i)) = n
           /\ NameAt(n) \in Name
<1>1. PICK S : S = Indices(Machine)
    OBVIOUS
<1>2. Present = S
    BY <1>1 DEF Present, Indices, Machine
<1>3. S \subseteq Nat /\ IsFiniteSet(S) /\ S \subseteq DOMAIN Names
    BY <1>1, IndicesFinite
<1>4. \E i \in S : Cardinality(Below(S, i)) = n
    BY <1>2, <1>3, RankExists
<1> DEFINE c == CHOOSE i \in S : Cardinality({j \in S : j < i}) = n
<1>5. c \in S /\ Cardinality({j \in S : j < c}) = n
    BY <1>4 DEF Below
<1>6. NameAt(n) = Names[c]
    BY <1>2 DEF NameAt
<1> HIDE DEF c
<1>7. Names[c] \in Name
    BY <1>3, <1>5, ScannerConstants, Element
<1> QED BY <1>1, <1>5, <1>6, <1>7 DEF Below

\* The name at each place, and as many names as there are keys: the names are the keys.
LEMMA RankedListed ==
    ASSUME NEW m, DOMAIN m.registry \subseteq {Names[i] : i \in DOMAIN Names},
           NEW list, Len(list) \in Nat, Ranked(m, list), Cardinality(Indices(m)) <= Len(list)
    PROVE  Listed(m, list)
<1>1. PICK S : S = Indices(m)
    OBVIOUS
<1>2. S \subseteq Nat /\ IsFiniteSet(S) /\ S \subseteq DOMAIN Names /\ Cardinality(S) \in Nat
    BY <1>1, IndicesFinite, FS_CardinalityType
<1>3. \A k \in 1 .. Len(list) : \E i \in S : list[k] = Names[i] /\ Cardinality(Below(S, i)) + 1 = k
    BY <1>1 DEF Ranked
<1>4. \A i \in S : Cardinality(Below(S, i)) \in Nat /\ Names[i] \in DOMAIN m.registry
  <2>1. \A i \in S : Names[i] \in DOMAIN m.registry
      BY <1>1 DEF Indices
  <2> QED BY <1>2, <2>1, UpToElement
<1>5. ASSUME NEW k \in 1 .. Len(list) PROVE list[k] \in DOMAIN m.registry
    BY <1>3, <1>4
<1>6. ASSUME NEW k \in 1 .. Len(list), NEW l \in 1 .. Len(list), list[k] = list[l] PROVE k = l
  <2>1. PICK i \in S : list[k] = Names[i] /\ Cardinality(Below(S, i)) + 1 = k
      BY <1>3
  <2>2. PICK j \in S : list[l] = Names[j] /\ Cardinality(Below(S, j)) + 1 = l
      BY <1>3
  <2>3. i = j
      BY <1>2, <1>6, <2>1, <2>2, ScannerConstants
  <2> QED BY <2>1, <2>2, <2>3
<1>7. ASSUME NEW name \in DOMAIN m.registry PROVE \E k \in 1 .. Len(list) : list[k] = name
  <2>1. PICK i \in S : name = Names[i]
      BY <1>1 DEF Indices
  <2>2. PICK k : k = Cardinality(Below(S, i)) + 1
      OBVIOUS
  <2>3. k \in 1 .. Len(list)
    <3>1. Cardinality(Below(S, i)) < Cardinality(S)
        BY <1>2, RankMonotone
    <3> QED BY <1>1, <1>2, <1>4, <2>2, <3>1
  <2>4. PICK j \in S : list[k] = Names[j] /\ Cardinality(Below(S, j)) + 1 = k
      BY <1>3, <2>3
  <2>5. Cardinality(Below(S, i)) = Cardinality(Below(S, j))
      BY <1>4, <2>2, <2>4
  <2>6. i = j
      BY <1>2, <2>5, RankUnique
  <2> QED BY <2>1, <2>3, <2>4, <2>6
<1> QED BY <1>5, <1>6, <1>7 DEF Listed

-----------------------------------------------------------------------------
(* The steps of a quiet scan. *)

\* A step of the scan: Windows stands still.
LEMMA QuietStep ==
    ASSUME QuietInv, UNCHANGED world, names' \in Seq(Name), index' \in Nat,
           pc' = "idle" => names' = << >> /\ index' = 0,
           quiet' => QuietScan(Machine, pc', index', names', profiles', needed')
    PROVE  QuietInv'
<1>1. PICK m : m = Machine
    OBVIOUS
<1>2. Machine' = m
    BY <1>1 DEF Machine, world
<1>3. registry' = registry
    BY DEF world
<1> QED BY <1>1, <1>2, <1>3 DEF QuietInv

\* A step of Windows, or a call that fails.
LEMMA QuietEnds ==
    ASSUME QuietInv, ~ quiet', DOMAIN registry' \subseteq {Names[i] : i \in DOMAIN Names},
           UNCHANGED <<names, index, pc>>
    PROVE  QuietInv'
BY DEF QuietInv

\* After a failure, or with its result queued, a scan has nothing more to find.
LEMMA NothingToFind ==
    ASSUME NEW m, NEW at \in {"audit_error", "not_refreshed", "idle"}, NEW place, NEW list, NEW rows, NEW count
    PROVE  QuietScan(m, at, place, list, rows, count)
BY DEF QuietScan, Inspecting

LEMMA QuietEnumerate == ASSUME QuietInv, Enumerate PROVE QuietInv'
<1>1. /\ pc = "enum" /\ pc' = "enum" /\ index < Cardinality(Present) /\ quiet' = quiet
      /\ names' = Append(names, NameAt(index)) /\ index' = index + 1
      /\ UNCHANGED world
    BY DEF Enumerate
<1>2. names \in Seq(Name) /\ index \in Nat
    BY DEF QuietInv
<1>3. PICK m, x : m = Machine /\ x = NameAt(index)
    OBVIOUS
<1>4. x \in Name /\ \E i \in Indices(m) : x = Names[i] /\ Cardinality(Below(Indices(m), i)) = index
    BY <1>1, <1>2, <1>3, NameAtMeaning
<1>5. /\ names' \in Seq(Name) /\ Len(names') = Len(names) + 1 /\ Len(names) \in Nat
      /\ \A k \in 1 .. Len(names) : names'[k] = names[k]
      /\ names'[Len(names) + 1] = x
    BY <1>1, <1>2, <1>3, <1>4, AppendProperties, LenProperties
<1>6. quiet => Len(names') = index' /\ Ranked(m, names')
  <2> SUFFICES ASSUME quiet PROVE Len(names') = index' /\ Ranked(m, names')
      OBVIOUS
  <2>1. Len(names) = index /\ Ranked(m, names)
      BY <1>1, <1>3 DEF QuietInv, QuietScan
  <2>2. ASSUME NEW k \in 1 .. Len(names')
        PROVE  \E i \in Indices(m) : names'[k] = Names[i] /\ Cardinality(Below(Indices(m), i)) + 1 = k
    <3>1. CASE k \in 1 .. Len(names)
        BY <1>5, <2>1, <3>1 DEF Ranked
    <3>2. CASE k = Len(names) + 1
        BY <1>4, <1>5, <2>1, <3>2
    <3> QED BY <1>5, <3>1, <3>2
  <2> QED BY <1>1, <1>5, <2>1, <2>2 DEF Ranked
<1>7. quiet' => QuietScan(m, pc', index', names', profiles', needed')
    BY <1>1, <1>6 DEF QuietScan, Inspecting
<1>8. index' \in Nat
    BY <1>1, <1>2
<1> QED BY <1>1, <1>3, <1>5, <1>7, <1>8, QuietStep

LEMMA QuietEnumerated == ASSUME ScanInv, QuietInv, Enumerated PROVE QuietInv'
<1>1. /\ pc = "enum" /\ pc' = "key" /\ index >= Cardinality(Present) /\ quiet' = quiet
      /\ names' = names /\ profiles' = profiles /\ index' = 1 /\ UNCHANGED world
    BY DEF Enumerated
<1>2. names \in Seq(Name) /\ index \in Nat /\ Len(names) \in Nat
    BY LenProperties DEF QuietInv
<1>3. PICK m : m = Machine
    OBVIOUS
<1>4. profiles = << >> /\ DOMAIN profiles = {}
    BY <1>1, EmptySeq DEF ScanInv, RowsInv
<1>5. Present = Indices(m) /\ DOMAIN m.registry \subseteq {Names[i] : i \in DOMAIN Names}
    BY <1>3 DEF Present, Indices, Machine, QuietInv
<1>6. Cardinality(Indices(m)) \in Nat
    BY IndicesFinite, FS_CardinalityType
<1>7. quiet => Listed(m, names)
  <2> SUFFICES ASSUME quiet PROVE Listed(m, names)
      OBVIOUS
  <2>1. Len(names) = index /\ Ranked(m, names)
      BY <1>1, <1>3 DEF QuietInv, QuietScan
  <2>2. Cardinality(Indices(m)) <= Len(names)
      BY <1>1, <1>2, <1>5, <1>6, <2>1
  <2> QED BY <1>2, <1>5, <2>1, <2>2, RankedListed
<1>8. RowsOf(names', index' - 1, profiles')
    BY <1>1, <1>4 DEF RowsOf
<1>9. index' \in 1 .. Len(names') + 1
    BY <1>1, <1>2
<1>10. quiet' => QuietScan(m, pc', index', names', profiles', needed')
    BY <1>1, <1>4, <1>7, <1>8, <1>9 DEF QuietScan, Inspecting
<1> QED BY <1>1, <1>2, <1>3, <1>10, QuietStep

\* A system key has no row.
LEMMA QuietSkip == ASSUME QuietInv, SkipSystem PROVE QuietInv'
<1>1. /\ pc = "key" /\ pc' = "key" /\ index <= Len(names) /\ names[index].kind = "system"
      /\ index' = index + 1 /\ UNCHANGED <<world, names, profiles, quiet>>
    BY DEF SkipSystem, NextKey
<1>2. names \in Seq(Name) /\ index \in Nat /\ Len(names) \in Nat
    BY LenProperties DEF QuietInv
<1>3. PICK m : m = Machine
    OBVIOUS
<1>4. ASSUME quiet PROVE QuietScan(m, pc', index', names', profiles', needed')
  <2>1. /\ Listed(m, names) /\ index \in 1 .. Len(names) + 1 /\ RowsOf(names, index - 1, profiles)
        /\ \A i \in DOMAIN profiles : Done(m, profiles[i])
      BY <1>1, <1>3, <1>4 DEF QuietInv, QuietScan
  <2>2. PICK n : n = index - 1
      OBVIOUS
  <2>3. n \in Nat /\ index = n + 1 /\ index' \in 1 .. Len(names) + 1 /\ index' - 1 = index
      BY <1>1, <1>2, <2>1, <2>2
  <2>4. \A k \in 1 .. n : k \in 1 .. index
      BY <2>3
  <2>5. \A k \in 1 .. index : k \in 1 .. n \/ k = index
      BY <2>3
  <2>6. RowsOf(names, index, profiles)
      BY <1>1, <2>1, <2>2, <2>4, <2>5 DEF RowsOf
  <2> QED BY <1>1, <2>1, <2>3, <2>6 DEF QuietScan, Inspecting
<1> QED BY <1>1, <1>2, <1>3, <1>4, QuietStep

\* A key's values are read: its row is added.
LEMMA QuietReadKey == ASSUME ScanInv, QuietInv, ReadKey PROVE QuietInv'
<1>1. /\ pc = "key" /\ pc' = "probe" /\ index <= Len(names)
      /\ names[index].kind # "system" /\ names[index] \in DOMAIN registry
      /\ UNCHANGED <<world, index, names, needed>>
    BY DEF ReadKey
<1>2. names \in Seq(Name) /\ index \in Nat /\ Len(names) \in Nat /\ profiles \in Seq(Profile)
    BY LenProperties DEF QuietInv, ScanInv, Types
<1>3. PICK m, name : m = Machine /\ name = names[index]
    OBVIOUS
<1>4. m.registry = registry
    BY <1>3 DEF Machine
<1>5. ASSUME quiet' PROVE QuietScan(m, pc', index', names', profiles', needed')
  <2>1. quiet
      BY <1>5 DEF ReadKey, Fault, NoFault
  <2>2. /\ Listed(m, names) /\ index \in 1 .. Len(names) + 1 /\ RowsOf(names, index - 1, profiles)
        /\ \A i \in DOMAIN profiles : Done(m, profiles[i])
      BY <1>1, <1>3, <2>1 DEF QuietInv, QuietScan
  <2>3. PICK r : r = [name |-> name, path |-> registry[name].path, loaded |-> FALSE, health |-> "Healthy",
                      overlooked |-> FALSE, anomalies |-> Drafted(m, name)]
      OBVIOUS
  <2>4. profiles' = Append(profiles, r)
    <3>1. PICK key : key = registry[names[index]]
        OBVIOUS
    <3>2. profiles' = Append(profiles,
               [name |-> names[index], path |-> key.path, loaded |-> FALSE, health |-> "Healthy",
                overlooked |-> FALSE,
                anomalies |-> {}
                   \cup (IF Resolves(names[index]) THEN {} ELSE {"SidResolutionFailure"})
                   \cup (IF key.path.dir = None THEN {"RegistryReadFailure"} ELSE {})
                   \cup (IF names[index].kind = "bak" THEN {"BakSuffix"} ELSE {})
                   \cup (IF key.temp THEN {"TempSession"} ELSE {})
                   \cup (IF key.dirty /\ ~ key.temp THEN {"DirtyStateMask"} ELSE {})])
        BY <1>5, <3>1 DEF ReadKey, Fault
    <3>3. Drafted(m, name) = {}
                   \cup (IF Resolves(names[index]) THEN {} ELSE {"SidResolutionFailure"})
                   \cup (IF key.path.dir = None THEN {"RegistryReadFailure"} ELSE {})
                   \cup (IF names[index].kind = "bak" THEN {"BakSuffix"} ELSE {})
                   \cup (IF key.temp THEN {"TempSession"} ELSE {})
                   \cup (IF key.dirty /\ ~ key.temp THEN {"DirtyStateMask"} ELSE {})
        BY <1>3, <1>4, <3>1 DEF Drafted
    <3> QED BY <1>3, <2>3, <3>1, <3>2, <3>3
  <2>5. r.name = name /\ r.path = m.registry[name].path /\ r.anomalies = Drafted(m, name)
      BY <1>4, <2>3
  <2>6. r \in Profile
    <3>1. registry[name] \in Key /\ name \in Name
        BY <1>1, <1>3 DEF ScanInv, Types
    <3>2. Drafted(m, name) \in SUBSET Anomaly
        BY DEF Drafted, Anomaly
    <3>3. registry[name].path \in Path
        BY <3>1 DEF Key
    <3> QED BY <2>3, <3>1, <3>2, <3>3 DEF Profile, Health
  <2>7. /\ Len(profiles') = Len(profiles) + 1 /\ Len(profiles) \in Nat
        /\ \A i \in 1 .. Len(profiles) : profiles'[i] = profiles[i]
        /\ profiles'[Len(profiles) + 1] = r
        /\ DOMAIN profiles = 1 .. Len(profiles) /\ DOMAIN profiles' = 1 .. Len(profiles')
      BY <1>2, <2>4, <2>6, AppendProperties, LenProperties
  <2>8. PICK n, L : n = index - 1 /\ L = Len(profiles) + 1
      OBVIOUS
  <2>9. n \in Nat /\ index = n + 1 /\ index \in 1 .. Len(names)
      BY <1>1, <1>2, <2>2, <2>8
  <2>10. /\ \A k \in 1 .. n : k \in 1 .. index /\ k # index /\ k \in 1 .. Len(names)
         /\ \A k \in 1 .. index : k \in 1 .. n \/ k = index
      BY <1>2, <2>9
  <2>11. /\ L \in DOMAIN profiles' /\ profiles'[L] = r /\ L = Len(profiles')
         /\ \A i \in DOMAIN profiles : i \in DOMAIN profiles' /\ profiles'[i] = profiles[i] /\ i # L
         /\ \A i \in DOMAIN profiles' : i = L \/ i \in DOMAIN profiles
      BY <2>7, <2>8
  <2>12. \A k \in 1 .. n : names[k] # name
      BY <1>3, <2>2, <2>9, <2>10 DEF Listed
  <2>13. \A i \in DOMAIN profiles : profiles[i].name # name
      BY <2>2, <2>8, <2>12 DEF RowsOf
  <2>14. RowsOf(names, index, profiles')
    <3>1. ASSUME NEW i \in DOMAIN profiles'
          PROVE  profiles'[i].name.kind # "system" /\ \E k \in 1 .. index : profiles'[i].name = names[k]
      <4>1. CASE i = L
        <5>1. profiles'[i].name = names[index] /\ index \in 1 .. index
            BY <1>2, <1>3, <2>5, <2>9, <2>11, <4>1
        <5> QED BY <1>1, <5>1
      <4>2. CASE i \in DOMAIN profiles
          BY <2>2, <2>8, <2>10, <2>11, <4>2 DEF RowsOf
      <4> QED BY <2>11, <4>1, <4>2
    <3>2. ASSUME NEW k \in 1 .. index, names[k].kind # "system"
          PROVE  \E i \in DOMAIN profiles' : profiles'[i].name = names[k]
      <4>1. CASE k = index
          BY <1>3, <2>5, <2>11, <4>1
      <4>2. CASE k \in 1 .. n
        <5>1. RowsOf(names, n, profiles)
            BY <2>2, <2>8
        <5>2. PICK i \in DOMAIN profiles : profiles[i].name = names[k]
            BY <3>2, <4>2, <5>1 DEF RowsOf
        <5> QED BY <2>11, <5>2
      <4> QED BY <2>10, <4>1, <4>2
    <3>3. ASSUME NEW i \in DOMAIN profiles', NEW j \in DOMAIN profiles', profiles'[i].name = profiles'[j].name
          PROVE  i = j
      <4>1. CASE i \in DOMAIN profiles /\ j \in DOMAIN profiles
          BY <2>2, <2>8, <2>11, <3>3, <4>1 DEF RowsOf
      <4>2. CASE i = L \/ j = L
          BY <2>5, <2>11, <2>13, <3>3, <4>2
      <4> QED BY <2>11, <4>1, <4>2
    <3> QED BY <3>1, <3>2, <3>3 DEF RowsOf
  <2>15. \A i \in DOMAIN profiles' : i # Len(profiles') => Done(m, profiles'[i])
      BY <2>2, <2>11
  <2>16. Stage(m, profiles'[Len(profiles')], "probe", needed')
      BY <2>5, <2>11 DEF Stage
  <2> QED BY <1>1, <2>2, <2>9, <2>14, <2>15, <2>16 DEF QuietScan, Inspecting
<1> QED BY <1>1, <1>2, <1>3, <1>5, QuietStep

\* A quiet scan that is inspecting a profile.
QuietRow(m, list, n, rows) ==
    /\ Listed(m, list) /\ n \in 1 .. Len(list) /\ RowsOf(list, n, rows)
    /\ rows \in Seq(Profile) /\ rows # << >>
    /\ \A i \in DOMAIN rows : i # Len(rows) => Done(m, rows[i])

\* The last row is replaced by one of the same name.
LEMMA LastRow ==
    ASSUME NEW m, NEW list, NEW n, NEW rows, QuietRow(m, list, n, rows),
           NEW next \in Seq(Profile), Len(next) = Len(rows), DOMAIN next = DOMAIN rows,
           \A j \in DOMAIN rows : j # Len(rows) => next[j] = rows[j],
           next[Len(rows)].name = rows[Len(rows)].name
    PROVE  QuietRow(m, list, n, next)
<1>1. \A j \in DOMAIN rows : next[j].name = rows[j].name
    OBVIOUS
<1>2. RowsOf(list, n, next)
    BY <1>1 DEF QuietRow, RowsOf
<1>3. next # << >>
    BY EmptySeq DEF QuietRow
<1> QED BY <1>2, <1>3 DEF QuietRow

\* The same row is looked at again.
LEMMA QuietRowHolds ==
    ASSUME ScanInv, QuietInv, quiet, pc \in Inspecting \cup {"size"}
    PROVE  /\ QuietRow(Machine, names, index, profiles)
           /\ Stage(Machine, profiles[Len(profiles)], pc, needed)
           /\ profiles[Len(profiles)] \in Profile
<1>1. profiles \in Seq(Profile) /\ profiles # << >>
    BY DEF ScanInv, Types, RowsInv
<1> QED BY <1>1, LastIndex DEF QuietInv, QuietScan, QuietRow, Inspecting

\* The inspection goes on.
LEMMA QuietRowGoes ==
    ASSUME NEW m, NEW at \in Inspecting \cup {"size"}, NEW list, NEW n, NEW rows, NEW count,
           QuietRow(m, list, n, rows), Stage(m, rows[Len(rows)], at, count)
    PROVE  QuietScan(m, at, n, list, rows, count)
BY DEF QuietScan, QuietRow, Inspecting

\* The directory at a path, and whether it holds a hive.
LEMMA MachineMeaning ==
    /\ Machine.registry = registry /\ Machine.loaded = loaded
    /\ Machine.content = content /\ Machine.lockers = lockers
    /\ \A path : At(path) = Disk(Machine, path)
    /\ \A path : HasHive(path) <=> Hive(Machine.content, path)
    /\ \A name : IsLoaded(name) <=> InUse(Machine, name)
<1>1. /\ Machine.registry = registry /\ Machine.loaded = loaded
      /\ Machine.content = content /\ Machine.lockers = lockers
    BY DEF Machine
<1> QED BY <1>1 DEF At, HasHive, Disk, Hive, IsLoaded, InUse

LEMMA QuietProbe == ASSUME ScanInv, QuietInv, Probe PROVE QuietInv'
<1>1. pc = "probe" /\ UNCHANGED <<world, index, names, needed>>
    BY Zenon DEF Probe
<1>2. names \in Seq(Name) /\ index \in Nat
    BY DEF QuietInv
<1>3. profiles \in Seq(Profile) /\ profiles # << >>
    BY <1>1 DEF ScanInv, Types, RowsInv, Inspecting
<1>4. PICK m, c : m = Machine /\ c = profiles[Len(profiles)]
    OBVIOUS
<1>0. PICK failed \in SUBSET {"open_key", "is_dir", "is_file"}, p \in Profile : ProbedRow(c, failed, p)
    BY <1>3, <1>4, ProbeMeaning
<1>5. /\ profiles' = [profiles EXCEPT ![Len(profiles)] = p]
      /\ p \in Profile /\ p.name = c.name /\ p.path = c.path
      /\ p.loaded <=> "open_key" \notin failed /\ IsLoaded(c.name)
      /\ p.anomalies = c.anomalies \cup (IF DirExists(c.path, failed) THEN {} ELSE {"MissingDirectory"})
                         \cup (IF "open_key" \in failed THEN {"RegistryReadFailure"} ELSE {})
      /\ pc' = IF DirExists(c.path, failed) /\ NtUserExists(c.path, failed) /\ ~ p.loaded
                 THEN "count" ELSE "size"
      /\ IF failed = {} THEN quiet' = quiet ELSE quiet' = FALSE
    BY <1>0 DEF ProbedRow
<1>6. ASSUME quiet' PROVE QuietScan(m, pc', index', names', profiles', needed')
  <2>1. quiet /\ failed = {}
      BY <1>5, <1>6
  <2>2. QuietRow(m, names, index, profiles) /\ Stage(m, c, "probe", needed) /\ c \in Profile
      BY <1>1, <1>4, <2>1, QuietRowHolds DEF Inspecting
  <2>3. DirExists(c.path, failed) <=> Disk(m, c.path) # "missing"
      BY <1>4, <2>1, MachineMeaning DEF DirExists
  <2>4. NtUserExists(c.path, failed) <=> Hive(m.content, c.path)
      BY <1>4, <2>1, MachineMeaning DEF NtUserExists
  <2>5. Hive(m.content, c.path) => Disk(m, c.path) # "missing"
      BY DEF Hive, Disk
  <2>6. pc' = IF Hive(m.content, c.path) /\ ~ p.loaded THEN "count" ELSE "size"
      BY <1>5, <2>3, <2>4, <2>5
  <2>7. p.anomalies = c.anomalies \cup IF Disk(m, c.path) = "missing" THEN {"MissingDirectory"} ELSE {}
    <3>1. "open_key" \notin failed
        BY <2>1
    <3> QED BY <1>5, <2>3, <3>1
  <2>8. p.loaded <=> IsLoaded(c.name)
      BY <1>5, <2>1
  <2>9. p.loaded <=> InUse(m, p.name)
      BY <1>4, <1>5, <2>8, MachineMeaning
  <2>10. p.path = m.registry[p.name].path /\ p.anomalies = Probed(m, p.name)
      BY <1>5, <2>2, <2>7 DEF Stage, Probed
  <2>11. Stands(m, p, Probed(m, p.name))
      BY <2>9, <2>10 DEF Stands
  <2>12. p \in Profile /\ p.name = c.name /\ p.path = c.path
      BY <1>5
  <2>13. QuietRow(m, names, index, profiles') /\ profiles'[Len(profiles')] = p /\ Len(profiles') = Len(profiles)
    <3>1. p \in Profile /\ p.name = profiles[Len(profiles)].name /\ QuietRow(m, names, index, profiles)
        BY <1>4, <2>2, <2>12
    <3>2. profiles \in Seq(Profile) /\ Len(profiles) \in DOMAIN profiles
        BY <3>1, LastIndex DEF QuietRow
    <3>3. /\ profiles' \in Seq(Profile) /\ DOMAIN profiles' = DOMAIN profiles
          /\ Len(profiles') = Len(profiles) /\ profiles'[Len(profiles)] = p
          /\ \A j \in DOMAIN profiles : j # Len(profiles) => profiles'[j] = profiles[j]
        BY <1>5, <3>1, <3>2, Replaced
    <3>4. QuietRow(m, names, index, profiles')
        BY <3>1, <3>3, LastRow
    <3> QED BY <3>3, <3>4
  <2>14. pc' = IF Hive(m.content, p.path) /\ ~ p.loaded THEN "count" ELSE "size"
      BY <2>6, <2>12
  <2>15. Stage(m, p, pc', needed')
    <3>1. CASE pc' = "count"
        BY <2>10, <2>11, <2>14, <3>1 DEF Stage
    <3>2. CASE pc' = "size" /\ ~ (Hive(m.content, p.path) /\ ~ p.loaded)
      <4>1. ~ OpenElsewhere(m, p.name)
          BY <2>9, <2>10, <3>2 DEF OpenElsewhere
      <4>2. Inspected(m, p.name) = Probed(m, p.name)
          BY <4>1 DEF Inspected
      <4> QED BY <2>10, <2>11, <3>2, <4>2 DEF Stage
    <3> QED BY <2>14, <3>1, <3>2
  <2>16. pc' \in Inspecting \cup {"size"}
      BY <2>14 DEF Inspecting
  <2> QED BY <1>1, <2>13, <2>15, <2>16, QuietRowGoes
<1>7. pc' # "idle"
    BY <1>5
<1> QED BY <1>1, <1>2, <1>4, <1>6, <1>7, QuietStep

LEMMA QuietCount == ASSUME ScanInv, QuietInv, CountLockers PROVE QuietInv'
<1>1. /\ pc = "count" /\ UNCHANGED <<world, index, names, profiles, quiet>>
      /\ needed' = lockers[Current.path.dir] /\ pc' = IF needed' = 0 THEN "size" ELSE "list"
    BY DEF CountLockers
<1>2. names \in Seq(Name) /\ index \in Nat
    BY DEF QuietInv
<1>3. PICK m, c : m = Machine /\ c = profiles[Len(profiles)]
    OBVIOUS
<1>4. ASSUME quiet' PROVE QuietScan(m, pc', index', names', profiles', needed')
  <2>1. QuietRow(m, names, index, profiles) /\ Stage(m, c, "count", needed) /\ c \in Profile
      BY <1>1, <1>3, <1>4, QuietRowHolds DEF Inspecting
  <2>2. Stands(m, c, Probed(m, c.name)) /\ Hive(m.content, c.path) /\ ~ c.loaded /\ c.path = m.registry[c.name].path
      BY <2>1 DEF Stage
  <2>3. needed' = m.lockers[c.path.dir]
      BY <1>1, <1>3, MachineMeaning DEF Current
  <2>4. needed' \in Nat
    <3>1. c.path \in Path /\ c.path.dir \in Dir
        BY <2>1, <2>2 DEF Profile, Path, Hive
    <3>2. m.lockers \in [Dir -> 0 .. MaxLockers]
        BY <1>3, MachineMeaning DEF ScanInv, Types
    <3> QED BY <2>3, <3>1, <3>2
  <2>5. CASE pc' = "list" /\ needed' # 0
    <3>1. Stage(m, c, "list", needed')
        BY <2>2, <2>3, <2>4, <2>5 DEF Stage
    <3> QED BY <1>1, <1>3, <2>1, <2>5, <3>1, QuietRowGoes DEF Inspecting
  <2>6. CASE pc' = "size" /\ needed' = 0
    <3>1. ~ OpenElsewhere(m, c.name)
        BY <2>2, <2>3, <2>6 DEF OpenElsewhere
    <3>2. Stage(m, c, "size", needed')
        BY <2>2, <3>1 DEF Stage, Inspected
    <3> QED BY <1>1, <1>3, <2>1, <2>6, <3>2, QuietRowGoes DEF Inspecting
  <2> QED BY <1>1, <2>5, <2>6
<1>5. pc' # "idle"
    BY <1>1
<1> QED BY <1>1, <1>2, <1>3, <1>4, <1>5, QuietStep

LEMMA QuietList == ASSUME ScanInv, QuietInv, ListLockers PROVE QuietInv'
<1>1. /\ pc = "list" /\ UNCHANGED <<world, index, names, needed, quiet>> /\ pc' = "size"
      /\ profiles' = IF lockers[Current.path.dir] > 0 THEN Marked({"LockedNtUserDat"}) ELSE profiles
    BY DEF ListLockers
<1>2. names \in Seq(Name) /\ index \in Nat
    BY DEF QuietInv
<1>3. PICK m, c : m = Machine /\ c = profiles[Len(profiles)]
    OBVIOUS
<1>4. ASSUME quiet' PROVE QuietScan(m, pc', index', names', profiles', needed')
  <2>1. QuietRow(m, names, index, profiles) /\ Stage(m, c, "list", needed) /\ c \in Profile
      BY <1>1, <1>3, <1>4, QuietRowHolds DEF Inspecting
  <2>2. /\ Stands(m, c, Probed(m, c.name)) /\ Hive(m.content, c.path) /\ ~ c.loaded /\ c.path = m.registry[c.name].path
        /\ m.lockers[c.path.dir] > 0
      BY <2>1 DEF Stage
  <2>3. PICK p : p = [c EXCEPT !.anomalies = @ \cup {"LockedNtUserDat"}]
      OBVIOUS
  <2>4. /\ p \in Profile /\ p.name = c.name /\ p.path = c.path /\ p.loaded = c.loaded
        /\ p.anomalies = c.anomalies \cup {"LockedNtUserDat"}
      BY <2>1, <2>3 DEF Profile, Anomaly
  <2>5. profiles' = [profiles EXCEPT ![Len(profiles)] = p]
    <3>1. profiles' = Marked({"LockedNtUserDat"})
        BY <1>1, <1>3, <2>2, MachineMeaning DEF Current
    <3>2. Len(profiles) \in DOMAIN profiles
        BY <2>1, LastIndex DEF QuietRow
    <3> QED BY <1>3, <2>3, <3>1, <3>2 DEF Marked
  <2>6. QuietRow(m, names, index, profiles') /\ profiles'[Len(profiles')] = p
    <3>1. p \in Profile /\ p.name = profiles[Len(profiles)].name /\ QuietRow(m, names, index, profiles)
        BY <1>3, <2>1, <2>4
    <3>2. profiles \in Seq(Profile) /\ Len(profiles) \in DOMAIN profiles
        BY <3>1, LastIndex DEF QuietRow
    <3>3. /\ profiles' \in Seq(Profile) /\ DOMAIN profiles' = DOMAIN profiles
          /\ Len(profiles') = Len(profiles) /\ profiles'[Len(profiles)] = p
          /\ \A j \in DOMAIN profiles : j # Len(profiles) => profiles'[j] = profiles[j]
        BY <2>5, <3>1, <3>2, Replaced
    <3>4. QuietRow(m, names, index, profiles')
        BY <3>1, <3>3, LastRow
    <3> QED BY <3>3, <3>4
  <2>7. OpenElsewhere(m, c.name)
      BY <2>2 DEF OpenElsewhere, Stands
  <2>8. Stage(m, p, "size", needed')
      BY <2>2, <2>4, <2>7 DEF Stage, Stands, Inspected
  <2> QED BY <1>1, <2>6, <2>8, QuietRowGoes
<1> QED BY <1>1, <1>2, <1>3, <1>4, QuietStep

\* The second call never finds more programs than the first while nothing changes.
LEMMA QuietInspectionFails == ASSUME ScanInv, QuietInv, InspectionFails PROVE QuietInv'
<1>1. pc \in {"count", "list"} /\ pc' = "size" /\ UNCHANGED <<world, index, names, needed>>
    BY DEF InspectionFails
<1>2. names \in Seq(Name) /\ index \in Nat
    BY DEF QuietInv
<1>3. PICK m, c : m = Machine /\ c = profiles[Len(profiles)]
    OBVIOUS
<1>4. ~ quiet'
  <2> SUFFICES ASSUME quiet' PROVE FALSE
      OBVIOUS
  <2>1. pc = "list" /\ lockers[c.path.dir] > needed /\ quiet
      BY <1>3 DEF InspectionFails, Fault, NoFault, Current
  <2>2. Stage(m, c, "list", needed) /\ c \in Profile
      BY <1>3, <2>1, QuietRowHolds DEF Inspecting
  <2>3. needed = lockers[c.path.dir] /\ Hive(m.content, c.path)
      BY <1>3, <2>2, MachineMeaning DEF Stage
  <2>4. lockers[c.path.dir] \in Nat
    <3>1. c.path.dir \in Dir
        BY <2>2, <2>3 DEF Profile, Path, Hive
    <3> QED BY <3>1 DEF ScanInv, Types
  <2> QED BY <2>1, <2>3, <2>4
<1> QED BY <1>1, <1>2, <1>4, QuietStep

LEMMA QuietMeasure == ASSUME ScanInv, QuietInv, Measure PROVE QuietInv'
<1>1. pc = "size" /\ pc' = "key" /\ index' = index + 1 /\ UNCHANGED <<world, names, needed>>
    BY DEF Measure, NextKey
<1>2. names \in Seq(Name) /\ index \in Nat /\ Len(names) \in Nat
    BY LenProperties DEF QuietInv
<1>3. PICK m, c : m = Machine /\ c = profiles[Len(profiles)]
    OBVIOUS
<1>4. ASSUME quiet' PROVE QuietScan(m, pc', index', names', profiles', needed')
  <2>1. quiet
      BY <1>4 DEF Measure, Fault, NoFault
  <2>2. QuietRow(m, names, index, profiles) /\ Stage(m, c, "size", needed) /\ c \in Profile
      BY <1>1, <1>3, <2>1, QuietRowHolds
  <2>3. PICK failure \in {{}, {"FilesystemScanFailure"}} :
          /\ IF failure = {} THEN "MissingDirectory" \notin c.anomalies => At(c.path) # "junction"
                            ELSE At(c.path) = "junction"
          /\ profiles' = [profiles EXCEPT ![Len(profiles)] =
               [@ EXCEPT !.anomalies = Current.anomalies \cup failure,
                         !.health = HealthOf(Current.name, Current.anomalies \cup failure)]]
      BY <1>3, <1>4 DEF Measure, Fault, Current
  <2>4. failure = IF Disk(m, c.path) = "junction" THEN {"FilesystemScanFailure"} ELSE {}
    <3>1. c.anomalies = Inspected(m, c.name) /\ c.path = m.registry[c.name].path
        BY <2>2 DEF Stage, Stands
    <3>2. Disk(m, c.path) = "junction" => "MissingDirectory" \notin c.anomalies
        BY <3>1 DEF Inspected, Probed, Drafted
    <3> QED BY <1>3, <2>3, <3>2, MachineMeaning
  <2>5. PICK p : p = [c EXCEPT !.anomalies = c.anomalies \cup failure,
                               !.health = HealthOf(c.name, c.anomalies \cup failure)]
      OBVIOUS
  <2>6. HealthOf(c.name, c.anomalies \cup failure) \in Health
      BY DEF HealthOf, Health
  <2>7. /\ p \in Profile /\ p.name = c.name /\ p.path = c.path /\ p.loaded = c.loaded
        /\ p.anomalies = c.anomalies \cup failure /\ p.health = HealthOf(c.name, c.anomalies \cup failure)
      BY <2>2, <2>3, <2>5, <2>6 DEF Profile, Anomaly
  <2>8. profiles \in Seq(Profile) /\ Len(profiles) \in DOMAIN profiles
      BY <2>2, LastIndex DEF QuietRow
  <2>9. profiles' = [profiles EXCEPT ![Len(profiles)] = p]
      BY <1>3, <2>3, <2>5, <2>8 DEF Current
  <2>10. /\ profiles' \in Seq(Profile) /\ DOMAIN profiles' = DOMAIN profiles
         /\ Len(profiles') = Len(profiles) /\ profiles'[Len(profiles)] = p
         /\ \A j \in DOMAIN profiles : j # Len(profiles) => profiles'[j] = profiles[j]
      BY <2>7, <2>8, <2>9, Replaced
  <2>11. QuietRow(m, names, index, profiles')
      BY <1>3, <2>2, <2>7, <2>10, LastRow
  <2>12. Done(m, p)
    <3>1. Stands(m, c, Inspected(m, c.name)) /\ c.path = m.registry[c.name].path
        BY <2>2 DEF Stage
    <3>2. p.anomalies = Evaluated(m, p.name)
        BY <2>4, <2>7, <3>1 DEF Evaluated, Stands
    <3> QED BY <2>7, <3>1, <3>2 DEF Done, Stands
  <2>13. \A i \in DOMAIN profiles' : Done(m, profiles'[i])
      BY <2>10, <2>11, <2>12 DEF QuietRow
  <2>14. index' - 1 = index /\ index' \in 1 .. Len(names) + 1
      BY <1>1, <1>2, <2>2 DEF QuietRow
  <2> QED BY <1>1, <2>11, <2>13, <2>14 DEF QuietScan, QuietRow, Inspecting
<1> QED BY <1>1, <1>2, <1>3, <1>4, QuietStep

\* The rows of the keys share a path exactly when the keys do.
LEMMA CollisionsAreShared ==
    ASSUME NEW m, NEW list, NEW rows, Listed(m, list), RowsOf(list, Len(list), rows),
           \A i \in DOMAIN rows : rows[i].path = m.registry[rows[i].name].path, NEW i \in DOMAIN rows
    PROVE  (\E j \in DOMAIN rows \ {i} : SamePath(rows[i].path, rows[j].path)) <=> SharesPath(m, rows[i].name)
<1>1. ASSUME NEW j \in DOMAIN rows \ {i}, SamePath(rows[i].path, rows[j].path)
      PROVE  SharesPath(m, rows[i].name)
  <2>1. rows[j].name # rows[i].name /\ rows[j].name.kind # "system"
      BY DEF RowsOf
  <2>2. rows[j].name \in DOMAIN m.registry
      BY DEF RowsOf, Listed
  <2> QED BY <1>1, <2>1, <2>2 DEF SamePath, SharesPath
<1>2. ASSUME SharesPath(m, rows[i].name)
      PROVE  \E j \in DOMAIN rows \ {i} : SamePath(rows[i].path, rows[j].path)
  <2>1. PICK n \in DOMAIN m.registry \ {rows[i].name} :
          n.kind # "system" /\ m.registry[n].path.dir = m.registry[rows[i].name].path.dir
      BY <1>2 DEF SharesPath
  <2>2. PICK k \in 1 .. Len(list) : list[k] = n
      BY <2>1 DEF Listed
  <2>3. PICK j \in DOMAIN rows : rows[j].name = n
      BY <2>1, <2>2 DEF RowsOf
  <2>4. j # i
      BY <2>1, <2>3
  <2> QED BY <1>2, <2>1, <2>3, <2>4 DEF SamePath, SharesPath
<1> QED BY <1>1, <1>2

LEMMA QuietMark == ASSUME ScanInv, QuietInv, MarkCollisions PROVE QuietInv'
<1>1. /\ pc = "key" /\ pc' \in {"audit", "refresh"} /\ index > Len(names)
      /\ UNCHANGED <<world, index, names, needed, quiet>>
    BY Zenon DEF MarkCollisions
<1>2. names \in Seq(Name) /\ index \in Nat /\ Len(names) \in Nat
    BY LenProperties DEF QuietInv
<1>3. PICK m : m = Machine
    OBVIOUS
<1>4. ASSUME quiet' PROVE QuietScan(m, pc', index', names', profiles', needed')
  <2>1. /\ Listed(m, names) /\ index \in 1 .. Len(names) + 1 /\ RowsOf(names, index - 1, profiles)
        /\ \A i \in DOMAIN profiles : Done(m, profiles[i])
      BY <1>1, <1>3, <1>4 DEF QuietInv, QuietScan
  <2>2. index - 1 = Len(names)
      BY <1>1, <1>2, <2>1
  <2>3. RowsOf(names, Len(names), profiles)
      BY <2>1, <2>2
  <2>4. \A i \in DOMAIN profiles : profiles[i].path = m.registry[profiles[i].name].path
      BY <2>1 DEF Done, Stands
  <2>5. \A i \in DOMAIN profiles : Collides(i) <=> SharesPath(m, profiles[i].name)
      BY <2>1, <2>3, <2>4, CollisionsAreShared DEF Collides
  <2> DEFINE R(i) == LET anomalies == profiles[i].anomalies \cup {"PathCollision"} IN
                     [profiles[i] EXCEPT !.anomalies = anomalies,
                                         !.health = HealthOf(profiles[i].name, anomalies)]
  <2>6. profiles' = [i \in DOMAIN profiles |-> IF Collides(i) THEN R(i) ELSE profiles[i]]
      BY Zenon DEF MarkCollisions
  <2>7. ASSUME NEW i \in DOMAIN profiles PROVE profiles'[i].name = profiles[i].name /\ Reported(m, profiles'[i])
    <3>1. PICK p : p = profiles[i]
        OBVIOUS
    <3>2. p \in Profile /\ Done(m, p)
        BY <2>1, <3>1, Element DEF ScanInv, Types
    <3>3. CASE ~ Collides(i)
      <4>1. profiles'[i] = p
          BY <2>6, <3>1, <3>3
      <4>2. ~ SharesPath(m, p.name)
          BY <2>5, <3>1, <3>3
      <4> QED BY <3>1, <3>2, <4>1, <4>2 DEF Done, Reported, Stands, Marks
    <3>4. CASE Collides(i)
      <4>1. PICK a : a = p.anomalies \cup {"PathCollision"}
          OBVIOUS
      <4>2. PICK q : q = [p EXCEPT !.anomalies = a, !.health = HealthOf(p.name, a)]
          OBVIOUS
      <4>3. profiles'[i] = q
          BY <2>6, <3>1, <3>4, <4>1, <4>2
      <4>4. q.name = p.name /\ q.path = p.path /\ q.loaded = p.loaded /\ q.anomalies = a
            /\ q.health = HealthOf(p.name, a)
          BY <3>2, <4>2 DEF Profile
      <4>5. SharesPath(m, p.name)
          BY <2>5, <3>1, <3>4
      <4>6. a = Marks(m, q.name)
          BY <3>2, <4>1, <4>4, <4>5 DEF Done, Stands, Marks
      <4> QED BY <3>1, <3>2, <4>3, <4>4, <4>6 DEF Done, Reported, Stands
    <3> QED BY <3>3, <3>4
  <2>8. DOMAIN profiles' = DOMAIN profiles
      BY <2>6
  <2>9. RowsOf(names, Len(names), profiles')
      BY <2>3, <2>7, <2>8 DEF RowsOf
  <2>10. \A i \in DOMAIN profiles' : Reported(m, profiles'[i])
      BY <2>7, <2>8
  <2> QED BY <1>1, <2>1, <2>9, <2>10 DEF QuietScan, Inspecting
<1> QED BY <1>1, <1>2, <1>3, <1>4, QuietStep

LEMMA QuietScanStep == ASSUME ScanInv, QuietInv, Scan PROVE QuietInv'
<1>1. names \in Seq(Name) /\ index \in Nat
    BY DEF QuietInv
<1>2. ASSUME UNCHANGED <<world, index, names>>, pc' \in {"audit_error", "not_refreshed"} PROVE QuietInv'
    BY <1>1, <1>2, NothingToFind, QuietStep
<1>3. ASSUME UNCHANGED world, NEW result, Queue(result) PROVE QuietInv'
  <2>1. pc' = "idle" /\ index' = 0 /\ names' = << >> /\ << >> \in Seq(Name)
      BY <1>3, EmptySeq DEF Queue
  <2> QED BY <1>3, <2>1, NothingToFind, QuietStep
<1>4. CASE ScanFails
    BY <1>2, <1>4 DEF ScanFails
<1>5. CASE AuditFails
    BY <1>2, <1>5 DEF AuditFails
<1>6. CASE Audit
    BY <1>3, <1>6 DEF Audit
<1>7. CASE AuditError
    BY <1>3, <1>7 DEF AuditError
<1>8. CASE Refresh
    BY <1>3, <1>8 DEF Refresh
<1> QED BY <1>4, <1>5, <1>6, <1>7, <1>8, QuietEnumerate, QuietEnumerated, QuietSkip, QuietReadKey, QuietProbe, QuietCount,
           QuietList, QuietInspectionFails, QuietMeasure, QuietMark DEF Scan

LEMMA QuietBegin ==
    ASSUME QuietInv, NEW kind, NEW logged, Begin(kind, logged),
           DOMAIN registry' \subseteq {Names[i] : i \in DOMAIN Names}
    PROVE  QuietInv'
<1>1. pc = "idle" /\ pc' = "enum" /\ UNCHANGED <<index, names, profiles, needed>>
    BY DEF Begin
<1>2. names = << >> /\ index = 0 /\ names \in Seq(Name) /\ index \in Nat /\ Len(names) = 0
    BY <1>1, EmptySeq DEF QuietInv
<1>3. ASSUME NEW m PROVE QuietScan(m, "enum", index, names, profiles, needed)
  <2>1. Ranked(m, names)
      BY <1>2 DEF Ranked
  <2> QED BY <1>2, <2>1 DEF QuietScan, Inspecting
<1>4. PICK m : m = Machine'
    OBVIOUS
<1>5. QuietScan(Machine', pc', index', names', profiles', needed')
    BY <1>1, <1>3, <1>4
<1> QED BY <1>1, <1>2, <1>5 DEF QuietInv

\* The registry keeps its names.
LEMMA QuietKey ==
    ASSUME QuietInv, NEW i \in DOMAIN Names, KeyAdded(Names[i]) \/ KeyRemoved(Names[i])
    PROVE  QuietInv'
<1>1. ~ quiet' /\ UNCHANGED <<names, index, pc>>
    BY DEF KeyAdded, KeyRemoved, Change
<1>2. DOMAIN registry' \subseteq DOMAIN registry \cup {Names[i]}
    BY DEF KeyAdded, KeyRemoved
<1>3. DOMAIN registry' \subseteq {Names[j] : j \in DOMAIN Names}
    BY <1>2 DEF QuietInv
<1> QED BY <1>1, <1>3, QuietEnds

\* QuietInv is an invariant.
LEMMA QuietInvariance == Spec => []QuietInv
<1>1. Init => QuietInv
  <2> SUFFICES ASSUME Init PROVE QuietInv
      OBVIOUS
  <2>1. pc = "idle" /\ index = 0 /\ names = << >> /\ \E m \in Start : registry = m.registry
      BY DEF Init
  <2>2. DOMAIN registry \subseteq {Names[i] : i \in DOMAIN Names}
      BY <2>1, ScannerConstants
  <2>3. QuietScan(Machine, pc, index, names, profiles, needed)
      BY <2>1, NothingToFind
  <2>4. names \in Seq(Name)
      BY <2>1, EmptySeq
  <2> QED BY <2>1, <2>2, <2>3, <2>4 DEF QuietInv
<1>2. ScanInv /\ QuietInv /\ [Next]_vars => QuietInv'
  <2> SUFFICES ASSUME ScanInv, QuietInv, [Next]_vars PROVE QuietInv'
      OBVIOUS
  <2>1. ASSUME UNCHANGED <<world, pc, index, names, profiles, needed, quiet>> PROVE QuietInv'
    <3>1. PICK m : m = Machine
        OBVIOUS
    <3>2. names' \in Seq(Name) /\ index' \in Nat /\ (pc' = "idle" => names' = << >> /\ index' = 0)
        BY <2>1 DEF QuietInv
    <3>3. quiet' => QuietScan(m, pc', index', names', profiles', needed')
        BY <2>1, <3>1 DEF QuietInv
    <3> QED BY <2>1, <3>1, <3>2, <3>3, QuietStep
  <2>2. CASE UNCHANGED vars \/ ApplyResult \/ \E i \in 1 .. Len(Names) * 2 : SelectProfile(i)
    <3>1. UNCHANGED <<world, pc, index, names, profiles, needed, quiet>>
        BY <2>2 DEF vars, ApplyResult, SelectProfile
    <3> QED BY <2>1, <3>1
  <2>3. ASSUME NEW sid \in Sid, LogonOrOff(sid) PROVE QuietInv'
      BY <2>3, QuietEnds DEF LogonOrOff, Change, QuietInv
  <2>4. ASSUME NEW d \in Dir, LockersChange(d) PROVE QuietInv'
      BY <2>4, QuietEnds DEF LockersChange, Change, QuietInv
  <2>5. CASE BeginScan \/ BeginRescan
    <3>1. DOMAIN registry' \subseteq {Names[i] : i \in DOMAIN Names} /\ \E kind, logged : Begin(kind, logged)
        BY <2>5, Zenon DEF BeginScan, BeginRescan, QuietInv
    <3> QED BY <3>1, QuietBegin
  <2> QED BY <2>2, <2>3, <2>4, <2>5, QuietScanStep, QuietKey DEF Next
<1> QED BY <1>1, <1>2, Invariance, PTL DEF Spec

\* As many rows as names.
LEMMA RowsCounted ==
    ASSUME NEW rows \in Seq(Profile), \A i, j \in DOMAIN rows : rows[i].name = rows[j].name => i = j
    PROVE  Len(rows) = Cardinality({rows[i].name : i \in DOMAIN rows})
<1>1. Len(rows) \in Nat /\ DOMAIN rows = 1 .. Len(rows)
    BY LenProperties
<1>2. PICK S : S = {rows[i].name : i \in DOMAIN rows}
    OBVIOUS
<1>3. PICK f : f = [i \in 1 .. Len(rows) |-> rows[i].name]
    OBVIOUS
<1>4. f \in Bijection(1 .. Len(rows), S)
  <2>1. f \in [1 .. Len(rows) -> S] /\ \A i \in 1 .. Len(rows) : f[i] = rows[i].name
      BY <1>1, <1>2, <1>3
  <2>2. \A i, j \in 1 .. Len(rows) : f[i] = f[j] => i = j
      BY <1>1, <2>1
  <2>3. \A n \in S : \E i \in 1 .. Len(rows) : f[i] = n
      BY <1>1, <1>2, <2>1
  <2>4. f \in Injection(1 .. Len(rows), S)
      BY <2>1, <2>2 DEF Injection, IsInjective
  <2>5. f \in Surjection(1 .. Len(rows), S)
      BY <2>1, <2>3 DEF Surjection
  <2> QED BY <2>4, <2>5 DEF Bijection
<1>5. ExistsBijection(1 .. Len(rows), S)
    BY <1>4 DEF ExistsBijection
<1> QED BY <1>1, <1>2, <1>5, FS_CountingElements

\* Each anomaly of a key has its cause.
LEMMA MarksMeaning ==
    ASSUME NEW m, NEW name
    PROVE  LET a == Marks(m, name)
               key == m.registry[name]
           IN /\ "RegistryReadFailure" \in a <=> key.path.dir = None
              /\ "SidResolutionFailure" \in a <=> ~ Resolves(name)
              /\ "BakSuffix" \in a <=> name.kind = "bak"
              /\ "TempSession" \in a <=> key.temp
              /\ "DirtyStateMask" \in a <=> key.dirty /\ ~ key.temp
              /\ "PathCollision" \in a <=> SharesPath(m, name)
              /\ "MissingDirectory" \in a <=> Disk(m, key.path) = "missing"
              /\ "LockedNtUserDat" \in a <=> OpenElsewhere(m, name)
              /\ "FilesystemScanFailure" \in a <=> Disk(m, key.path) = "junction"
              /\ "LockInspectionFailure" \notin a
BY DEF Marks, Evaluated, Inspected, Probed, Drafted

\* A row is corrupted by its name or by one of three anomalies, and healthy without any.
LEMMA HealthMeaning ==
    ASSUME NEW name, NEW anomalies, name.kind = "bak" => "BakSuffix" \in anomalies
    PROVE  /\ HealthOf(name, anomalies) = "Corrupted" <=>
                name.kind = "bak" \/ "BakSuffix" \in anomalies \/ "TempSession" \in anomalies
                \/ "PathCollision" \in anomalies
           /\ HealthOf(name, anomalies) = "Healthy" <=> anomalies = {}
<1>1. anomalies \cap {"BakSuffix", "TempSession", "PathCollision"} # {} <=>
        "BakSuffix" \in anomalies \/ "TempSession" \in anomalies \/ "PathCollision" \in anomalies
    OBVIOUS
<1> QED BY <1>1 DEF HealthOf

\* A quiet scan's report is exact.  When nothing changed while a scan or a rescan ran and none of
\* its calls failed, the report has one row for each key of ProfileList but the system's, whatever
\* the order of the enumeration, with exactly the anomalies and the health of that key.
THEOREM QuietScansAreExact == Spec => []QuietScanIsExact
<1>1. ASSUME ScanInv, QuietInv, pc \in {"audit", "refresh"}, quiet PROVE QuietScanIsExact
  <2>1. PICK m : m = Machine
      OBVIOUS
  <2>2. /\ m.registry = registry /\ m.loaded = loaded /\ m.content = content /\ m.lockers = lockers
        /\ \A path : At(path) = Disk(m, path)
        /\ \A path : HasHive(path) <=> Hive(m.content, path)
        /\ \A name : IsLoaded(name) <=> InUse(m, name)
      BY <2>1, MachineMeaning
  <2>3. /\ Listed(m, names) /\ RowsOf(names, Len(names), profiles)
        /\ \A i \in DOMAIN profiles : Reported(m, profiles[i])
      BY <1>1, <2>1 DEF QuietInv, QuietScan
  <2>4. profiles \in Seq(Profile)
      BY <1>1 DEF ScanInv, Types
  <2>5. PICK keys : keys = {name \in DOMAIN registry : name.kind # "system"}
      OBVIOUS
  <2>6. {profiles[i].name : i \in DOMAIN profiles} = keys
    <3>1. \A i \in DOMAIN profiles : profiles[i].name \in keys
        BY <2>2, <2>3, <2>5 DEF Listed, RowsOf
    <3>2. \A name \in keys : \E i \in DOMAIN profiles : profiles[i].name = name
        BY <2>2, <2>3, <2>5 DEF Listed, RowsOf
    <3> QED BY <3>1, <3>2
  <2>7. Len(profiles) = Cardinality(keys)
      BY <2>3, <2>4, <2>6, RowsCounted DEF RowsOf
  <2> DEFINE Other(name) == {n \in keys \ {name} : registry[n].path.dir = registry[name].path.dir}
  <2>8. \A name : SharesPath(m, name) <=> registry[name].path.dir # None /\ Other(name) # {}
      BY <2>2, <2>5 DEF SharesPath
  <2> HIDE DEF Other
  <2>9. ASSUME NEW i \in DOMAIN profiles
        PROVE  LET r == profiles[i]
                   key == registry[r.name]
                   Has(a) == a \in r.anomalies
               IN /\ r.path = key.path /\ r.loaded = IsLoaded(r.name)
                  /\ Has("RegistryReadFailure") <=> key.path.dir = None
                  /\ Has("SidResolutionFailure") <=> ~ Resolves(r.name)
                  /\ Has("BakSuffix") <=> r.name.kind = "bak"
                  /\ Has("TempSession") <=> key.temp
                  /\ Has("DirtyStateMask") <=> key.dirty /\ ~ key.temp
                  /\ Has("PathCollision") <=> key.path.dir # None /\ Other(r.name) # {}
                  /\ Has("MissingDirectory") <=> At(key.path) = "missing"
                  /\ Has("LockedNtUserDat") <=>
                       HasHive(key.path) /\ lockers[key.path.dir] > 0 /\ ~ r.loaded
                  /\ Has("FilesystemScanFailure") <=> At(key.path) = "junction"
                  /\ ~ Has("LockInspectionFailure")
                  /\ r.health = "Corrupted" <=>
                       r.name.kind = "bak" \/ key.temp \/ (key.path.dir # None /\ Other(r.name) # {})
                  /\ r.health = "Healthy" <=> r.anomalies = {}
    <3>1. PICK r : r = profiles[i]
        OBVIOUS
    <3>2. r \in Profile /\ Reported(m, r)
        BY <2>3, <2>4, <3>1, Element
    <3>3. PICK key : key = registry[r.name]
        OBVIOUS
    <3>4. r.path = key.path /\ (r.loaded <=> IsLoaded(r.name)) /\ r.anomalies = Marks(m, r.name)
        BY <2>2, <3>2, <3>3 DEF Reported, Stands
    <3>5. r.loaded = IsLoaded(r.name)
      <4>1. r.loaded \in BOOLEAN /\ IsLoaded(r.name) \in BOOLEAN
          BY <3>2 DEF Profile, IsLoaded
      <4> QED BY <3>4, <4>1
    <3>6. /\ "RegistryReadFailure" \in r.anomalies <=> key.path.dir = None
          /\ "SidResolutionFailure" \in r.anomalies <=> ~ Resolves(r.name)
          /\ "BakSuffix" \in r.anomalies <=> r.name.kind = "bak"
          /\ "TempSession" \in r.anomalies <=> key.temp
          /\ "DirtyStateMask" \in r.anomalies <=> key.dirty /\ ~ key.temp
          /\ "PathCollision" \in r.anomalies <=> SharesPath(m, r.name)
          /\ "MissingDirectory" \in r.anomalies <=> Disk(m, key.path) = "missing"
          /\ "LockedNtUserDat" \in r.anomalies <=> OpenElsewhere(m, r.name)
          /\ "FilesystemScanFailure" \in r.anomalies <=> Disk(m, key.path) = "junction"
          /\ "LockInspectionFailure" \notin r.anomalies
        BY <2>2, <3>3, <3>4, MarksMeaning
    <3>7. OpenElsewhere(m, r.name) <=> HasHive(key.path) /\ lockers[key.path.dir] > 0 /\ ~ r.loaded
        BY <2>2, <3>3, <3>4 DEF OpenElsewhere
    <3>8. SharesPath(m, r.name) <=> key.path.dir # None /\ Other(r.name) # {}
        BY <2>8, <3>3
    <3>9. /\ r.health = "Corrupted" <=> r.name.kind = "bak" \/ key.temp \/ SharesPath(m, r.name)
          /\ r.health = "Healthy" <=> r.anomalies = {}
      <4>1. r.health = HealthOf(r.name, r.anomalies)
          BY <3>2 DEF Reported
      <4> QED BY <3>6, <4>1, HealthMeaning
    <3> QED BY <2>2, <3>1, <3>3, <3>4, <3>5, <3>6, <3>7, <3>8, <3>9
  <2> QED BY <2>5, <2>6, <2>7, <2>9 DEF QuietScanIsExact, Other
<1>2. ScanInv /\ QuietInv => QuietScanIsExact
    BY <1>1 DEF QuietScanIsExact
<1> QED BY <1>2, Invariance, QuietInvariance, PTL
=============================================================================
