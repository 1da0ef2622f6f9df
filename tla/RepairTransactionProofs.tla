----------------------- MODULE RepairTransactionProofs -----------------------
(***************************************************************************)
(* TLAPS proofs about RepairTransaction, for any processes, paths, backup  *)
(* names and numbers of faults, crashes, logons and repairs.               *)
(***************************************************************************)
EXTENDS RepairTransaction, SequenceTheorems, TLAPS

Registry == [Name -> Key \cup {NoKey}]

\* The labels before the first mutation, of the mutations, and of the rollback.
Preflight == {"inspect", "validate", "reinspect"}
Early == Preflight \cup {"dryRun", "paths", "snapshot", "openParent", "preserve"}
Applied == {"resetState", "resetRefCount", "verify", "logSuccess"}
Rollback == {"unrenameBak", "unrenameCanonical", "restore"}

-----------------------------------------------------------------------------
(* The inductive invariant, process by process. *)

\* Whoever is past the guard with a real plan holds it, and nobody else.
PlanInv(p) ==
    /\ pc[p] # "idle" => plan[p] \in Plan
    /\ pc[p] \in {"idle", "guard"} => guard # p
    /\ pc[p] = "guard" => ~plan[p].dryRun
    /\ pc[p] \notin {"idle", "guard"} => (guard = p <=> ~plan[p].dryRun)
    /\ pc[p] = "dryRun" => plan[p].dryRun
    /\ pc[p] \notin Preflight \cup {"idle", "guard", "dryRun"} => ~plan[p].dryRun
    /\ pc[p] \notin {"idle", "guard", "inspect"} => plan[p].fixBak \/ plan[p].resetState
    /\ pc[p] \in {"preserve", "renameBak"} => plan[p].fixBak
    /\ pc[p] \in {"resetState", "resetRefCount"} => plan[p].resetState

\* What a repair remembers of its mutations.
MutationInv(p) ==
    /\ pc[p] \in Early \cup {"idle", "guard"} => mutation[p] = NoMutation
    /\ pc[p] \in {"idle", "guard"} => captured[p] = <<>>
    /\ pc[p] = "renameBak" => ~mutation[p].bakMoved
    /\ pc[p] \in Applied => (mutation[p].bakMoved <=> plan[p].fixBak)
    /\ mutation[p].bakMoved \/ mutation[p].backup # None => plan[p].fixBak
    /\ guard = p => before[p] \in Registry
    /\ errors[p] => pc[p] \in {"unrenameCanonical", "restore", "logRollbackFailed"}

LastIs(s, e) == s # <<>> /\ s[Len(s)] = e

\* RepairSuccess can be the last event of a running repair only while its rollback is under
\* way because that event could not be written.
TrailInv(p) ==
    LastIs(trail[p], "RepairSuccess") =>
        IF pc[p] = "idle" THEN result[p] # "error"
        ELSE pc[p] \in Rollback /\ cause[p] = "audit"

-----------------------------------------------------------------------------
(* Registrations, whatever logons do. *)

\* Where the key that was called n is, for the mutation m.
Place(n, m) ==
    CASE n = "canonical" -> IF m.backup # None THEN m.backup ELSE "canonical"
      [] n = "bak" -> IF m.bakMoved THEN "canonical" ELSE "bak"
      [] OTHER -> n

\* The mutation as far as the rollback has not undone it.
Standing(p) ==
    CASE pc[p] = "unrenameCanonical" -> [bakMoved |-> FALSE, backup |-> mutation[p].backup]
      [] pc[p] \in {"restore", "logFailed", "logRollbackFailed"} -> NoMutation
      [] OTHER -> mutation[p]

\* The registry r has every key of old, by its path, where the mutation m has put it.
Keeps(old, r, m) ==
    \A n \in Name : old[n] # NoKey => r[Place(n, m)] # NoKey /\ r[Place(n, m)].path = old[n].path

PlaceInv(p) ==
    guard = p =>
       /\ ~errors[p] => Keeps(before[p], registry, Standing(p))
       /\ \A i \in DOMAIN captured[p] :
             before[p][captured[p][i].name] # NoKey =>
                captured[p][i].key.path = before[p][captured[p][i].name].path
       /\ mutation[p].backup # None => before[p][mutation[p].backup] = NoKey
       /\ mutation[p].bakMoved /\ before[p]["canonical"] # NoKey => mutation[p].backup # None

-----------------------------------------------------------------------------
(* The registry without logons. *)

Preserved(old, b) ==
    IF b = None THEN old ELSE [old EXCEPT ![b] = old["canonical"], !["canonical"] = NoKey]
Moved(r, moved) ==
    IF moved THEN [r EXCEPT !["canonical"] = r["bak"], !["bak"] = NoKey] ELSE r

\* What the mutations of p made of the registry it found.
Base(p) == Moved(Preserved(before[p], mutation[p].backup), mutation[p].bakMoved)

Names(s) == {s[i].name : i \in DOMAIN s}
Waiting(s) == {s[i] : i \in DOMAIN s}

\* The names a repair of p has to capture.
Required(p) ==
    IF plan[p].fixBak
    THEN {"bak"} \cup (IF before[p]["canonical"] # NoKey THEN {"canonical"} ELSE {})
    ELSE {"canonical"}

\* Going forward the registry is known exactly.
ForwardInv(p) ==
    /\ pc[p] \in Early \cup {"renameBak", "resetState"} => registry = Base(p)
    /\ pc[p] = "resetRefCount" => registry = [Base(p) EXCEPT !["canonical"].state = 0]
    /\ pc[p] \in {"verify", "logSuccess"} =>
          registry = IF plan[p].resetState
                     THEN [Base(p) EXCEPT !["canonical"].state = 0, !["canonical"].refCount = 0]
                     ELSE Base(p)
    /\ pc[p] \in Applied \cup {"renameBak"} /\ plan[p].fixBak =>
          (mutation[p].backup = None <=> before[p]["canonical"] = NoKey)

\* The snapshots are of the keys as p found them, and none is missing.
CapturedInv(p) ==
    /\ \A i \in DOMAIN captured[p] : captured[p][i].key = before[p][captured[p][i].name]
    /\ pc[p] = "snapshot" => Required(p) \subseteq Names(captured[p]) \cup Waiting(todo[p])
    /\ pc[p] \in Applied \cup {"openParent", "preserve", "renameBak", "unrenameBak",
                              "unrenameCanonical"} =>
          Required(p) \subseteq Names(captured[p])

\* Rolling back, every name is as p found it or still has to be restored.
BackwardInv(p) ==
    /\ pc[p] \in {"unrenameBak", "unrenameCanonical"} =>
          /\ \A n \in Backup : registry[n] = Preserved(before[p], mutation[p].backup)[n]
          /\ mutation[p].backup # None => before[p]["canonical"] # NoKey
          /\ ~plan[p].fixBak => registry["bak"] = before[p]["bak"]
          /\ before[p]["canonical"] = NoKey /\ plan[p].fixBak =>
                registry["canonical"] = NoKey \/ (pc[p] = "unrenameBak" /\ mutation[p].bakMoved)
    /\ pc[p] = "restore" =>
          \A n \in Name : registry[n] = before[p][n] \/ n \in Names(captured[p])
    /\ pc[p] = "logFailed" => registry = before[p]

ExactInv(p) ==
    guard = p /\ Undisturbed =>
        ForwardInv(p) /\ CapturedInv(p) /\ (~errors[p] => BackwardInv(p))

ProcInv(p) == PlanInv(p) /\ MutationInv(p) /\ TrailInv(p) /\ PlaceInv(p) /\ ExactInv(p)

RepairInv == TypeOK /\ \A p \in Proc : ProcInv(p)

\* The steps of one process.
Step(p) ==
    \/ Begin(p) \/ AcquireGuard(p) \/ InspectLocks(p) \/ InspectionRefuses(p)
    \/ ValidatePlan(p) \/ LogDryRun(p)
    \/ ChooseSnapshots(p) \/ TakeSnapshot(p) \/ LogStarted(p) \/ OpenParent(p)
    \/ PreserveCanonical(p) \/ RenameBak(p) \/ ResetValue(p) \/ Verify(p)
    \/ LogSuccess(p)
    \/ UnrenameBak(p) \/ UnrenameCanonical(p) \/ RestoreSnapshot(p) \/ LogSummary(p)
    \/ LogFailure(p)
    \/ Refuse(p) \/ EarlyFault(p) \/ EarlyAuditFault(p) \/ StepFails(p)
    \/ SuccessAuditFails(p) \/ Crash(p)
-----------------------------------------------------------------------------
(* Types. *)

\* A key is never the absence of one, and a blank key is a key.
LEMMA Keys == NoKey \notin Key /\ BlankKey \in Key
BY DEF NoKey, Key, BlankKey, Mask

\* Changing values of a key, renaming and restoring keep the registry's type.
LEMMA RegistryTypes ==
    ASSUME registry \in Registry
    PROVE  /\ \A m, n \in Name : Renamed(m, n) \in Registry
           /\ \A n \in Name, k \in Key : [registry EXCEPT ![n] = k] \in Registry
           /\ Exists("canonical") => /\ [registry EXCEPT !["canonical"].state = 0] \in Registry
                                     /\ [registry EXCEPT !["canonical"].refCount = 0] \in Registry
                                     /\ [registry EXCEPT !["canonical"].refCount = 1] \in Registry
<1>1. "canonical" \in Name
    BY DEF Name
<1>2. ASSUME Exists("canonical")
      PROVE  /\ [registry["canonical"] EXCEPT !.state = 0] \in Key
             /\ [registry["canonical"] EXCEPT !.refCount = 0] \in Key
             /\ [registry["canonical"] EXCEPT !.refCount = 1] \in Key
  <2>1. registry["canonical"] \in Key
      BY <1>1, <1>2 DEF Registry, Exists
  <2> QED BY <2>1 DEF Key, Mask
<1> QED BY <1>1, <1>2 DEF Registry, Renamed

\* The budget only shrinks; only a logon spends the logons.
LEMMA SpendType ==
    ASSUME TypeOK, NEW kind \in {"fault", "crash", "logon", "repair"}, Spend(kind)
    PROVE  /\ left' \in [fault : 0..MaxFaults, crash : 0..MaxCrashes, logon : 0..MaxLogons,
                         repair : 0..MaxRepairs]
           /\ kind # "logon" => left'.logon = left.logon
           /\ kind = "logon" => left'.logon < MaxLogons
<1>1. /\ left \in [fault : 0..MaxFaults, crash : 0..MaxCrashes, logon : 0..MaxLogons,
                   repair : 0..MaxRepairs]
      /\ left[kind] > 0 /\ left' = [left EXCEPT ![kind] = @ - 1]
    BY DEF TypeOK, Spend
<1>2. CASE kind = "fault"
    BY <1>1, <1>2, RepairConstants
<1>3. CASE kind = "crash"
    BY <1>1, <1>3, RepairConstants
<1>4. CASE kind = "logon"
    BY <1>1, <1>4, RepairConstants
<1>5. CASE kind = "repair"
    BY <1>1, <1>5, RepairConstants
<1> QED BY <1>2, <1>3, <1>4, <1>5

\* Recording an event.
LEMMA RecordType ==
    ASSUME TypeOK, NEW p \in Proc, NEW e \in Event, Record(p, e)
    PROVE  trail' \in [Proc -> Seq(Event)]
<1>1. Append(trail[p], e) \in Seq(Event)
    BY AppendProperties DEF TypeOK
<1> QED BY <1>1 DEF Record, TypeOK

\* A journal write that fails.
LEMMA AuditFailsType ==
    ASSUME TypeOK, NEW p \in Proc, NEW e \in Event, AuditFails(p, e)
    PROVE  /\ trail' \in [Proc -> Seq(Event)] /\ auditLost' \in [Proc -> BOOLEAN]
           /\ left' \in [fault : 0..MaxFaults, crash : 0..MaxCrashes, logon : 0..MaxLogons,
                         repair : 0..MaxRepairs]
           /\ left'.logon = left.logon
<1>1. trail' \in [Proc -> Seq(Event)]
    BY RecordType DEF AuditFails, TypeOK
<1>2. auditLost' \in [Proc -> BOOLEAN]
    BY DEF AuditFails, TypeOK
<1>3. Spend("fault")
    BY DEF AuditFails
<1> QED BY <1>1, <1>2, <1>3, SpendType

\* What execute_plan leaves behind when it returns.
LEMMA LeaveType ==
    ASSUME TypeOK, NEW p \in Proc, NEW r \in {"ok", "error", "rollbackError", "crashed"},
           Leave(p, r)
    PROVE  /\ guard' \in Proc \cup {None} /\ pc' \in [Proc -> Labels]
           /\ plan' \in [Proc -> Plan \cup {None}] /\ captured' \in [Proc -> Seq(Snapshot)]
           /\ todo' \in [Proc -> Seq({"canonical", "bak"})]
           /\ mutation' \in [Proc -> [bakMoved : BOOLEAN, backup : Backup \cup {None}]]
           /\ cause' \in [Proc -> {None, "execution", "audit"}] /\ errors' \in [Proc -> BOOLEAN]
           /\ result' \in [Proc -> {None, "ok", "error", "rollbackError", "crashed"}]
           /\ before' \in [Proc -> [Name -> Key \cup {NoKey}] \cup {None}]
<1>1. /\ guard' \in Proc \cup {None} /\ pc' \in [Proc -> Labels]
      /\ plan' \in [Proc -> Plan \cup {None}]
    BY DEF TypeOK, Leave, Goto, Labels
<1>2. captured' \in [Proc -> Seq(Snapshot)] /\ todo' \in [Proc -> Seq({"canonical", "bak"})]
    BY EmptySeq DEF TypeOK, Leave
<1>3. mutation' \in [Proc -> [bakMoved : BOOLEAN, backup : Backup \cup {None}]]
    BY DEF TypeOK, Leave, NoMutation
<1>4. /\ cause' \in [Proc -> {None, "execution", "audit"}] /\ errors' \in [Proc -> BOOLEAN]
      /\ result' \in [Proc -> {None, "ok", "error", "rollbackError", "crashed"}]
      /\ before' \in [Proc -> [Name -> Key \cup {NoKey}] \cup {None}]
    BY DEF TypeOK, Leave
<1> QED BY <1>1, <1>2, <1>3, <1>4

\* A return that changes nothing but the journal and the budget.
LEMMA ReturnType ==
    ASSUME TypeOK, NEW p \in Proc, NEW r \in {"ok", "error", "rollbackError", "crashed"},
           Leave(p, r), UNCHANGED <<registry, loaded>>,
           trail' \in [Proc -> Seq(Event)], auditLost' \in [Proc -> BOOLEAN],
           left' \in [fault : 0..MaxFaults, crash : 0..MaxCrashes, logon : 0..MaxLogons,
                      repair : 0..MaxRepairs]
    PROVE  TypeOK'
<1>1. registry' \in [Name -> Key \cup {NoKey}] /\ loaded' \in BOOLEAN
    BY DEF TypeOK
<1>2. /\ guard' \in Proc \cup {None} /\ pc' \in [Proc -> Labels]
      /\ plan' \in [Proc -> Plan \cup {None}] /\ captured' \in [Proc -> Seq(Snapshot)]
      /\ todo' \in [Proc -> Seq({"canonical", "bak"})]
      /\ mutation' \in [Proc -> [bakMoved : BOOLEAN, backup : Backup \cup {None}]]
      /\ cause' \in [Proc -> {None, "execution", "audit"}] /\ errors' \in [Proc -> BOOLEAN]
      /\ result' \in [Proc -> {None, "ok", "error", "rollbackError", "crashed"}]
      /\ before' \in [Proc -> [Name -> Key \cup {NoKey}] \cup {None}]
    BY LeaveType
<1> QED BY <1>1, <1>2 DEF TypeOK

\* The steps that return.
LEMMA ReturnStepsType ==
    ASSUME TypeOK, NEW p \in Proc,
           \/ InspectionRefuses(p) \/ LogDryRun(p) \/ LogSuccess(p) \/ LogFailure(p) \/ Refuse(p)
           \/ EarlyFault(p) \/ EarlyAuditFault(p) \/ Crash(p)
    PROVE  TypeOK'
<1>1. /\ trail \in [Proc -> Seq(Event)] /\ auditLost \in [Proc -> BOOLEAN]
      /\ left \in [fault : 0..MaxFaults, crash : 0..MaxCrashes, logon : 0..MaxLogons,
                   repair : 0..MaxRepairs]
    BY DEF TypeOK
<1>2. CASE InspectionRefuses(p) \/ Refuse(p)
    BY <1>1, <1>2, ReturnType DEF InspectionRefuses, Refuse
<1>3. CASE LogDryRun(p) \/ LogSuccess(p)
    BY <1>1, <1>3, ReturnType, RecordType DEF LogDryRun, LogSuccess, Event
<1>4. CASE LogFailure(p)
  <2>1. PICK e \in Event : (Record(p, e) /\ UNCHANGED <<auditLost, left>>) \/ AuditFails(p, e)
      BY <1>4 DEF LogFailure, Event
  <2> QED BY <1>1, <1>4, <2>1, ReturnType, RecordType, AuditFailsType DEF LogFailure
<1>5. CASE EarlyFault(p) \/ Crash(p)
    BY <1>1, <1>5, ReturnType, SpendType DEF EarlyFault, Crash
<1>6. CASE EarlyAuditFault(p)
    BY <1>6, ReturnType, AuditFailsType DEF EarlyAuditFault, Event
<1> QED BY <1>2, <1>3, <1>4, <1>5, <1>6

\* Every variable keeps its type.
LEMMA TypeStep == ASSUME TypeOK, \A p \in Proc : PlanInv(p), Next PROVE TypeOK'
<1>1. ASSUME NEW p \in Proc, Begin(p) PROVE TypeOK'
  <2>1. PICK s \in Plan : plan' = [plan EXCEPT ![p] = s]
                          /\ Goto(p, IF s.dryRun THEN "inspect" ELSE "guard")
      BY <1>1 DEF Begin
  <2>2. left' \in [fault : 0..MaxFaults, crash : 0..MaxCrashes, logon : 0..MaxLogons,
                   repair : 0..MaxRepairs]
      BY <1>1, SpendType DEF Begin
  <2>3. plan' \in [Proc -> Plan \cup {None}] /\ pc' \in [Proc -> Labels]
      BY <2>1 DEF TypeOK, Goto, Labels
  <2>4. trail' \in [Proc -> Seq(Event)]
      BY <1>1, EmptySeq DEF Begin, TypeOK
  <2> QED BY <1>1, <2>2, <2>3, <2>4 DEF Begin, TypeOK
<1>2. ASSUME NEW p \in Proc,
             \/ AcquireGuard(p) \/ InspectLocks(p) \/ ValidatePlan(p) \/ OpenParent(p) \/ Verify(p)
      PROVE  TypeOK'
  <2>1. pc' \in [Proc -> Labels] /\ guard' \in Proc \cup {None}
      BY <1>2 DEF AcquireGuard, InspectLocks, ValidatePlan, OpenParent, Verify, TypeOK, Goto, Labels
  <2>2. before' \in [Proc -> [Name -> Key \cup {NoKey}] \cup {None}]
      BY <1>2 DEF AcquireGuard, InspectLocks, ValidatePlan, OpenParent, Verify, TypeOK, locals
  <2>3. UNCHANGED <<registry, loaded, plan, cause, captured, todo, mutation, errors, auditLost,
                    trail, result, left>>
      BY <1>2 DEF AcquireGuard, InspectLocks, ValidatePlan, OpenParent, Verify, locals
  <2> QED BY <2>1, <2>2, <2>3 DEF TypeOK
<1>3. ASSUME NEW p \in Proc, ChooseSnapshots(p) PROVE TypeOK'
  <2>1. RequiredSnapshots(p) \in Seq({"canonical", "bak"})
    <3>1. /\ <<"bak", "canonical">> \in Seq({"canonical", "bak"})
          /\ <<"bak">> \in Seq({"canonical", "bak"})
          /\ <<"canonical">> \in Seq({"canonical", "bak"})
        OBVIOUS
    <3> QED BY <3>1 DEF RequiredSnapshots
  <2> QED BY <1>3, <2>1 DEF ChooseSnapshots, TypeOK, Goto, Labels
<1>4. ASSUME NEW p \in Proc, TakeSnapshot(p) PROVE TypeOK'
  <2>1. /\ todo[p] \in Seq({"canonical", "bak"}) /\ todo[p] # <<>>
        /\ captured[p] \in Seq(Snapshot)
      BY <1>4 DEF TakeSnapshot, TypeOK
  <2>2. Head(todo[p]) \in {"canonical", "bak"} /\ Tail(todo[p]) \in Seq({"canonical", "bak"})
      BY <2>1, HeadTailProperties
  <2>3. registry[Head(todo[p])] \in Key
      BY <1>4, <2>2 DEF TakeSnapshot, Exists, TypeOK, Name
  <2>4. [name |-> Head(todo[p]), key |-> registry[Head(todo[p])]] \in Snapshot
      BY <2>2, <2>3 DEF Snapshot
  <2>5. Append(captured[p], [name |-> Head(todo[p]), key |-> registry[Head(todo[p])]])
           \in Seq(Snapshot)
      BY <2>1, <2>4, AppendProperties
  <2> QED BY <1>4, <2>2, <2>5 DEF TakeSnapshot, TypeOK
<1>5. ASSUME NEW p \in Proc, LogStarted(p) PROVE TypeOK'
  <2>1. trail' \in [Proc -> Seq(Event)]
      BY <1>5, RecordType DEF LogStarted, Event
  <2> QED BY <1>5, <2>1 DEF LogStarted, TypeOK, Goto, Labels, locals
<1>a. registry \in Registry
    BY DEF TypeOK, Registry
<1>b. {"canonical", "bak"} \subseteq Name /\ Backup \subseteq Name
    BY DEF Name
<1>6. ASSUME NEW p \in Proc, PreserveCanonical(p) PROVE TypeOK'
  <2>1. registry' \in Registry
      BY <1>6, <1>a, <1>b, RegistryTypes DEF PreserveCanonical
  <2>2. mutation' \in [Proc -> [bakMoved : BOOLEAN, backup : Backup \cup {None}]]
    <3>1. ASSUME NEW b \in Backup
          PROVE  [mutation EXCEPT ![p].backup = b]
                    \in [Proc -> [bakMoved : BOOLEAN, backup : Backup \cup {None}]]
      <4>1. mutation[p] \in [bakMoved : BOOLEAN, backup : Backup \cup {None}]
          BY DEF TypeOK
      <4>2. [mutation[p] EXCEPT !.backup = b] \in [bakMoved : BOOLEAN, backup : Backup \cup {None}]
          BY <4>1
      <4> QED BY <4>2 DEF TypeOK
    <3>2. CASE UNCHANGED mutation
        BY <3>2 DEF TypeOK
    <3>3. CASE \E b \in Backup : mutation' = [mutation EXCEPT ![p].backup = b]
        BY <3>1, <3>3
    <3> QED BY <1>6, <3>2, <3>3 DEF PreserveCanonical
  <2> QED BY <1>6, <2>1, <2>2 DEF PreserveCanonical, TypeOK, Goto, Labels, Registry
<1>7. ASSUME NEW p \in Proc, RenameBak(p) PROVE TypeOK'
  <2>1. registry' \in Registry
      BY <1>7, <1>a, <1>b, RegistryTypes DEF RenameBak
  <2>2. mutation' \in [Proc -> [bakMoved : BOOLEAN, backup : Backup \cup {None}]]
      BY <1>7, ZenonT(60) DEF RenameBak, TypeOK
  <2> QED BY <1>7, <2>1, <2>2 DEF RenameBak, TypeOK, Goto, Labels, Registry
<1>8. ASSUME NEW p \in Proc, ResetValue(p) PROVE TypeOK'
  <2>1. registry' \in Registry
      BY <1>8, <1>a, RegistryTypes DEF ResetValue
  <2> QED BY <1>8, <2>1 DEF ResetValue, TypeOK, Goto, Labels, Registry, locals
<1>9. ASSUME NEW p \in Proc, UnrenameBak(p) PROVE TypeOK'
  <2>1. registry' \in Registry
      BY <1>9, <1>a, <1>b, RegistryTypes DEF UnrenameBak
  <2>2. left' \in [fault : 0..MaxFaults, crash : 0..MaxCrashes, logon : 0..MaxLogons,
                   repair : 0..MaxRepairs]
      BY <1>9, SpendType DEF UnrenameBak, TypeOK
  <2>3. errors' \in [Proc -> BOOLEAN]
      BY <1>9 DEF UnrenameBak, Failing, TypeOK
  <2> QED BY <1>9, <2>1, <2>2, <2>3 DEF UnrenameBak, TypeOK, Goto, Labels, Registry
<1>10. ASSUME NEW p \in Proc, UnrenameCanonical(p) PROVE TypeOK'
  <2>1. mutation[p].backup # None => mutation[p].backup \in Name
      BY <1>b DEF TypeOK
  <2>2. registry' \in Registry
      BY <1>10, <1>a, <1>b, <2>1, RegistryTypes DEF UnrenameCanonical
  <2>3. left' \in [fault : 0..MaxFaults, crash : 0..MaxCrashes, logon : 0..MaxLogons,
                   repair : 0..MaxRepairs]
      BY <1>10, SpendType DEF UnrenameCanonical, TypeOK
  <2>4. errors' \in [Proc -> BOOLEAN]
      BY <1>10 DEF UnrenameCanonical, Failing, TypeOK
  <2> QED BY <1>10, <2>2, <2>3, <2>4 DEF UnrenameCanonical, TypeOK, Goto, Labels, Registry
<1>11. ASSUME NEW p \in Proc, RestoreSnapshot(p) PROVE TypeOK'
  <2>1. captured[p] \in Seq(Snapshot) /\ captured[p] # <<>>
      BY <1>11 DEF RestoreSnapshot, TypeOK
  <2>2. Head(captured[p]) \in Snapshot /\ Tail(captured[p]) \in Seq(Snapshot)
      BY <2>1, HeadTailProperties
  <2>3. Head(captured[p]).name \in Name /\ Head(captured[p]).key \in Key
      BY <2>2, <1>b DEF Snapshot
  <2>4. registry' \in Registry
      BY <1>11, <1>a, <2>3, RegistryTypes, Keys DEF RestoreSnapshot
  <2>5. left' \in [fault : 0..MaxFaults, crash : 0..MaxCrashes, logon : 0..MaxLogons,
                   repair : 0..MaxRepairs]
      BY <1>11, SpendType DEF RestoreSnapshot, TypeOK
  <2>6. errors' \in [Proc -> BOOLEAN]
      BY <1>11 DEF RestoreSnapshot, Failing, TypeOK
  <2>7. captured' \in [Proc -> Seq(Snapshot)]
      BY <1>11, <2>2 DEF RestoreSnapshot, TypeOK
  <2> QED BY <1>11, <2>4, <2>5, <2>6, <2>7 DEF RestoreSnapshot, TypeOK, Registry
<1>12. ASSUME NEW p \in Proc, LogSummary(p) PROVE TypeOK'
  <2>1. SummaryEvent(p) \in Event
      BY DEF SummaryEvent, Event
  <2>2. /\ trail' \in [Proc -> Seq(Event)] /\ auditLost' \in [Proc -> BOOLEAN]
        /\ left' \in [fault : 0..MaxFaults, crash : 0..MaxCrashes, logon : 0..MaxLogons,
                      repair : 0..MaxRepairs]
      BY <1>12, <2>1, RecordType, AuditFailsType DEF LogSummary, TypeOK
  <2>3. PICK f \in BOOLEAN : AfterRollback(p, f)
      BY <1>12 DEF LogSummary, TypeOK
  <2>4. UNCHANGED <<registry, loaded>>
      BY <1>12 DEF LogSummary
  <2>5. CASE cause[p] = "audit"
      BY <2>2, <2>3, <2>4, <2>5, ReturnType DEF AfterRollback
  <2>6. CASE cause[p] # "audit"
      BY <2>2, <2>3, <2>4, <2>6, ZenonT(60) DEF AfterRollback, TypeOK, Goto, Labels
  <2> QED BY <2>5, <2>6
<1>13. ASSUME NEW p \in Proc, StepFails(p) PROVE TypeOK'
  <2>1. left' \in [fault : 0..MaxFaults, crash : 0..MaxCrashes, logon : 0..MaxLogons,
                   repair : 0..MaxRepairs]
      BY <1>13, SpendType DEF StepFails, TypeOK
  <2> QED BY <1>13, <2>1 DEF StepFails, TypeOK, Goto, Labels
<1>14. ASSUME NEW p \in Proc, SuccessAuditFails(p) PROVE TypeOK'
  <2>1. /\ trail' \in [Proc -> Seq(Event)] /\ auditLost' \in [Proc -> BOOLEAN]
        /\ left' \in [fault : 0..MaxFaults, crash : 0..MaxCrashes, logon : 0..MaxLogons,
                      repair : 0..MaxRepairs]
      BY <1>14, AuditFailsType DEF SuccessAuditFails, Event
  <2> QED BY <1>14, <2>1 DEF SuccessAuditFails, TypeOK, Goto, Labels
<1>15. CASE Logon
  <2>1. \A f \in Path : [path |-> f, state |-> 1, refCount |-> 1] \in Key
      BY DEF Key, Mask
  <2>2. registry' \in Registry
      BY <1>15, <1>a, <1>b, <2>1, RegistryTypes, ZenonT(60) DEF Logon
  <2>3. left' \in [fault : 0..MaxFaults, crash : 0..MaxCrashes, logon : 0..MaxLogons,
                   repair : 0..MaxRepairs]
      BY <1>15, SpendType DEF Logon
  <2> QED BY <1>15, <2>2, <2>3 DEF Logon, TypeOK, locals, Registry
<1>16. CASE Logoff
    BY <1>16 DEF Logoff, TypeOK, locals
<1> QED BY <1>1, <1>2, <1>3, <1>4, <1>5, <1>6, <1>7, <1>8, <1>9, <1>10, <1>11, <1>12, <1>13,
    <1>14, <1>15, <1>16, ReturnStepsType DEF Next
-----------------------------------------------------------------------------
(* The other processes. *)

\* Only the holder of the guard changes the registry, and a step of p leaves the locals of
\* every other process alone.
LEMMA OthersKeep ==
    ASSUME TypeOK, NEW p \in Proc, PlanInv(p), Step(p), NEW q \in Proc, q # p
    PROVE  /\ pc'[q] = pc[q] /\ plan'[q] = plan[q] /\ captured'[q] = captured[q]
           /\ todo'[q] = todo[q] /\ mutation'[q] = mutation[q] /\ cause'[q] = cause[q]
           /\ errors'[q] = errors[q] /\ trail'[q] = trail[q] /\ result'[q] = result[q]
           /\ before'[q] = before[q]
           /\ guard' = q <=> guard = q
           /\ guard = q => registry' = registry
           /\ left'.logon = left.logon
<1>1. ASSUME NEW kind \in {"fault", "crash", "repair"}, Spend(kind) PROVE left'.logon = left.logon
    BY <1>1, SpendType
<1>2. ASSUME NEW e, AuditFails(p, e) PROVE left'.logon = left.logon /\ trail'[q] = trail[q]
    BY <1>1, <1>2 DEF AuditFails, Record, TypeOK
<1>3. ASSUME NEW r, Leave(p, r)
      PROVE  /\ pc'[q] = pc[q] /\ plan'[q] = plan[q] /\ captured'[q] = captured[q]
             /\ todo'[q] = todo[q] /\ mutation'[q] = mutation[q] /\ cause'[q] = cause[q]
             /\ errors'[q] = errors[q] /\ result'[q] = result[q] /\ before'[q] = before[q]
             /\ guard' = q <=> guard = q
    BY <1>3, RepairConstants DEF Leave, Goto, TypeOK
<1>4. CASE Begin(p)
  <2>1. plan'[q] = plan[q] /\ pc'[q] = pc[q]
      BY <1>4 DEF Begin, Goto, TypeOK
  <2>2. left'.logon = left.logon
      BY <1>4, <1>1 DEF Begin
  <2> QED BY <1>4, <2>1, <2>2 DEF Begin, TypeOK
<1>5. CASE AcquireGuard(p)
    BY <1>5, RepairConstants DEF AcquireGuard, Goto, TypeOK
<1>6. CASE InspectLocks(p) \/ ValidatePlan(p) \/ OpenParent(p) \/ Verify(p)
    BY <1>6 DEF InspectLocks, ValidatePlan, OpenParent, Verify, Goto, TypeOK, locals
<1>7. CASE ChooseSnapshots(p) \/ TakeSnapshot(p) \/ LogStarted(p)
    BY <1>7 DEF ChooseSnapshots, TakeSnapshot, LogStarted, Goto, Record, TypeOK, locals
<1>8. CASE \/ PreserveCanonical(p) \/ RenameBak(p) \/ ResetValue(p) \/ UnrenameBak(p)
           \/ UnrenameCanonical(p) \/ RestoreSnapshot(p)
  <2>1. guard = p
      BY <1>8 DEF PreserveCanonical, RenameBak, ResetValue, UnrenameBak, UnrenameCanonical,
                  RestoreSnapshot, PlanInv, Preflight
  <2>2. mutation'[q] = mutation[q]
      BY <1>8 DEF PreserveCanonical, RenameBak, ResetValue, UnrenameBak, UnrenameCanonical,
                  RestoreSnapshot, TypeOK, locals
  <2>3. left'.logon = left.logon /\ errors'[q] = errors[q]
      BY <1>8, <1>1 DEF PreserveCanonical, RenameBak, ResetValue, UnrenameBak, UnrenameCanonical,
                        RestoreSnapshot, Failing, TypeOK, locals
  <2>4. pc'[q] = pc[q] /\ captured'[q] = captured[q]
      BY <1>8 DEF PreserveCanonical, RenameBak, ResetValue, UnrenameBak, UnrenameCanonical,
                  RestoreSnapshot, Goto, TypeOK, locals
  <2>5. UNCHANGED <<guard, plan, todo, cause, trail, result, before>>
      BY <1>8 DEF PreserveCanonical, RenameBak, ResetValue, UnrenameBak, UnrenameCanonical,
                  RestoreSnapshot, locals
  <2> QED BY <2>1, <2>2, <2>3, <2>4, <2>5
<1>9. CASE LogSummary(p)
  <2>1. left'.logon = left.logon /\ trail'[q] = trail[q] /\ UNCHANGED registry
      BY <1>9, <1>2 DEF LogSummary, Record, TypeOK
  <2>2. PICK f \in BOOLEAN : AfterRollback(p, f)
      BY <1>9 DEF LogSummary, TypeOK
  <2>3. CASE cause[p] = "audit"
      BY <1>3, <2>1, <2>2, <2>3 DEF AfterRollback
  <2>4. CASE cause[p] # "audit"
      BY <2>1, <2>2, <2>4 DEF AfterRollback, Goto, TypeOK
  <2> QED BY <2>3, <2>4
<1>10. CASE StepFails(p)
  <2>1. left'.logon = left.logon
      BY <1>10, <1>1 DEF StepFails
  <2> QED BY <1>10, <2>1 DEF StepFails, Goto, TypeOK
<1>11. CASE SuccessAuditFails(p)
    BY <1>11, <1>2 DEF SuccessAuditFails, Goto, TypeOK
<1>12. CASE InspectionRefuses(p) \/ Refuse(p)
    BY <1>12, <1>3 DEF InspectionRefuses, Refuse
<1>13. CASE LogDryRun(p) \/ LogSuccess(p)
    BY <1>13, <1>3 DEF LogDryRun, LogSuccess, Record, TypeOK
<1>14. CASE EarlyFault(p) \/ Crash(p)
    BY <1>14, <1>1, <1>3 DEF EarlyFault, Crash
<1>15. CASE EarlyAuditFault(p)
    BY <1>15, <1>2, <1>3 DEF EarlyAuditFault
<1>16. CASE LogFailure(p)
  <2>1. left'.logon = left.logon /\ trail'[q] = trail[q] /\ UNCHANGED registry
      BY <1>16, <1>2 DEF LogFailure, Record, TypeOK
  <2>2. PICK r : Leave(p, r)
      BY <1>16 DEF LogFailure
  <2> QED BY <1>3, <2>1, <2>2
<1> QED BY <1>4, <1>5, <1>6, <1>7, <1>8, <1>9, <1>10, <1>11, <1>12, <1>13, <1>14, <1>15, <1>16
        DEF Step

\* The invariant of a process is about its locals, the guard, and the registry while it holds
\* the guard.
LEMMA OthersInv ==
    ASSUME RepairInv, NEW p \in Proc, Step(p), NEW q \in Proc, q # p
    PROVE  ProcInv(q)'
<1>1. /\ pc'[q] = pc[q] /\ plan'[q] = plan[q] /\ captured'[q] = captured[q]
      /\ todo'[q] = todo[q] /\ mutation'[q] = mutation[q] /\ cause'[q] = cause[q]
      /\ errors'[q] = errors[q] /\ trail'[q] = trail[q] /\ result'[q] = result[q]
      /\ before'[q] = before[q]
      /\ guard' = q <=> guard = q
      /\ guard = q => registry' = registry
      /\ left'.logon = left.logon
    BY OthersKeep DEF RepairInv, ProcInv
<1>2. ProcInv(q)
    BY DEF RepairInv
<1>3. PlanInv(q)' /\ MutationInv(q)' /\ TrailInv(q)'
    BY <1>1, <1>2 DEF ProcInv, PlanInv, MutationInv, TrailInv, LastIs
<1>4. PlaceInv(q)'
    BY <1>1, <1>2, ZenonT(60) DEF ProcInv, PlaceInv, Keeps, Standing
<1>5. ExactInv(q)'
  <2>1. SUFFICES ASSUME guard' = q, Undisturbed' PROVE (ForwardInv(q) /\ CapturedInv(q) /\ (~errors[q] => BackwardInv(q)))'
      BY DEF ExactInv
  <2>2. ForwardInv(q) /\ CapturedInv(q) /\ (~errors[q] => BackwardInv(q)) /\ registry' = registry
      BY <1>1, <1>2, <2>1 DEF ProcInv, ExactInv, Undisturbed
  <2>3. Base(q)' = Base(q) /\ Required(q)' = Required(q)
      BY <1>1 DEF Base, Required
  <2>4. ForwardInv(q)'
      BY <1>1, <2>2, <2>3 DEF ForwardInv
  <2>5. CapturedInv(q)'
      BY <1>1, <2>2, <2>3 DEF CapturedInv
  <2>6. (~errors[q] => BackwardInv(q))'
      BY <1>1, <2>2 DEF BackwardInv
  <2> QED BY <2>4, <2>5, <2>6
<1> QED BY <1>3, <1>4, <1>5 DEF ProcInv
-----------------------------------------------------------------------------
(* The process that takes the step: returns. *)

\* A repair that has returned holds nothing; what it returned must agree with its last event.
LEMMA LeaveInv ==
    ASSUME TypeOK, NEW p \in Proc, NEW r, Leave(p, r),
           LastIs(trail'[p], "RepairSuccess") => r # "error"
    PROVE  ProcInv(p)'
<1>1. /\ pc'[p] = "idle" /\ result'[p] = r /\ guard' # p /\ mutation'[p] = NoMutation
      /\ errors'[p] = FALSE /\ captured'[p] = <<>>
    BY RepairConstants DEF Leave, Goto, TypeOK
<1>2. PlanInv(p)' /\ MutationInv(p)' /\ TrailInv(p)'
    BY <1>1 DEF PlanInv, MutationInv, TrailInv, NoMutation, Preflight, Early, Applied, Rollback
<1>3. PlaceInv(p)' /\ ExactInv(p)'
    BY <1>1 DEF PlaceInv, ExactInv
<1> QED BY <1>2, <1>3 DEF ProcInv

\* The last event after one more is that event.
LEMMA LastRecorded ==
    ASSUME TypeOK, NEW p \in Proc, NEW e \in Event, Record(p, e), e # "RepairSuccess"
    PROVE  ~LastIs(trail'[p], "RepairSuccess")
<1>1. trail'[p] = Append(trail[p], e) /\ trail[p] \in Seq(Event)
    BY DEF Record, TypeOK
<1>2. /\ Len(Append(trail[p], e)) = Len(trail[p]) + 1
      /\ Append(trail[p], e)[Len(trail[p]) + 1] = e
    BY <1>1, AppendProperties
<1> QED BY <1>1, <1>2 DEF LastIs

\* A failed write leaves the last event as it was, or appends another.
LEMMA LastAfterFault ==
    ASSUME TypeOK, NEW p \in Proc, NEW e \in Event, AuditFails(p, e), e # "RepairSuccess",
           LastIs(trail'[p], "RepairSuccess")
    PROVE  LastIs(trail[p], "RepairSuccess")
BY LastRecorded DEF AuditFails

\* The steps that return.
LEMMA ReturnStepsInv ==
    ASSUME TypeOK, NEW p \in Proc, ProcInv(p),
           \/ InspectionRefuses(p) \/ LogDryRun(p) \/ LogSuccess(p) \/ LogFailure(p) \/ Refuse(p)
           \/ EarlyFault(p) \/ EarlyAuditFault(p) \/ Crash(p)
    PROVE  ProcInv(p)'
<1>1. TrailInv(p)
    BY DEF ProcInv
<1>2. CASE InspectionRefuses(p) \/ Refuse(p) \/ EarlyFault(p)
  <2>1. trail' = trail /\ pc[p] \notin Rollback \cup {"idle"} /\ Leave(p, "error")
      BY <1>2 DEF InspectionRefuses, Refuse, EarlyFault, Rollback
  <2> QED BY <1>1, <2>1, LeaveInv DEF TrailInv
<1>3. CASE LogDryRun(p) \/ LogSuccess(p)
    BY <1>3, LeaveInv DEF LogDryRun, LogSuccess
<1>4. CASE LogFailure(p)
  <2>1. PICK e \in Event : /\ Record(p, e) \/ AuditFails(p, e)
                           /\ e # "RepairSuccess"
      BY <1>4 DEF LogFailure, Event
  <2>2. pc[p] \notin Rollback \cup {"idle"}
      BY <1>4 DEF LogFailure, Rollback
  <2>3. ~LastIs(trail'[p], "RepairSuccess")
      BY <1>1, <2>1, <2>2, LastRecorded, LastAfterFault DEF TrailInv
  <2> QED BY <1>4, <2>3, LeaveInv DEF LogFailure
<1>5. CASE EarlyAuditFault(p)
  <2>1. PICK e \in Event : AuditFails(p, e) /\ e # "RepairSuccess"
      BY <1>5 DEF EarlyAuditFault, Event
  <2>2. pc[p] \notin Rollback \cup {"idle"}
      BY <1>5 DEF EarlyAuditFault, Rollback
  <2>3. ~LastIs(trail'[p], "RepairSuccess")
      BY <1>1, <2>1, <2>2, LastAfterFault DEF TrailInv
  <2> QED BY <1>5, <2>3, LeaveInv DEF EarlyAuditFault
<1>6. CASE Crash(p)
    BY <1>6, LeaveInv DEF Crash
<1> QED BY <1>2, <1>3, <1>4, <1>5, <1>6

-----------------------------------------------------------------------------
(* The process that takes the step: towards the first mutation. *)

\* A repair begins.
LEMMA BeginInv == ASSUME TypeOK, NEW p \in Proc, ProcInv(p), Begin(p) PROVE ProcInv(p)'
<1>1. PICK s \in Plan : plan'[p] = s /\ pc'[p] = IF s.dryRun THEN "inspect" ELSE "guard"
    BY DEF Begin, Goto, TypeOK
<1>2. /\ trail'[p] = <<>> /\ mutation'[p] = mutation[p] /\ errors'[p] = errors[p]
      /\ guard' = guard /\ pc[p] = "idle" /\ captured'[p] = captured[p]
    BY DEF Begin, TypeOK
<1>3. guard # p /\ mutation[p] = NoMutation /\ captured[p] = <<>> /\ ~errors[p] /\ s.dryRun \in BOOLEAN
    BY <1>1, <1>2 DEF ProcInv, PlanInv, MutationInv, Plan
<1>4. PlanInv(p)' /\ MutationInv(p)' /\ TrailInv(p)'
    BY <1>1, <1>2, <1>3
       DEF PlanInv, MutationInv, TrailInv, LastIs, NoMutation, Preflight, Early, Applied, Rollback
<1>5. PlaceInv(p)' /\ ExactInv(p)'
    BY <1>2, <1>3 DEF PlaceInv, ExactInv
<1> QED BY <1>4, <1>5 DEF ProcInv

\* The guard is acquired: the registry is what the repair finds.
LEMMA AcquireInv ==
    ASSUME TypeOK, NEW p \in Proc, ProcInv(p), AcquireGuard(p)
    PROVE  ProcInv(p)'
<1>1. /\ pc[p] = "guard" /\ pc'[p] = "inspect" /\ guard' = p /\ before'[p] = registry
      /\ UNCHANGED <<registry, plan, captured, mutation, errors, trail, cause>>
    BY DEF AcquireGuard, Goto, TypeOK
<1>2. /\ mutation[p] = NoMutation /\ ~plan[p].dryRun /\ plan[p] \in Plan
      /\ ~LastIs(trail[p], "RepairSuccess") /\ captured[p] = <<>> /\ ~errors[p]
    BY <1>1 DEF ProcInv, PlanInv, MutationInv, TrailInv, Rollback
<1>3. registry \in Registry
    BY DEF TypeOK, Registry
<1>4. PlanInv(p)' /\ MutationInv(p)' /\ TrailInv(p)'
    BY <1>1, <1>2, <1>3
       DEF PlanInv, MutationInv, TrailInv, NoMutation, Preflight, Early, Applied, Rollback
<1>5. PlaceInv(p)'
  <2>1. Standing(p)' = NoMutation
      BY <1>1, <1>2 DEF Standing
  <2>2. \A n \in Name : Place(n, NoMutation) = n
      BY DEF Place, NoMutation, Name
  <2>3. Keeps(registry, registry, NoMutation)
      BY <2>2 DEF Keeps
  <2> QED BY <1>1, <1>2, <2>1, <2>3 DEF PlaceInv, NoMutation
<1>6. ExactInv(p)'
  <2>1. Base(p)' = registry
      BY <1>1, <1>2 DEF Base, Moved, Preserved, NoMutation
  <2>2. ForwardInv(p)'
      BY <1>1, <2>1 DEF ForwardInv, Applied
  <2>3. CapturedInv(p)'
      BY <1>1, <1>2 DEF CapturedInv, Applied
  <2>4. BackwardInv(p)'
      BY <1>1 DEF BackwardInv
  <2> QED BY <2>2, <2>3, <2>4 DEF ExactInv
<1> QED BY <1>4, <1>5, <1>6 DEF ProcInv

\* Before its first mutation a repair has not moved anything.
LEMMA EarlyFacts ==
    ASSUME NEW p \in Proc, ProcInv(p), pc[p] \in Early
    PROVE  /\ mutation[p] = NoMutation /\ ~errors[p] /\ Standing(p) = NoMutation
           /\ Base(p) = before[p] /\ ~LastIs(trail[p], "RepairSuccess")
           /\ guard = p => Keeps(before[p], registry, NoMutation)
           /\ guard = p /\ Undisturbed => registry = before[p]
<1>1. mutation[p] = NoMutation /\ ~errors[p]
    BY DEF ProcInv, MutationInv, Early, Preflight
<1>2. Standing(p) = NoMutation
    BY <1>1 DEF Standing, Early, Preflight
<1>3. Base(p) = before[p]
    BY <1>1 DEF Base, Moved, Preserved, NoMutation
<1>4. ~LastIs(trail[p], "RepairSuccess")
    BY DEF ProcInv, TrailInv, Rollback, Early, Preflight
<1>5. guard = p => Keeps(before[p], registry, NoMutation)
    BY <1>1, <1>2 DEF ProcInv, PlaceInv
<1>6. guard = p /\ Undisturbed => registry = before[p]
    BY <1>3 DEF ProcInv, ExactInv, ForwardInv
<1> QED BY <1>1, <1>2, <1>3, <1>4, <1>5, <1>6

\* The steps up to the first mutation that neither return nor capture: the checks, the choice
\* of the snapshots, the start event.
LEMMA WalkInv ==
    ASSUME TypeOK, NEW p \in Proc, ProcInv(p),
           InspectLocks(p) \/ ValidatePlan(p) \/ ChooseSnapshots(p) \/ LogStarted(p) \/ OpenParent(p)
    PROVE  ProcInv(p)'
<1>1. UNCHANGED <<registry, guard, plan, captured, mutation, errors, cause, before, left>>
    BY DEF InspectLocks, ValidatePlan, ChooseSnapshots, LogStarted, OpenParent, locals
<1>2. /\ InspectLocks(p) /\ pc[p] = "inspect" =>
            pc'[p] = "validate" /\ (plan[p].fixBak \/ plan[p].resetState)
      /\ InspectLocks(p) /\ pc[p] # "inspect" =>
            pc[p] = "reinspect" /\ pc'[p] = IF plan[p].dryRun THEN "dryRun" ELSE "paths"
      /\ ValidatePlan(p) => pc[p] = "validate" /\ pc'[p] = "reinspect"
      /\ ChooseSnapshots(p) =>
            pc[p] = "paths" /\ pc'[p] = "snapshot" /\ todo'[p] = RequiredSnapshots(p)
      /\ LogStarted(p) => pc[p] = "snapshot" /\ pc'[p] = "openParent" /\ todo[p] = <<>>
      /\ OpenParent(p) => /\ pc[p] = "openParent"
                          /\ pc'[p] = IF plan[p].fixBak THEN "preserve" ELSE "resetState"
    BY DEF InspectLocks, ValidatePlan, ChooseSnapshots, LogStarted, OpenParent, Goto, TypeOK
<1>3. /\ pc[p] \in Early /\ pc'[p] \in Early \cup {"resetState"}
      /\ pc[p] # "idle" /\ plan[p] \in Plan
    BY <1>2 DEF Early, Preflight, ProcInv, PlanInv
<1>4. plan[p].fixBak \in BOOLEAN /\ plan[p].resetState \in BOOLEAN /\ plan[p].dryRun \in BOOLEAN
    BY <1>3 DEF Plan
<1>5. /\ mutation[p] = NoMutation /\ ~errors[p] /\ Standing(p) = NoMutation
      /\ Base(p) = before[p] /\ ~LastIs(trail[p], "RepairSuccess")
      /\ guard = p /\ Undisturbed => registry = before[p]
    BY <1>3, EarlyFacts
<1>6. PlanInv(p)'
  <2>1. PlanInv(p)
      BY DEF ProcInv
  <2> QED BY <1>1, <1>2, <1>4, <2>1 DEF PlanInv, Preflight
<1>7. MutationInv(p)'
  <2>1. pc'[p] = "resetState" => ~plan[p].fixBak
      BY <1>2, <1>4
  <2>2. guard = p => before[p] \in Registry
      BY DEF ProcInv, MutationInv
  <2> QED BY <1>1, <1>3, <1>5, <2>1, <2>2 DEF MutationInv, NoMutation, Early, Preflight, Applied
<1>8. TrailInv(p)'
  <2>1. LogStarted(p) => ~LastIs(trail'[p], "RepairSuccess")
      BY LastRecorded DEF LogStarted, Event
  <2>2. ~LogStarted(p) => trail' = trail
      BY DEF InspectLocks, ValidatePlan, ChooseSnapshots, OpenParent
  <2> QED BY <1>5, <2>1, <2>2 DEF TrailInv
<1>9. PlaceInv(p)'
  <2>1. Standing(p)' = NoMutation
      BY <1>1, <1>3, <1>5 DEF Standing, Early, Preflight
  <2> QED BY <1>1, <1>5, <2>1 DEF ProcInv, PlaceInv
<1>10. ExactInv(p)'
  <2>1. SUFFICES ASSUME guard = p, Undisturbed
                 PROVE  ForwardInv(p)' /\ CapturedInv(p)' /\ BackwardInv(p)'
      BY <1>1 DEF ExactInv, Undisturbed
  <2>2. Base(p)' = Base(p) /\ Required(p)' = Required(p) /\ registry = before[p]
      BY <1>1, <1>5, <2>1 DEF Base, Required
  <2>3. ForwardInv(p)'
      BY <1>1, <1>2, <1>3, <1>5, <2>2 DEF ForwardInv, Early, Preflight, Applied
  <2>4. CapturedInv(p)
      BY <2>1 DEF ProcInv, ExactInv
  <2>5. CapturedInv(p)'
    <3>1. ChooseSnapshots(p) => Required(p) \subseteq Waiting(RequiredSnapshots(p))
      <4>1. /\ "bak" \in Waiting(<<"bak", "canonical">>)
            /\ "canonical" \in Waiting(<<"bak", "canonical">>)
            /\ "bak" \in Waiting(<<"bak">>) /\ "canonical" \in Waiting(<<"canonical">>)
          BY DEF Waiting
      <4> QED BY <2>2, <4>1 DEF Required, RequiredSnapshots, Exists
    <3>2. LogStarted(p) => Required(p) \subseteq Names(captured[p])
        BY <1>2, <2>4 DEF CapturedInv, Waiting
    <3>3. ChooseSnapshots(p) => CapturedInv(p)'
        BY <1>1, <1>2, <2>2, <2>4, <3>1 DEF CapturedInv, Applied
    <3>4. LogStarted(p) => CapturedInv(p)'
        BY <1>1, <1>2, <2>2, <2>4, <3>2 DEF CapturedInv, Applied
    <3>5. InspectLocks(p) \/ ValidatePlan(p) => CapturedInv(p)'
        BY <1>1, <1>2, <2>4 DEF CapturedInv, Applied
    <3>6. OpenParent(p) => CapturedInv(p)'
        BY <1>1, <1>2, <2>2, <2>4 DEF CapturedInv, Applied
    <3> QED BY <3>3, <3>4, <3>5, <3>6
  <2>6. BackwardInv(p)'
      BY <1>3 DEF BackwardInv, Early, Preflight
  <2> QED BY <2>3, <2>5, <2>6
<1> QED BY <1>6, <1>7, <1>8, <1>9, <1>10 DEF ProcInv

\* The names of a longer and of a shorter list.
LEMMA NamesAppend ==
    ASSUME NEW s \in Seq(Snapshot), NEW x \in Snapshot
    PROVE  /\ Names(Append(s, x)) = Names(s) \cup {x.name}
           /\ \A i \in DOMAIN Append(s, x) : Append(s, x)[i] = x \/ (i \in DOMAIN s /\ Append(s, x)[i] = s[i])
<1>1. /\ DOMAIN Append(s, x) = 1..(Len(s) + 1) /\ DOMAIN s = 1..Len(s) /\ Len(s) \in Nat
      /\ \A i \in 1..Len(s) : Append(s, x)[i] = s[i]
      /\ Append(s, x)[Len(s) + 1] = x
    BY AppendProperties, LenProperties
<1>2. \A i \in 1..(Len(s) + 1) : i \in 1..Len(s) \/ i = Len(s) + 1
    BY <1>1
<1>3. \A i \in 1..Len(s) : i \in 1..(Len(s) + 1)
    BY <1>1
<1>4. Len(s) + 1 \in 1..(Len(s) + 1)
    BY <1>1
<1> QED BY <1>1, <1>2, <1>3, <1>4 DEF Names

LEMMA NamesTail ==
    ASSUME NEW T, NEW s \in Seq(T), s # <<>>
    PROVE  /\ Head(s) = s[1] /\ 1 \in DOMAIN s
           /\ \A i \in DOMAIN Tail(s) : i + 1 \in DOMAIN s /\ Tail(s)[i] = s[i + 1]
           /\ \A i \in DOMAIN s : i = 1 \/ (i - 1 \in DOMAIN Tail(s) /\ Tail(s)[i - 1] = s[i])
<1>1. /\ Len(s) \in Nat \ {0} /\ DOMAIN s = 1..Len(s) /\ DOMAIN Tail(s) = 1..(Len(s) - 1)
      /\ \A i \in 1..(Len(s) - 1) : Tail(s)[i] = s[i + 1]
      /\ Head(s) = s[1]
    BY LenProperties, HeadTailProperties, EmptySeq
<1>2. \A i \in 1..Len(s) : i = 1 \/ (i - 1 \in 1..(Len(s) - 1) /\ (i - 1) + 1 = i)
    BY <1>1
<1> QED BY <1>1, <1>2

\* One more key is captured.
LEMMA TakeInv == ASSUME TypeOK, NEW p \in Proc, ProcInv(p), TakeSnapshot(p) PROVE ProcInv(p)'
<1> DEFINE h == Head(todo[p])
           x == [name |-> h, key |-> registry[h]]
<1>1. /\ pc[p] = "snapshot" /\ todo[p] # <<>> /\ Exists(h)
      /\ captured'[p] = Append(captured[p], x) /\ todo'[p] = Tail(todo[p])
      /\ UNCHANGED <<registry, guard, pc, plan, cause, mutation, errors, before, trail, result, left>>
    BY DEF TakeSnapshot, TypeOK
<1>2. todo[p] \in Seq({"canonical", "bak"}) /\ captured[p] \in Seq(Snapshot)
    BY DEF TypeOK
<1>3. h \in {"canonical", "bak"}
    BY <1>1, <1>2, HeadTailProperties
<1>4. x \in Snapshot
    BY <1>1, <1>3 DEF Snapshot, Exists, TypeOK, Name
<1>5. /\ mutation[p] = NoMutation /\ ~errors[p] /\ Base(p) = before[p]
      /\ guard = p => Keeps(before[p], registry, NoMutation)
      /\ guard = p /\ Undisturbed => registry = before[p]
    BY <1>1, EarlyFacts DEF Early
<1>6. PlanInv(p)' /\ MutationInv(p)' /\ TrailInv(p)'
    BY <1>1 DEF ProcInv, PlanInv, MutationInv, TrailInv
<1>7. /\ Names(captured[p])' = Names(captured[p]) \cup {h}
      /\ \A i \in DOMAIN captured'[p] : \/ captured'[p][i] = x
                                        \/ i \in DOMAIN captured[p] /\ captured'[p][i] = captured[p][i]
    BY <1>1, <1>2, <1>4, NamesAppend
<1>8. PlaceInv(p)'
  <2>1. SUFFICES ASSUME guard = p PROVE PlaceInv(p)'
      BY <1>1 DEF PlaceInv
  <2>2. Standing(p)' = Standing(p)
      BY <1>1 DEF Standing
  <2>3. before[p][h] # NoKey => registry[h].path = before[p][h].path
    <3>1. Place(h, NoMutation) = h /\ h \in Name
        BY <1>3 DEF Place, NoMutation, Name
    <3> QED BY <1>5, <2>1, <3>1 DEF Keeps
  <2> QED BY <1>1, <1>7, <2>1, <2>2, <2>3 DEF ProcInv, PlaceInv
<1>9. ExactInv(p)'
  <2>1. SUFFICES ASSUME guard = p, Undisturbed
                 PROVE  ForwardInv(p)' /\ CapturedInv(p)' /\ BackwardInv(p)'
      BY <1>1 DEF ExactInv, Undisturbed
  <2>2. /\ Base(p)' = Base(p) /\ Required(p)' = Required(p) /\ registry = before[p]
        /\ ForwardInv(p) /\ CapturedInv(p)
      BY <1>1, <1>5, <2>1 DEF Base, Required, ProcInv, ExactInv
  <2>3. ForwardInv(p)' /\ BackwardInv(p)'
      BY <1>1, <2>2 DEF ForwardInv, BackwardInv
  <2>4. Waiting(todo[p]) \subseteq {h} \cup Waiting(todo[p])'
    <3>1. /\ h = todo[p][1]
          /\ \A i \in DOMAIN todo[p] :
                i = 1 \/ (i - 1 \in DOMAIN Tail(todo[p]) /\ Tail(todo[p])[i - 1] = todo[p][i])
        BY <1>1, <1>2, NamesTail
    <3>2. \A i \in DOMAIN todo[p] :
             todo[p][i] = h \/ \E j \in DOMAIN Tail(todo[p]) : Tail(todo[p])[j] = todo[p][i]
        BY <3>1
    <3> QED BY <1>1, <3>2 DEF Waiting
  <2>5. CapturedInv(p)'
      BY <1>1, <1>7, <2>2, <2>4 DEF CapturedInv, Applied
  <2> QED BY <2>3, <2>5
<1> QED BY <1>6, <1>8, <1>9 DEF ProcInv

-----------------------------------------------------------------------------
(* The process that takes the step: mutations. *)

\* Whoever mutates or rolls back holds the guard.
LEMMA Holds ==
    ASSUME NEW p \in Proc, ProcInv(p), pc[p] \notin Early \cup {"idle", "guard"} \/ pc[p] = "preserve"
    PROVE  guard = p /\ plan[p] \in Plan /\ before[p] \in Registry /\ ~plan[p].dryRun
<1>1. pc[p] \notin Preflight \cup {"idle", "guard", "dryRun"}
    BY DEF Early, Preflight
<1> QED BY <1>1 DEF ProcInv, PlanInv, MutationInv

\* The canonical key takes an unused name.
LEMMA PreserveInv ==
    ASSUME TypeOK, NEW p \in Proc, ProcInv(p), PreserveCanonical(p) PROVE ProcInv(p)'
<1>1. /\ pc[p] = "preserve" /\ pc'[p] = "renameBak"
      /\ UNCHANGED <<guard, plan, cause, captured, todo, errors, before, trail, result, left>>
    BY DEF PreserveCanonical, Goto, TypeOK
<1>2. guard = p /\ plan[p] \in Plan /\ before[p] \in Registry /\ plan[p].fixBak
    BY <1>1, Holds DEF ProcInv, PlanInv
<1>3. /\ mutation[p] = NoMutation /\ ~errors[p] /\ Standing(p) = NoMutation
      /\ Base(p) = before[p] /\ ~LastIs(trail[p], "RepairSuccess")
      /\ Keeps(before[p], registry, NoMutation)
      /\ Undisturbed => registry = before[p]
    BY <1>1, <1>2, EarlyFacts DEF Early
<1>4. PICK b \in Backup \cup {None} :
         /\ mutation'[p] = [bakMoved |-> FALSE, backup |-> b]
         /\ IF b = None THEN registry' = registry /\ registry["canonical"] = NoKey
            ELSE /\ registry["canonical"] # NoKey /\ registry[b] = NoKey
                 /\ registry' = Renamed("canonical", b)
  <2>1. CASE ~Exists("canonical") /\ UNCHANGED <<registry, mutation>>
      BY <1>3, <2>1 DEF Exists, NoMutation
  <2>2. CASE \E b \in Backup : /\ CanRename("canonical", b)
                               /\ registry' = Renamed("canonical", b)
                               /\ mutation' = [mutation EXCEPT ![p].backup = b]
    <3>1. PICK b \in Backup : /\ CanRename("canonical", b)
                              /\ registry' = Renamed("canonical", b)
                              /\ mutation' = [mutation EXCEPT ![p].backup = b]
        BY <2>2
    <3>a. mutation'[p] = [mutation[p] EXCEPT !.backup = b]
        BY <3>1 DEF TypeOK
    <3>b. /\ mutation[p] \in [bakMoved : BOOLEAN, backup : Backup \cup {None}]
          /\ ~mutation[p].bakMoved
        BY <1>3 DEF NoMutation, TypeOK
    <3>2. mutation'[p] = [bakMoved |-> FALSE, backup |-> b]
        BY <3>a, <3>b
    <3>3. b # None
        BY RepairConstants
    <3> QED BY <3>1, <3>2, <3>3 DEF CanRename, Exists
  <2> QED BY <2>1, <2>2 DEF PreserveCanonical
<1>5. b # None => b \in Name /\ b \notin {"canonical", "bak"}
    BY RepairConstants, <1>4 DEF Name
<1>6. PlanInv(p)' /\ MutationInv(p)' /\ TrailInv(p)'
    BY <1>1, <1>2, <1>3, <1>4
       DEF ProcInv, PlanInv, MutationInv, TrailInv, Preflight, Early, Applied, Rollback
<1>7. registry \in [Name -> Key \cup {NoKey}] /\ "canonical" \in Name /\ "bak" \in Name
    BY DEF TypeOK, Name
<1>8. PlaceInv(p)'
  <2>1. Standing(p)' = [bakMoved |-> FALSE, backup |-> b]
      BY <1>1, <1>4 DEF Standing
  <2>2. b # None => before[p][b] = NoKey
    <3>1. SUFFICES ASSUME b # None, before[p][b] # NoKey PROVE FALSE
        OBVIOUS
    <3>2. Place(b, NoMutation) = b
        BY <1>5, <3>1 DEF Place
    <3> QED BY <1>3, <1>4, <1>5, <3>1, <3>2 DEF Keeps
  <2>3. Keeps(before[p], registry', [bakMoved |-> FALSE, backup |-> b])
    <3>1. SUFFICES ASSUME NEW n \in Name, before[p][n] # NoKey
                   PROVE  LET m == [bakMoved |-> FALSE, backup |-> b]
                          IN  /\ registry'[Place(n, m)] # NoKey
                              /\ registry'[Place(n, m)].path = before[p][n].path
        BY DEF Keeps
    <3>2. registry[n] # NoKey /\ registry[n].path = before[p][n].path
      <4>1. Place(n, NoMutation) = n
          BY DEF Place, NoMutation
      <4> QED BY <1>3, <3>1, <4>1 DEF Keeps
    <3>3. Place(n, [bakMoved |-> FALSE, backup |-> b]) = IF n = "canonical" /\ b # None THEN b ELSE n
        BY DEF Place
    <3>4. CASE b = None
        BY <1>4, <3>2, <3>3, <3>4
    <3>5. CASE b # None
      <4>1. registry' = [registry EXCEPT ![b] = registry["canonical"], !["canonical"] = NoKey]
          BY <1>4, <3>5 DEF Renamed
      <4>2. n # b
          BY <1>4, <3>2, <3>5
      <4> QED BY <1>5, <1>7, <3>2, <3>3, <3>5, <4>1, <4>2
    <3> QED BY <3>4, <3>5
  <2>4. PlaceInv(p)
      BY DEF ProcInv
  <2> QED BY <1>1, <1>2, <1>4, <2>1, <2>2, <2>3, <2>4 DEF PlaceInv
<1>9. ExactInv(p)'
  <2>1. SUFFICES ASSUME Undisturbed PROVE ForwardInv(p)' /\ CapturedInv(p)' /\ BackwardInv(p)'
      BY <1>1 DEF ExactInv, Undisturbed
  <2>2. registry = before[p] /\ CapturedInv(p)
      BY <1>2, <1>3, <2>1 DEF ProcInv, ExactInv
  <2>3. Base(p)' = registry'
      BY <1>1, <1>4, <2>2 DEF Base, Moved, Preserved, Renamed
  <2>4. ForwardInv(p)'
      BY <1>1, <1>4, <2>2, <2>3 DEF ForwardInv, Applied, Early, Preflight
  <2>5. Required(p)' = Required(p)
      BY <1>1 DEF Required
  <2>6. CapturedInv(p)'
      BY <1>1, <2>2, <2>5 DEF CapturedInv
  <2>7. BackwardInv(p)'
      BY <1>1 DEF BackwardInv
  <2> QED BY <2>4, <2>6, <2>7
<1> QED BY <1>6, <1>8, <1>9 DEF ProcInv

\* The .bak key becomes the canonical one.
LEMMA RenameInv == ASSUME TypeOK, NEW p \in Proc, ProcInv(p), RenameBak(p) PROVE ProcInv(p)'
<1>1. /\ pc[p] = "renameBak" /\ pc'[p] = IF plan[p].resetState THEN "resetState" ELSE "verify"
      /\ UNCHANGED <<guard, plan, cause, captured, todo, errors, before, trail, result, left>>
    BY DEF RenameBak, Goto, TypeOK
<1>2. /\ guard = p /\ plan[p] \in Plan /\ before[p] \in Registry /\ plan[p].fixBak /\ ~errors[p]
      /\ ~mutation[p].bakMoved /\ ~LastIs(trail[p], "RepairSuccess") /\ ~plan[p].dryRun
    BY <1>1, Holds DEF ProcInv, PlanInv, MutationInv, TrailInv, Early, Preflight, Rollback
<1>3. mutation'[p] = [bakMoved |-> TRUE, backup |-> mutation[p].backup]
    BY ZenonT(60) DEF RenameBak, TypeOK
<1>4. /\ registry["bak"] # NoKey /\ registry["canonical"] = NoKey
      /\ registry' = [registry EXCEPT !["canonical"] = registry["bak"], !["bak"] = NoKey]
    BY DEF RenameBak, CanRename, Exists, Renamed
<1>5. registry \in [Name -> Key \cup {NoKey}] /\ "canonical" \in Name /\ "bak" \in Name
    BY DEF TypeOK, Name
<1>6. PlanInv(p)' /\ MutationInv(p)' /\ TrailInv(p)'
  <2>1. plan[p].resetState \in BOOLEAN
      BY <1>2 DEF Plan
  <2> QED BY <1>1, <1>2, <1>3, <2>1
       DEF ProcInv, PlanInv, MutationInv, TrailInv, Preflight, Early, Applied, Rollback
<1>7. mutation[p].backup # None => /\ mutation[p].backup \in Name
                                   /\ mutation[p].backup \notin {"canonical", "bak"}
    BY RepairConstants DEF TypeOK, Name
<1>8. PlaceInv(p)'
  <2> DEFINE m == [bakMoved |-> FALSE, backup |-> mutation[p].backup]
             mm == [bakMoved |-> TRUE, backup |-> mutation[p].backup]
  <2>1. Standing(p)' = mm
      BY <1>1, <1>3 DEF Standing
  <2>2. Standing(p) = m
    <3>1. mutation[p] = m
        BY <1>2 DEF TypeOK
    <3> QED BY <1>1, <3>1 DEF Standing
  <2>3. PlaceInv(p) /\ Keeps(before[p], registry, m)
      BY <1>2, <2>2 DEF ProcInv, PlaceInv
  <2>4. before[p]["canonical"] # NoKey => mutation[p].backup # None
    <3>1. mutation[p].backup = None => Place("canonical", m) = "canonical"
        BY DEF Place
    <3> QED BY <1>4, <1>5, <2>3, <3>1 DEF Keeps
  <2>5. Keeps(before[p], registry', mm)
    <3>1. SUFFICES ASSUME NEW n \in Name, before[p][n] # NoKey
                   PROVE  /\ registry'[Place(n, mm)] # NoKey
                          /\ registry'[Place(n, mm)].path = before[p][n].path
        BY DEF Keeps
    <3>2. registry[Place(n, m)] # NoKey /\ registry[Place(n, m)].path = before[p][n].path
        BY <2>3, <3>1 DEF Keeps
    <3>3. CASE n = "canonical"
      <4>1. Place(n, mm) = mutation[p].backup /\ Place(n, m) = mutation[p].backup
          BY <2>4, <3>1, <3>3 DEF Place
      <4> QED BY <1>4, <1>5, <1>7, <2>4, <3>1, <3>2, <3>3, <4>1
    <3>4. CASE n = "bak"
      <4>1. Place(n, mm) = "canonical" /\ Place(n, m) = "bak"
          BY <3>4 DEF Place
      <4> QED BY <1>4, <1>5, <3>2, <4>1
    <3>5. CASE n \notin {"canonical", "bak"}
      <4>1. Place(n, mm) = n /\ Place(n, m) = n
          BY <3>5 DEF Place
      <4> QED BY <1>4, <1>5, <3>1, <3>2, <3>5, <4>1
    <3> QED BY <3>3, <3>4, <3>5
  <2> HIDE DEF m, mm
  <2>6. /\ before' = before /\ captured' = captured /\ guard' = p
        /\ mutation'[p].backup = mutation[p].backup
      BY <1>1, <1>2, <1>3
  <2> QED BY <1>2, <2>1, <2>3, <2>4, <2>5, <2>6 DEF PlaceInv
<1>9. ExactInv(p)'
  <2>1. SUFFICES ASSUME Undisturbed PROVE ForwardInv(p)' /\ CapturedInv(p)' /\ BackwardInv(p)'
      BY <1>1 DEF ExactInv, Undisturbed
  <2>2. ForwardInv(p) /\ CapturedInv(p)
      BY <1>2, <2>1 DEF ProcInv, ExactInv
  <2>3. registry = Preserved(before[p], mutation[p].backup)
      BY <1>1, <1>2, <2>2 DEF ForwardInv, Base, Moved
  <2>4. Base(p)' = registry'
      BY <1>1, <1>3, <1>4, <2>3 DEF Base, Moved
  <2>5. plan[p].resetState \in BOOLEAN
      BY <1>2 DEF Plan
  <2>6. mutation[p].backup = None <=> before[p]["canonical"] = NoKey
      BY <1>1, <1>2, <2>2 DEF ForwardInv
  <2>7. ForwardInv(p)'
      BY <1>1, <1>3, <2>4, <2>5, <2>6 DEF ForwardInv, Early, Preflight
  <2>8. Required(p)' = Required(p)
      BY <1>1 DEF Required
  <2>9. CapturedInv(p)'
      BY <1>1, <2>2, <2>8 DEF CapturedInv, Applied
  <2>10. BackwardInv(p)'
      BY <1>1 DEF BackwardInv
  <2> QED BY <2>7, <2>9, <2>10
<1> QED BY <1>6, <1>8, <1>9 DEF ProcInv

\* A change that keeps the path of every key keeps the registrations.
LEMMA KeepsPaths ==
    ASSUME NEW old, NEW r, NEW rr, NEW m, m.backup # None => m.backup \in Name,
           \A n \in Name : r[n] # NoKey => rr[n] # NoKey /\ rr[n].path = r[n].path,
           Keeps(old, r, m)
    PROVE  Keeps(old, rr, m)
<1>1. \A n \in Name : Place(n, m) \in Name
    BY DEF Place, Name
<1> QED BY <1>1 DEF Keeps

\* Resetting a value of the canonical key keeps its path.
LEMMA ValuesKeepPaths ==
    ASSUME registry \in Registry, registry["canonical"] # NoKey,
           \/ registry' = [registry EXCEPT !["canonical"].state = 0]
           \/ registry' = [registry EXCEPT !["canonical"].refCount = 0]
           \/ registry' = [registry EXCEPT !["canonical"].refCount = 1]
    PROVE  \A n \in Name : registry[n] # NoKey => registry'[n] # NoKey /\ registry'[n].path = registry[n].path
<1>1. "canonical" \in Name /\ registry["canonical"] \in Key
    BY DEF Name, Registry
<1>2. \/ registry'["canonical"] = [registry["canonical"] EXCEPT !.state = 0]
      \/ registry'["canonical"] = [registry["canonical"] EXCEPT !.refCount = 0]
      \/ registry'["canonical"] = [registry["canonical"] EXCEPT !.refCount = 1]
    BY <1>1 DEF Registry
<1>3. registry'["canonical"] \in Key /\ registry'["canonical"].path = registry["canonical"].path
    BY <1>1, <1>2 DEF Key, Mask
<1>4. \A n \in Name : n # "canonical" => registry'[n] = registry[n]
    BY DEF Registry
<1> QED BY <1>3, <1>4, Keys

\* The backup name a repair remembers is a name, and neither of the two others.
LEMMA BackupName ==
    ASSUME TypeOK, NEW p \in Proc, mutation[p].backup # None
    PROVE  /\ mutation[p].backup \in Backup /\ mutation[p].backup \in Name
           /\ mutation[p].backup \notin {"canonical", "bak"}
BY RepairConstants DEF TypeOK, Name

\* State, then RefCount, is reset.
LEMMA ResetInv == ASSUME TypeOK, NEW p \in Proc, ProcInv(p), ResetValue(p) PROVE ProcInv(p)'
<1>1. /\ pc[p] \in {"resetState", "resetRefCount"} /\ registry["canonical"] # NoKey
      /\ pc[p] = "resetState" =>
            /\ registry' = [registry EXCEPT !["canonical"].state = 0] /\ pc'[p] = "resetRefCount"
      /\ pc[p] # "resetState" =>
            /\ registry' = [registry EXCEPT !["canonical"].refCount = 0] /\ pc'[p] = "verify"
    BY DEF ResetValue, Goto, Exists, TypeOK
<1>2. UNCHANGED <<guard, plan, cause, captured, todo, mutation, errors, before, trail, result, left>>
    BY DEF ResetValue, locals
<1>3. guard = p /\ plan[p] \in Plan /\ before[p] \in Registry /\ ~plan[p].dryRun
    BY <1>1, Holds DEF Early, Preflight
<1>4. pc'[p] \in {"resetRefCount", "verify"}
    BY <1>1
<1>5. plan[p].resetState /\ ~errors[p]
    BY <1>1 DEF ProcInv, PlanInv, MutationInv
<1>6. PlanInv(p)' /\ MutationInv(p)' /\ TrailInv(p)'
  <2>1. PlanInv(p)'
      BY <1>2, <1>3, <1>4, <1>5 DEF PlanInv, Preflight
  <2>2. MutationInv(p)'
      BY <1>1, <1>2, <1>3, <1>4, <1>5 DEF ProcInv, MutationInv, Early, Preflight, Applied
  <2>3. TrailInv(p)'
      BY <1>1, <1>2 DEF ProcInv, TrailInv, Rollback
  <2> QED BY <2>1, <2>2, <2>3
<1>7. PlaceInv(p)'
  <2>1. \A n \in Name : registry[n] # NoKey => registry'[n] # NoKey /\ registry'[n].path = registry[n].path
      BY <1>1, ValuesKeepPaths DEF TypeOK, Registry
  <2>2. Standing(p) = mutation[p] /\ Standing(p)' = mutation[p]
      BY <1>1, <1>2, <1>4 DEF Standing
  <2>3. PlaceInv(p) /\ Keeps(before[p], registry, mutation[p])
      BY <1>3, <1>5, <2>2 DEF ProcInv, PlaceInv
  <2>4. Keeps(before[p], registry', mutation[p])
      BY <2>1, <2>3, KeepsPaths, BackupName
  <2> QED BY <1>2, <1>3, <2>2, <2>3, <2>4 DEF PlaceInv
<1>8. ExactInv(p)'
  <2>1. SUFFICES ASSUME Undisturbed PROVE ForwardInv(p)' /\ CapturedInv(p)' /\ BackwardInv(p)'
      BY <1>2 DEF ExactInv, Undisturbed
  <2>2. ForwardInv(p) /\ CapturedInv(p)
      BY <1>3, <2>1 DEF ProcInv, ExactInv
  <2>3. Base(p)' = Base(p) /\ Required(p)' = Required(p)
      BY <1>2 DEF Base, Required
  <2>4. CASE pc[p] = "resetState"
    <3>1. registry = Base(p)
        BY <2>2, <2>4 DEF ForwardInv
    <3>2. ForwardInv(p)'
        BY <1>1, <1>2, <2>2, <2>3, <2>4, <3>1 DEF ForwardInv, Early, Preflight, Applied
    <3>3. CapturedInv(p)' /\ BackwardInv(p)'
        BY <1>1, <1>2, <2>2, <2>3, <2>4 DEF CapturedInv, BackwardInv, Applied
    <3> QED BY <3>2, <3>3
  <2>5. CASE pc[p] = "resetRefCount"
    <3>1. registry = [Base(p) EXCEPT !["canonical"].state = 0]
        BY <2>2, <2>5 DEF ForwardInv
    <3>2. registry' = [Base(p) EXCEPT !["canonical"].state = 0, !["canonical"].refCount = 0]
        BY <1>1, <2>5, <3>1
    <3>3. pc'[p] = "verify"
        BY <1>1, <2>5
    <3>4. ForwardInv(p)'
        BY <1>2, <1>5, <2>2, <2>3, <2>5, <3>2, <3>3 DEF ForwardInv, Early, Preflight, Applied
    <3>5. CapturedInv(p)' /\ BackwardInv(p)'
        BY <1>2, <2>2, <2>3, <2>5, <3>3 DEF CapturedInv, BackwardInv, Applied
    <3> QED BY <3>4, <3>5
  <2> QED BY <1>1, <2>4, <2>5
<1> QED BY <1>6, <1>7, <1>8 DEF ProcInv

\* The result is verified.
LEMMA VerifyInv == ASSUME TypeOK, NEW p \in Proc, ProcInv(p), Verify(p) PROVE ProcInv(p)'
<1>1. /\ pc[p] = "verify" /\ pc'[p] = "logSuccess"
      /\ UNCHANGED <<registry, guard, plan, cause, captured, todo, mutation, errors, before, trail,
                     result, left>>
    BY DEF Verify, Goto, TypeOK, locals
<1>2. PlanInv(p)' /\ MutationInv(p)' /\ TrailInv(p)'
    BY <1>1 DEF ProcInv, PlanInv, MutationInv, TrailInv, Preflight, Early, Applied, Rollback
<1>3. PlaceInv(p)'
  <2>1. Standing(p)' = Standing(p)
      BY <1>1 DEF Standing
  <2> QED BY <1>1, <2>1 DEF ProcInv, PlaceInv
<1>4. ExactInv(p)'
  <2>1. Base(p)' = Base(p) /\ Required(p)' = Required(p)
      BY <1>1 DEF Base, Required
  <2>2. ForwardInv(p) => ForwardInv(p)'
      BY <1>1, <2>1 DEF ForwardInv, Early, Preflight, Applied
  <2>3. CapturedInv(p) => CapturedInv(p)'
      BY <1>1, <2>1 DEF CapturedInv, Applied
  <2>4. BackwardInv(p)'
      BY <1>1 DEF BackwardInv
  <2> QED BY <1>1, <2>2, <2>3, <2>4 DEF ProcInv, ExactInv, Undisturbed
<1> QED BY <1>2, <1>3, <1>4 DEF ProcInv

-----------------------------------------------------------------------------
(* The process that takes the step: rollback. *)

\* A failed step, or a success event that cannot be written, begins the rollback.
LEMMA FailInv ==
    ASSUME TypeOK, NEW p \in Proc, ProcInv(p), StepFails(p) \/ SuccessAuditFails(p)
    PROVE  ProcInv(p)'
<1>1. /\ pc[p] \in Applied \cup {"preserve", "renameBak"} /\ pc'[p] = "unrenameBak"
      /\ UNCHANGED <<registry, guard, plan, captured, todo, mutation, errors, before, result>>
    BY DEF StepFails, SuccessAuditFails, Blocked, Goto, TypeOK, Applied
<1>2. left'.logon = left.logon
    BY SpendType DEF StepFails, SuccessAuditFails, AuditFails
<1>3. /\ guard = p /\ plan[p] \in Plan /\ before[p] \in Registry /\ ~plan[p].dryRun
    BY <1>1, Holds DEF Early, Preflight, Applied
<1>4. plan[p].fixBak \in BOOLEAN /\ plan[p].resetState \in BOOLEAN
    BY <1>3 DEF Plan
<1>5. PlanInv(p)'
    BY <1>1, <1>3 DEF ProcInv, PlanInv, Preflight, Applied
<1>6. MutationInv(p)' /\ ~errors[p]
    BY <1>1, <1>3 DEF ProcInv, MutationInv, Preflight, Early, Applied
<1>7. TrailInv(p)'
  <2>1. StepFails(p) => trail' = trail
      BY DEF StepFails
  <2>2. SuccessAuditFails(p) => cause'[p] = "audit"
      BY DEF SuccessAuditFails, TypeOK
  <2> QED BY <1>1, <2>1, <2>2 DEF ProcInv, TrailInv, Rollback, Applied
<1>8. PlaceInv(p)'
  <2>1. Standing(p)' = Standing(p)
      BY <1>1 DEF Standing, Applied
  <2> QED BY <1>1, <2>1 DEF ProcInv, PlaceInv
<1>9. ExactInv(p)'
  <2>1. SUFFICES ASSUME Undisturbed PROVE ForwardInv(p)' /\ CapturedInv(p)' /\ BackwardInv(p)'
      BY <1>2 DEF ExactInv, Undisturbed
  <2>2. ForwardInv(p) /\ CapturedInv(p)
      BY <1>3, <2>1 DEF ProcInv, ExactInv
  <2>3. ForwardInv(p)'
      BY <1>1 DEF ForwardInv, Early, Preflight, Applied
  <2>4. Required(p)' = Required(p)
      BY <1>1 DEF Required
  <2>5. CapturedInv(p)'
      BY <1>1, <2>2, <2>4 DEF CapturedInv, Applied
  <2>6. /\ pc[p] = "preserve" => mutation[p] = NoMutation
        /\ pc[p] = "renameBak" => ~mutation[p].bakMoved
        /\ pc[p] \in Applied => (mutation[p].bakMoved <=> plan[p].fixBak)
        /\ mutation[p].bakMoved \/ mutation[p].backup # None => plan[p].fixBak
        /\ pc[p] \in {"preserve", "renameBak"} => plan[p].fixBak
      BY DEF ProcInv, MutationInv, PlanInv, Early
  <2>a. Preserved(before[p], mutation[p].backup) \in Registry
      BY <1>3, BackupName DEF Preserved, Registry, Name
  <2>b. Base(p) \in Registry
      BY <2>a DEF Base, Moved, Registry, Name
  <2>7. \A n \in Name : n # "canonical" => registry[n] = Base(p)[n]
    <3>1. \/ registry = Base(p)
          \/ registry = [Base(p) EXCEPT !["canonical"].state = 0]
          \/ registry = [Base(p) EXCEPT !["canonical"].state = 0, !["canonical"].refCount = 0]
        BY <1>1, <2>2 DEF ForwardInv, Early, Applied
    <3> QED BY <2>b, <3>1 DEF Registry
  <2>8. \A n \in Backup : registry[n] = Preserved(before[p], mutation[p].backup)[n]
    <3>1. \A n \in Backup : n \in Name /\ n # "canonical" /\ n # "bak"
        BY RepairConstants DEF Name
    <3>2. \A n \in Backup : Base(p)[n] = Preserved(before[p], mutation[p].backup)[n]
        BY <2>a, <3>1 DEF Base, Moved, Registry
    <3> QED BY <2>7, <3>1, <3>2
  <2>9. mutation[p].backup # None => before[p]["canonical"] # NoKey
      BY <1>1, <2>2, <2>6 DEF ForwardInv, NoMutation
  <2>10. ~plan[p].fixBak => registry["bak"] = before[p]["bak"]
      BY <2>6, <2>7 DEF Base, Moved, Preserved, Name
  <2>11. before[p]["canonical"] = NoKey /\ plan[p].fixBak =>
            registry["canonical"] = NoKey \/ mutation[p].bakMoved
    <3>1. SUFFICES ASSUME before[p]["canonical"] = NoKey, plan[p].fixBak, ~mutation[p].bakMoved
                   PROVE  registry["canonical"] = NoKey
        OBVIOUS
    <3>2. pc[p] \in {"preserve", "renameBak"} /\ mutation[p].backup = None
        BY <1>1, <2>6, <2>9, <3>1
    <3> QED BY <2>2, <3>1, <3>2 DEF ForwardInv, Early, Base, Moved, Preserved
  <2>12. BackwardInv(p)'
      BY <1>1, <2>8, <2>9, <2>10, <2>11 DEF BackwardInv
  <2> QED BY <2>3, <2>5, <2>12
<1> QED BY <1>5, <1>6, <1>7, <1>8, <1>9 DEF ProcInv

\* Between two steps of the rollback everything but the registry, the errors and the remaining
\* snapshots stays.
LEMMA RollbackFrame ==
    ASSUME TypeOK, NEW p \in Proc, ProcInv(p),
           UnrenameBak(p) \/ UnrenameCanonical(p) \/ RestoreSnapshot(p)
    PROVE  /\ PlanInv(p)' /\ MutationInv(p)' /\ TrailInv(p)'
           /\ guard = p /\ plan[p] \in Plan /\ before[p] \in Registry
           /\ left'.logon = left.logon /\ errors[p] \in BOOLEAN /\ errors'[p] \in BOOLEAN
           /\ errors[p] => errors'[p]
           /\ pc[p] \in Rollback
<1>1. /\ UnrenameBak(p) => pc[p] = "unrenameBak" /\ pc'[p] = "unrenameCanonical"
      /\ UnrenameCanonical(p) => pc[p] = "unrenameCanonical" /\ pc'[p] = "restore"
      /\ RestoreSnapshot(p) => pc[p] = "restore" /\ pc'[p] = "restore"
    BY DEF UnrenameBak, UnrenameCanonical, RestoreSnapshot, Goto, TypeOK
<1>2. UNCHANGED <<guard, plan, todo, mutation, cause, before, trail, result>>
    BY DEF UnrenameBak, UnrenameCanonical, RestoreSnapshot
<1>3. left'.logon = left.logon
    BY SpendType DEF UnrenameBak, UnrenameCanonical, RestoreSnapshot
<1>4. errors[p] \in BOOLEAN /\ errors'[p] \in BOOLEAN /\ (errors[p] => errors'[p])
    BY DEF UnrenameBak, UnrenameCanonical, RestoreSnapshot, Failing, TypeOK
<1>5. pc[p] \in Rollback /\ pc'[p] \in {"unrenameCanonical", "restore"}
    BY <1>1 DEF Rollback
<1>6. guard = p /\ plan[p] \in Plan /\ before[p] \in Registry /\ ~plan[p].dryRun
    BY <1>5, Holds DEF Early, Preflight, Rollback
<1>7. PlanInv(p)'
    BY <1>2, <1>5, <1>6 DEF ProcInv, PlanInv, Preflight, Rollback
<1>8. MutationInv(p)'
    BY <1>2, <1>5, <1>6 DEF ProcInv, MutationInv, Preflight, Early, Applied
<1>9. TrailInv(p)'
    BY <1>2, <1>5 DEF ProcInv, TrailInv, Rollback
<1> QED BY <1>3, <1>4, <1>5, <1>6, <1>7, <1>8, <1>9

\* The .bak key goes back to its name.
LEMMA UnrenameBakInv ==
    ASSUME TypeOK, NEW p \in Proc, ProcInv(p), UnrenameBak(p) PROVE ProcInv(p)'
<1>1. /\ PlanInv(p)' /\ MutationInv(p)' /\ TrailInv(p)'
      /\ guard = p /\ plan[p] \in Plan /\ before[p] \in Registry
      /\ left'.logon = left.logon
    BY RollbackFrame
<1>2. /\ pc[p] = "unrenameBak" /\ pc'[p] = "unrenameCanonical"
      /\ UNCHANGED <<guard, plan, captured, todo, mutation, cause, before>>
    BY DEF UnrenameBak, Goto, TypeOK
<1>3. ~errors[p]
    BY <1>2 DEF ProcInv, MutationInv
<1>4. \/ errors'[p]
      \/ ~mutation[p].bakMoved /\ registry' = registry
      \/ mutation[p].bakMoved /\ registry["canonical"] = NoKey /\ registry' = registry
      \/ /\ mutation[p].bakMoved /\ registry["bak"] = NoKey
         /\ registry' = [registry EXCEPT !["bak"] = registry["canonical"], !["canonical"] = NoKey]
    BY DEF UnrenameBak, CanRename, Exists, Renamed, Failing, TypeOK
<1>5. registry \in [Name -> Key \cup {NoKey}] /\ "canonical" \in Name /\ "bak" \in Name
    BY DEF TypeOK, Name
<1>6. PlaceInv(p)'
  <2> DEFINE m == mutation[p]
             mm == [bakMoved |-> FALSE, backup |-> mutation[p].backup]
  <2>1. PlaceInv(p) /\ Keeps(before[p], registry, m) /\ Standing(p)' = mm
      BY <1>1, <1>2, <1>3 DEF ProcInv, PlaceInv, Standing
  <2>2. SUFFICES ASSUME ~errors'[p] PROVE Keeps(before[p], registry', mm)
      BY <1>1, <1>2, <2>1 DEF PlaceInv
  <2>3. SUFFICES ASSUME NEW n \in Name, before[p][n] # NoKey
                 PROVE  /\ registry'[Place(n, mm)] # NoKey
                        /\ registry'[Place(n, mm)].path = before[p][n].path
      BY DEF Keeps
  <2>4. registry[Place(n, m)] # NoKey /\ registry[Place(n, m)].path = before[p][n].path
      BY <2>1, <2>3 DEF Keeps
  <2>5. CASE ~m.bakMoved
    <3>1. Place(n, mm) = Place(n, m)
        BY <2>5 DEF Place
    <3> QED BY <1>4, <2>2, <2>4, <2>5, <3>1
  <2>6. CASE m.bakMoved
    <3>1. CASE n = "canonical"
      <4>1. m.backup # None
          BY <1>1, <2>1, <2>3, <2>6, <3>1 DEF PlaceInv
      <4>2. Place(n, mm) = m.backup /\ Place(n, m) = m.backup
          BY <3>1, <4>1 DEF Place
      <4>3. m.backup \in Name /\ m.backup \notin {"canonical", "bak"}
          BY <4>1, BackupName
      <4> QED BY <1>4, <1>5, <2>2, <2>4, <2>6, <4>2, <4>3
    <3>2. CASE n = "bak"
      <4>1. Place(n, mm) = "bak" /\ Place(n, m) = "canonical"
          BY <2>6, <3>2 DEF Place
      <4> QED BY <1>4, <1>5, <2>2, <2>4, <2>6, <4>1
    <3>3. CASE n \notin {"canonical", "bak"}
      <4>1. Place(n, mm) = n /\ Place(n, m) = n
          BY <3>3 DEF Place
      <4> QED BY <1>4, <1>5, <2>2, <2>4, <2>6, <3>3, <4>1
    <3> QED BY <3>1, <3>2, <3>3
  <2> QED BY <2>5, <2>6
<1>7. ExactInv(p)'
  <2>1. SUFFICES ASSUME Undisturbed
                 PROVE  ForwardInv(p)' /\ CapturedInv(p)' /\ (~errors'[p] => BackwardInv(p)')
      BY <1>1 DEF ExactInv, Undisturbed
  <2>2. ForwardInv(p) /\ CapturedInv(p) /\ BackwardInv(p)
      BY <1>1, <1>3, <2>1 DEF ProcInv, ExactInv
  <2>3. ForwardInv(p)'
      BY <1>2 DEF ForwardInv, Early, Preflight, Applied
  <2>4. Required(p)' = Required(p)
      BY <1>2 DEF Required
  <2>5. CapturedInv(p)'
      BY <1>2, <2>2, <2>4 DEF CapturedInv, Applied
  <2>6. ASSUME ~errors'[p] PROVE BackwardInv(p)'
    <3>1. \A n \in Backup : n \in Name /\ n \notin {"canonical", "bak"}
        BY RepairConstants DEF Name
    <3>2. mutation[p].bakMoved => plan[p].fixBak
        BY DEF ProcInv, MutationInv
    <3>3. \A n \in Backup : registry'[n] = registry[n]
        BY <1>4, <1>5, <2>6, <3>1
    <3>4. ~plan[p].fixBak => registry' = registry
        BY <1>4, <2>6, <3>2
    <3>5. registry'["canonical"] = NoKey \/ (~mutation[p].bakMoved /\ registry' = registry)
        BY <1>4, <1>5, <2>6
    <3> QED BY <1>2, <2>2, <3>3, <3>4, <3>5 DEF BackwardInv
  <2> QED BY <2>3, <2>5, <2>6
<1> QED BY <1>1, <1>6, <1>7 DEF ProcInv

\* The preserved key goes back to the canonical name.
LEMMA UnrenameCanonicalInv ==
    ASSUME TypeOK, NEW p \in Proc, ProcInv(p), UnrenameCanonical(p) PROVE ProcInv(p)'
<1> DEFINE b == mutation[p].backup
<1>1. /\ PlanInv(p)' /\ MutationInv(p)' /\ TrailInv(p)'
      /\ guard = p /\ plan[p] \in Plan /\ before[p] \in Registry
      /\ left'.logon = left.logon /\ errors[p] \in BOOLEAN /\ errors'[p] \in BOOLEAN
      /\ errors[p] => errors'[p]
    BY RollbackFrame
<1>2. /\ pc[p] = "unrenameCanonical" /\ pc'[p] = "restore"
      /\ UNCHANGED <<guard, plan, captured, todo, mutation, cause, before>>
    BY DEF UnrenameCanonical, Goto, TypeOK
<1>3. \/ errors'[p]
      \/ b = None /\ registry' = registry
      \/ b # None /\ registry[b] = NoKey /\ registry' = registry
      \/ /\ b # None /\ registry["canonical"] = NoKey
         /\ registry' = [registry EXCEPT !["canonical"] = registry[b], ![b] = NoKey]
    BY DEF UnrenameCanonical, CanRename, Exists, Renamed, Failing, TypeOK
<1>4. registry \in [Name -> Key \cup {NoKey}] /\ "canonical" \in Name /\ "bak" \in Name
    BY DEF TypeOK, Name
<1>5. b # None => b \in Name /\ b \in Backup /\ b \notin {"canonical", "bak"}
    BY BackupName
<1>6. b # None => before[p][b] = NoKey
    BY <1>1 DEF ProcInv, PlaceInv
<1>7. PlaceInv(p)'
  <2> DEFINE m == [bakMoved |-> FALSE, backup |-> b]
  <2>1. PlaceInv(p) /\ (~errors[p] => Keeps(before[p], registry, m)) /\ Standing(p)' = NoMutation
      BY <1>1, <1>2 DEF ProcInv, PlaceInv, Standing
  <2>2. SUFFICES ASSUME ~errors'[p] PROVE Keeps(before[p], registry', NoMutation)
      BY <1>1, <1>2, <2>1 DEF PlaceInv
  <2>3. SUFFICES ASSUME NEW n \in Name, before[p][n] # NoKey
                 PROVE  /\ registry'[Place(n, NoMutation)] # NoKey
                        /\ registry'[Place(n, NoMutation)].path = before[p][n].path
      BY DEF Keeps
  <2>4. registry[Place(n, m)] # NoKey /\ registry[Place(n, m)].path = before[p][n].path
      BY <1>1, <2>1, <2>2, <2>3 DEF Keeps
  <2>5. Place(n, NoMutation) = n
      BY DEF Place, NoMutation
  <2>6. Place(n, m) = IF n = "canonical" /\ b # None THEN b ELSE n
      BY DEF Place
  <2>7. CASE b = None
      BY <1>3, <2>2, <2>4, <2>5, <2>6, <2>7
  <2>8. CASE b # None
    <3>1. n # b
        BY <1>6, <2>3, <2>8
    <3> QED BY <1>3, <1>4, <1>5, <2>2, <2>4, <2>5, <2>6, <2>8, <3>1
  <2> QED BY <2>7, <2>8
<1>8. ExactInv(p)'
  <2>1. SUFFICES ASSUME Undisturbed
                 PROVE  ForwardInv(p)' /\ CapturedInv(p)' /\ (~errors'[p] => BackwardInv(p)')
      BY <1>1 DEF ExactInv, Undisturbed
  <2>2. ForwardInv(p) /\ CapturedInv(p) /\ (~errors[p] => BackwardInv(p))
      BY <1>1, <2>1 DEF ProcInv, ExactInv
  <2>3. ForwardInv(p)'
      BY <1>2 DEF ForwardInv, Early, Preflight, Applied
  <2>4. CapturedInv(p)'
      BY <1>2, <2>2 DEF CapturedInv, Applied
  <2>5. ASSUME ~errors'[p] PROVE BackwardInv(p)'
    <3>1. /\ \A n \in Backup : registry[n] = Preserved(before[p], b)[n]
          /\ b # None => before[p]["canonical"] # NoKey
          /\ ~plan[p].fixBak => registry["bak"] = before[p]["bak"]
          /\ before[p]["canonical"] = NoKey /\ plan[p].fixBak => registry["canonical"] = NoKey
        BY <1>1, <1>2, <2>2, <2>5 DEF BackwardInv
    <3>2. Required(p) \subseteq Names(captured[p])
        BY <1>2, <2>2 DEF CapturedInv
    <3>3. b # None => plan[p].fixBak
        BY DEF ProcInv, MutationInv
    <3>4. registry'["canonical"] = before[p]["canonical"] \/ "canonical" \in Names(captured[p])
        BY <1>3, <2>5, <3>1, <3>2 DEF Required
    <3>5. registry'["bak"] = before[p]["bak"] \/ "bak" \in Names(captured[p])
        BY <1>3, <2>5, <3>1, <3>2, <3>3 DEF Required
    <3>6. ASSUME NEW n \in Backup PROVE registry'[n] = before[p][n]
      <4>1. n \in Name /\ n # "canonical"
          BY RepairConstants DEF Name
      <4>2. CASE b = None
          BY <1>3, <2>5, <3>1, <4>2 DEF Preserved
      <4>3. CASE b # None
        <5>1. Preserved(before[p], b) = [before[p] EXCEPT ![b] = before[p]["canonical"], !["canonical"] = NoKey]
            BY <4>3 DEF Preserved
        <5>2. registry[b] = before[p]["canonical"] /\ before[p]["canonical"] # NoKey
            BY <1>1, <1>5, <3>1, <4>3, <5>1 DEF Registry
        <5>3. n # b => registry[n] = before[p][n]
            BY <1>1, <3>1, <4>1, <5>1 DEF Registry
        <5> QED BY <1>3, <1>4, <1>5, <1>6, <2>5, <4>1, <4>3, <5>2, <5>3
      <4> QED BY <4>2, <4>3
    <3> QED BY <1>2, <3>4, <3>5, <3>6 DEF BackwardInv, Name
  <2> QED BY <2>3, <2>4, <2>5
<1> QED BY <1>1, <1>7, <1>8 DEF ProcInv

\* A snapshot is restored, or the attempt fails.
LEMMA RestoreInv ==
    ASSUME TypeOK, NEW p \in Proc, ProcInv(p), RestoreSnapshot(p) PROVE ProcInv(p)'
<1> DEFINE h == Head(captured[p])
<1>1. /\ PlanInv(p)' /\ MutationInv(p)' /\ TrailInv(p)'
      /\ guard = p /\ plan[p] \in Plan /\ before[p] \in Registry
      /\ left'.logon = left.logon /\ errors[p] \in BOOLEAN /\ errors'[p] \in BOOLEAN
      /\ errors[p] => errors'[p]
    BY RollbackFrame
<1>2. /\ pc[p] = "restore" /\ captured[p] # <<>> /\ captured'[p] = Tail(captured[p])
      /\ UNCHANGED <<guard, pc, plan, todo, mutation, cause, before>>
    BY DEF RestoreSnapshot, TypeOK
<1>3. errors'[p] \/ registry' = [registry EXCEPT ![h.name] = h.key]
    BY DEF RestoreSnapshot, Failing, TypeOK
<1>4. captured[p] \in Seq(Snapshot)
    BY DEF TypeOK
<1>5. h \in Snapshot /\ h.name \in Name /\ h.key \in Key
  <2>1. h \in Snapshot
      BY <1>2, <1>4, HeadTailProperties
  <2> QED BY <2>1 DEF Snapshot, Name
<1>6. /\ h = captured[p][1] /\ 1 \in DOMAIN captured[p]
      /\ \A i \in DOMAIN captured'[p] :
            i + 1 \in DOMAIN captured[p] /\ captured'[p][i] = captured[p][i + 1]
      /\ \A i \in DOMAIN captured[p] :
            i = 1 \/ (i - 1 \in DOMAIN captured'[p] /\ captured'[p][i - 1] = captured[p][i])
    BY <1>2, <1>4, NamesTail
<1>7. registry \in [Name -> Key \cup {NoKey}]
    BY DEF TypeOK
<1>8. PlaceInv(p)'
  <2>1. /\ PlaceInv(p) /\ (~errors[p] => Keeps(before[p], registry, NoMutation))
        /\ Standing(p)' = NoMutation
      BY <1>1, <1>2 DEF ProcInv, PlaceInv, Standing
  <2>2. \A i \in DOMAIN captured'[p] :
           before[p][captured'[p][i].name] # NoKey =>
              captured'[p][i].key.path = before[p][captured'[p][i].name].path
      BY <1>1, <1>6, <2>1 DEF PlaceInv
  <2>3. ASSUME ~errors'[p] PROVE Keeps(before[p], registry', NoMutation)
    <3>1. SUFFICES ASSUME NEW n \in Name, before[p][n] # NoKey
                   PROVE  registry'[n] # NoKey /\ registry'[n].path = before[p][n].path
      <4>1. \A n \in Name : Place(n, NoMutation) = n
          BY DEF Place, NoMutation
      <4> QED BY <4>1 DEF Keeps
    <3>2. registry[n] # NoKey /\ registry[n].path = before[p][n].path
      <4>1. Place(n, NoMutation) = n
          BY DEF Place, NoMutation
      <4> QED BY <1>1, <2>1, <2>3, <3>1, <4>1 DEF Keeps
    <3>3. CASE n = h.name
      <4>1. h.key.path = before[p][n].path
          BY <1>1, <1>6, <2>1, <3>1, <3>3 DEF PlaceInv
      <4>2. registry'[n] = h.key
          BY <1>3, <1>5, <1>7, <2>3, <3>3
      <4> QED BY <1>5, <4>1, <4>2, Keys
    <3>4. CASE n # h.name
        BY <1>3, <1>7, <2>3, <3>2, <3>4
    <3> QED BY <3>3, <3>4
  <2> QED BY <1>1, <1>2, <2>1, <2>2, <2>3 DEF PlaceInv
<1>9. ExactInv(p)'
  <2>1. SUFFICES ASSUME Undisturbed
                 PROVE  ForwardInv(p)' /\ CapturedInv(p)' /\ (~errors'[p] => BackwardInv(p)')
      BY <1>1 DEF ExactInv, Undisturbed
  <2>2. ForwardInv(p) /\ CapturedInv(p) /\ (~errors[p] => BackwardInv(p))
      BY <1>1, <2>1 DEF ProcInv, ExactInv
  <2>3. ForwardInv(p)'
      BY <1>2 DEF ForwardInv, Early, Preflight, Applied
  <2>4. CapturedInv(p)'
    <3>1. \A i \in DOMAIN captured'[p] : captured'[p][i].key = before[p][captured'[p][i].name]
        BY <1>6, <2>2 DEF CapturedInv
    <3> QED BY <1>2, <3>1 DEF CapturedInv, Applied
  <2>5. ASSUME ~errors'[p] PROVE BackwardInv(p)'
    <3>1. \A n \in Name : registry[n] = before[p][n] \/ n \in Names(captured[p])
        BY <1>1, <1>2, <2>2, <2>5 DEF BackwardInv
    <3>2. \A n \in Names(captured[p]) : n = h.name \/ n \in Names(captured'[p])
      <4>1. \A i \in DOMAIN captured[p] :
               \/ captured[p][i] = h
               \/ \E j \in DOMAIN captured'[p] : captured'[p][j] = captured[p][i]
          BY <1>6
      <4> QED BY <4>1 DEF Names
    <3>3. h.key = before[p][h.name]
        BY <1>6, <2>2 DEF CapturedInv
    <3>4. \A n \in Name : registry'[n] = before[p][n] \/ n \in Names(captured'[p])
        BY <1>3, <1>5, <1>7, <2>5, <3>1, <3>2, <3>3
    <3> QED BY <1>2, <3>4 DEF BackwardInv
  <2> QED BY <2>3, <2>4, <2>5
<1> QED BY <1>1, <1>8, <1>9 DEF ProcInv

\* The rollback's summary, and what follows it.
LEMMA SummaryInv ==
    ASSUME TypeOK, NEW p \in Proc, ProcInv(p), LogSummary(p) PROVE ProcInv(p)'
<1>1. /\ pc[p] = "restore" /\ captured[p] = <<>> /\ registry' = registry
      /\ errors[p] \in BOOLEAN /\ TrailInv(p)
    BY DEF LogSummary, TypeOK, ProcInv
<1>2. SummaryEvent(p) \in Event /\ SummaryEvent(p) # "RepairSuccess"
    BY DEF SummaryEvent, Event
<1>3. left'.logon = left.logon
    BY SpendType DEF LogSummary, AuditFails
<1>4. PICK f \in BOOLEAN :
         /\ AfterRollback(p, f)
         /\ errors[p] => f
         /\ ~f => Record(p, SummaryEvent(p))
         /\ Record(p, SummaryEvent(p)) \/ AuditFails(p, SummaryEvent(p))
    BY <1>1 DEF LogSummary
<1>5. CASE cause[p] = "audit"
  <2>1. Leave(p, IF f THEN "rollbackError" ELSE "error")
      BY <1>4, <1>5 DEF AfterRollback
  <2>2. ~f => ~LastIs(trail'[p], "RepairSuccess")
      BY <1>2, <1>4, LastRecorded
  <2> QED BY <2>1, <2>2, LeaveInv
<1>6. CASE cause[p] # "audit"
  <2>1. /\ pc'[p] = IF f THEN "logRollbackFailed" ELSE "logFailed"
        /\ UNCHANGED <<guard, plan, captured, todo, mutation, cause, errors, before, result>>
      BY <1>4, <1>6 DEF AfterRollback, Goto, TypeOK
  <2>2. guard = p /\ plan[p] \in Plan /\ before[p] \in Registry /\ ~plan[p].dryRun
      BY <1>1, Holds DEF Early, Preflight
  <2>3. pc'[p] \in {"logRollbackFailed", "logFailed"} /\ (errors[p] => pc'[p] = "logRollbackFailed")
      BY <1>4, <2>1
  <2>4. PlanInv(p)'
      BY <1>1, <2>1, <2>2, <2>3 DEF ProcInv, PlanInv, Preflight
  <2>5. MutationInv(p)'
      BY <1>1, <2>1, <2>2, <2>3 DEF ProcInv, MutationInv, Preflight, Early, Applied
  <2>6. TrailInv(p)'
    <3>1. ~LastIs(trail[p], "RepairSuccess")
        BY <1>1, <1>6 DEF TrailInv
    <3>2. ~LastIs(trail'[p], "RepairSuccess")
        BY <1>2, <1>4, <3>1, LastRecorded, LastAfterFault
    <3> QED BY <3>2 DEF TrailInv
  <2>7. PlaceInv(p)'
    <3>1. Standing(p) = NoMutation /\ Standing(p)' = NoMutation
        BY <1>1, <2>3 DEF Standing
    <3> QED BY <1>1, <2>1, <3>1 DEF ProcInv, PlaceInv
  <2>8. ExactInv(p)'
    <3>1. SUFFICES ASSUME Undisturbed
                   PROVE  ForwardInv(p)' /\ CapturedInv(p)' /\ (~errors[p] => BackwardInv(p)')
        BY <1>3, <2>1 DEF ExactInv, Undisturbed
    <3>2. CapturedInv(p) /\ (~errors[p] => BackwardInv(p))
        BY <2>2, <3>1 DEF ProcInv, ExactInv
    <3>3. ForwardInv(p)'
        BY <2>3 DEF ForwardInv, Early, Preflight, Applied
    <3>4. CapturedInv(p)'
        BY <2>1, <2>3, <3>2 DEF CapturedInv, Applied
    <3>5. ~errors[p] => registry = before[p]
      <4>1. Names(captured[p]) = {}
          BY <1>1 DEF Names
      <4>2. ~errors[p] => \A n \in Name : registry[n] = before[p][n]
          BY <1>1, <3>2, <4>1 DEF BackwardInv
      <4> QED BY <2>2, <4>2 DEF TypeOK, Registry
    <3>6. ~errors[p] => BackwardInv(p)'
        BY <1>1, <2>1, <2>3, <3>5 DEF BackwardInv
    <3> QED BY <3>3, <3>4, <3>6
  <2> QED BY <2>4, <2>5, <2>6, <2>7, <2>8 DEF ProcInv
<1> QED BY <1>5, <1>6

-----------------------------------------------------------------------------
(* Windows, and every step. *)

\* A logon gives the canonical name a key, or changes a value of it; no path is lost.
LEMMA LogonInv == ASSUME TypeOK, NEW p \in Proc, ProcInv(p), Logon PROVE ProcInv(p)'
<1>1. UNCHANGED <<guard, pc, plan, captured, todo, mutation, cause, errors, before, trail, result>>
    BY DEF Logon, locals
<1>2. ~Undisturbed'
    BY SpendType, RepairConstants DEF Logon, Undisturbed
<1>3. \A n \in Name : registry[n] # NoKey => registry'[n] # NoKey /\ registry'[n].path = registry[n].path
  <2>1. CASE Exists("canonical")
      BY <2>1, ValuesKeepPaths DEF Logon, TypeOK, Registry, Exists
  <2>2. CASE ~Exists("canonical")
    <3>1. \A n \in Name : n # "canonical" => registry'[n] = registry[n]
        BY <2>2 DEF Logon, TypeOK
    <3> QED BY <2>2, <3>1 DEF Exists
  <2> QED BY <2>1, <2>2
<1>4. PlanInv(p)' /\ MutationInv(p)' /\ TrailInv(p)'
    BY <1>1 DEF ProcInv, PlanInv, MutationInv, TrailInv
<1>5. PlaceInv(p)'
  <2>1. Standing(p)' = Standing(p) /\ (Standing(p).backup # None => Standing(p).backup \in Name)
      BY <1>1, BackupName DEF Standing, NoMutation
  <2>2. ASSUME Keeps(before[p], registry, Standing(p)) PROVE Keeps(before[p], registry', Standing(p))
      BY <1>3, <2>1, <2>2, KeepsPaths
  <2> QED BY <1>1, <2>1, <2>2 DEF ProcInv, PlaceInv
<1>6. ExactInv(p)'
    BY <1>2 DEF ExactInv
<1> QED BY <1>4, <1>5, <1>6 DEF ProcInv

\* What nothing of a process's state changes.
LEMMA StutterInv ==
    ASSUME NEW p \in Proc, ProcInv(p),
           UNCHANGED <<registry, guard, pc, locals, trail, result, left>>
    PROVE  ProcInv(p)'
<1>1. UNCHANGED <<plan, captured, todo, mutation, cause, errors, before>>
    BY DEF locals
<1>2. PlanInv(p)' /\ MutationInv(p)' /\ TrailInv(p)'
    BY <1>1 DEF ProcInv, PlanInv, MutationInv, TrailInv
<1>3. PlaceInv(p)'
  <2>1. Standing(p)' = Standing(p)
      BY <1>1 DEF Standing
  <2> QED BY <1>1, <2>1 DEF ProcInv, PlaceInv
<1>4. ExactInv(p)'
  <2>1. Base(p)' = Base(p) /\ Required(p)' = Required(p)
      BY <1>1 DEF Base, Required
  <2>2. (ForwardInv(p) => ForwardInv(p)') /\ (CapturedInv(p) => CapturedInv(p)')
      BY <1>1, <2>1 DEF ForwardInv, CapturedInv
  <2>3. BackwardInv(p) => BackwardInv(p)'
      BY <1>1 DEF BackwardInv
  <2> QED BY <1>1, <2>2, <2>3 DEF ProcInv, ExactInv, Undisturbed
<1> QED BY <1>2, <1>3, <1>4 DEF ProcInv

\* The invariant holds when no repair has begun.
LEMMA InitInv == Init => RepairInv
<1> SUFFICES ASSUME Init PROVE RepairInv
    OBVIOUS
<1>1. TypeOK
  <2>1. /\ captured \in [Proc -> Seq(Snapshot)] /\ todo \in [Proc -> Seq({"canonical", "bak"})]
        /\ trail \in [Proc -> Seq(Event)]
      BY EmptySeq DEF Init
  <2>2. left \in [fault : 0..MaxFaults, crash : 0..MaxCrashes, logon : 0..MaxLogons,
                  repair : 0..MaxRepairs]
      BY RepairConstants DEF Init
  <2>3. mutation \in [Proc -> [bakMoved : BOOLEAN, backup : Backup \cup {None}]]
      BY DEF Init, NoMutation
  <2> QED BY <2>1, <2>2, <2>3 DEF Init, TypeOK, Labels
<1>2. ASSUME NEW p \in Proc PROVE ProcInv(p)
  <2>1. /\ pc[p] = "idle" /\ guard # p /\ mutation[p] = NoMutation /\ captured[p] = <<>>
        /\ ~errors[p] /\ trail[p] = <<>>
      BY RepairConstants DEF Init
  <2>2. PlanInv(p) /\ MutationInv(p) /\ TrailInv(p)
      BY <2>1 DEF PlanInv, MutationInv, TrailInv, LastIs, NoMutation, Preflight, Early, Applied
  <2>3. PlaceInv(p) /\ ExactInv(p)
      BY <2>1 DEF PlaceInv, ExactInv
  <2> QED BY <2>2, <2>3 DEF ProcInv
<1> QED BY <1>1, <1>2 DEF RepairInv

\* A step of p keeps p's part of the invariant.
LEMMA StepInv == ASSUME TypeOK, NEW p \in Proc, ProcInv(p), Step(p) PROVE ProcInv(p)'
BY ReturnStepsInv, BeginInv, AcquireInv, WalkInv, TakeInv, PreserveInv, RenameInv, ResetInv,
   VerifyInv, FailInv, UnrenameBakInv, UnrenameCanonicalInv, RestoreInv, SummaryInv DEF Step

\* Next is a step of a process, a logon or a logoff.
LEMMA NextSteps == Next => (\E p \in Proc : Step(p)) \/ Logon \/ Logoff
BY DEF Next, Step

\* RepairInv is an inductive invariant.
THEOREM Invariance == Spec => []RepairInv
<1>1. ASSUME RepairInv, [Next]_vars PROVE RepairInv'
  <2>1. CASE Next
    <3>1. TypeOK'
        BY <1>1, <2>1, TypeStep DEF RepairInv, ProcInv
    <3>2. ASSUME NEW q \in Proc PROVE ProcInv(q)'
      <4>1. ProcInv(q) /\ TypeOK
          BY <1>1 DEF RepairInv
      <4>2. CASE Logon
          BY <4>1, <4>2, LogonInv
      <4>3. CASE Logoff
          BY <4>1, <4>3, StutterInv DEF Logoff
      <4>4. ASSUME NEW p \in Proc, Step(p) PROVE ProcInv(q)'
          BY <1>1, <4>1, <4>4, StepInv, OthersInv
      <4> QED BY <2>1, <4>2, <4>3, <4>4, NextSteps
    <3> QED BY <3>1, <3>2 DEF RepairInv
  <2>2. CASE UNCHANGED vars
    <3>1. TypeOK'
        BY <1>1, <2>2 DEF vars, locals, RepairInv, TypeOK
    <3>2. ASSUME NEW q \in Proc PROVE ProcInv(q)'
        BY <1>1, <2>2, StutterInv DEF RepairInv, vars
    <3> QED BY <3>1, <3>2 DEF RepairInv
  <2> QED BY <1>1, <2>1, <2>2
<1> QED BY <1>1, InitInv, PTL DEF Spec

\* Every variable keeps its type.
THEOREM TypeCorrectness == Spec => []TypeOK
<1>1. RepairInv => TypeOK
    BY DEF RepairInv
<1> QED BY <1>1, Invariance, PTL

\* A repair whose last journal event is RepairSuccess did not return an ordinary error.
THEOREM SuccessTruthful == Spec => []SuccessIsTruthful
<1>1. RepairInv => SuccessIsTruthful
    BY DEF RepairInv, ProcInv, TrailInv, LastIs, SuccessIsTruthful
<1> QED BY <1>1, Invariance, PTL

-----------------------------------------------------------------------------
(* What a return may do. *)

\* Where a repair that holds the guard can return from.
LEMMA Returning ==
    ASSUME RepairInv, Next, NEW p \in Proc, pc[p] # "idle", pc'[p] = "idle", guard = p
    PROVE  /\ registry' = registry
           /\ result'[p] = "ok" => pc[p] = "logSuccess"
           /\ result'[p] = "error" => \/ pc[p] \in Early \cup {"logFailed"}
                                      \/ pc[p] = "restore" /\ captured[p] = <<>> /\ ~errors[p]
<1>1. TypeOK /\ PlanInv(p)
    BY DEF RepairInv, ProcInv
<1>2. Step(p)
  <2>1. ~Logon /\ ~Logoff
      BY DEF Logon, Logoff
  <2>2. ASSUME NEW q \in Proc, Step(q), q # p PROVE FALSE
      BY <2>2, OthersKeep DEF RepairInv, ProcInv
  <2> QED BY <2>1, <2>2, NextSteps
<1>3. ASSUME NEW r, Leave(p, r) PROVE result'[p] = r
    BY <1>1, <1>3 DEF Leave, TypeOK
<1>4. CASE \/ Begin(p) \/ AcquireGuard(p) \/ InspectLocks(p) \/ ValidatePlan(p)
           \/ ChooseSnapshots(p) \/ TakeSnapshot(p) \/ LogStarted(p) \/ OpenParent(p)
    BY <1>1, <1>4 DEF Begin, AcquireGuard, InspectLocks, ValidatePlan, ChooseSnapshots,
                      TakeSnapshot, LogStarted, OpenParent, Goto, TypeOK
<1>5. CASE \/ PreserveCanonical(p) \/ RenameBak(p) \/ ResetValue(p) \/ Verify(p)
           \/ UnrenameBak(p) \/ UnrenameCanonical(p) \/ RestoreSnapshot(p) \/ StepFails(p)
           \/ SuccessAuditFails(p)
    BY <1>1, <1>5 DEF PreserveCanonical, RenameBak, ResetValue, Verify, UnrenameBak,
                      UnrenameCanonical, RestoreSnapshot, StepFails, SuccessAuditFails, Goto, TypeOK
<1>6. CASE InspectionRefuses(p) \/ Refuse(p) \/ EarlyFault(p) \/ EarlyAuditFault(p)
  <2>1. Leave(p, "error") /\ registry' = registry
      BY <1>6 DEF InspectionRefuses, Refuse, EarlyFault, EarlyAuditFault
  <2>2. pc[p] \in Early \cup {"guard"}
      BY <1>6 DEF InspectionRefuses, Refuse, EarlyFault, EarlyAuditFault, Early, Preflight
  <2> QED BY <1>1, <1>3, <2>1, <2>2 DEF PlanInv
<1>7. CASE LogDryRun(p)
    BY <1>1, <1>7 DEF LogDryRun, PlanInv
<1>8. CASE LogSuccess(p)
    BY <1>3, <1>8 DEF LogSuccess
<1>9. CASE LogFailure(p)
    BY <1>3, <1>9 DEF LogFailure
<1>10. CASE LogSummary(p)
  <2>1. PICK f \in BOOLEAN : AfterRollback(p, f) /\ (errors[p] => f)
      BY <1>1, <1>10 DEF LogSummary, TypeOK
  <2>2. cause[p] = "audit"
      BY <1>1, <2>1 DEF AfterRollback, Goto, TypeOK
  <2>3. Leave(p, IF f THEN "rollbackError" ELSE "error")
      BY <2>1, <2>2 DEF AfterRollback
  <2> QED BY <1>3, <1>10, <2>1, <2>3 DEF LogSummary
<1>11. CASE Crash(p)
    BY <1>3, <1>11 DEF Crash
<1> QED BY <1>2, <1>4, <1>5, <1>6, <1>7, <1>8, <1>9, <1>10, <1>11 DEF Step

\* An ordinary error means that the registry is as the repair found it.
LEMMA ErrorRestores ==
    ASSUME RepairInv, Next, NEW p \in Proc, Returns(p, "error"), guard = p, Undisturbed
    PROVE  registry' = before[p]
<1>1. /\ registry' = registry
      /\ \/ pc[p] \in Early \cup {"logFailed"}
         \/ pc[p] = "restore" /\ captured[p] = <<>> /\ ~errors[p]
    BY Returning DEF Returns
<1>2. ProcInv(p) /\ TypeOK
    BY DEF RepairInv
<1>3. CASE pc[p] \in Early
    BY <1>1, <1>2, <1>3, EarlyFacts
<1>4. CASE pc[p] = "logFailed"
    BY <1>1, <1>2, <1>4 DEF ProcInv, MutationInv, ExactInv, BackwardInv
<1>5. CASE pc[p] = "restore" /\ captured[p] = <<>> /\ ~errors[p]
  <2>1. \A n \in Name : registry[n] = before[p][n]
      BY <1>2, <1>5 DEF ProcInv, ExactInv, BackwardInv, Names
  <2>2. before[p] \in Registry
      BY <1>2, <1>5, Holds DEF Early, Preflight
  <2> QED BY <1>1, <1>2, <2>1, <2>2 DEF TypeOK, Registry
<1> QED BY <1>1, <1>3, <1>4, <1>5

\* A failed repair restores the captured registry state.
THEOREM FailedRepairsRestore == Spec => FailedRepairRestores
<1>1. ASSUME RepairInv, [Next]_vars
      PROVE  [\A p \in Proc :
                 Returns(p, "error") /\ guard = p /\ Undisturbed => registry' = before[p]]_vars
    BY <1>1, ErrorRestores
<1> QED BY <1>1, Invariance, PTL DEF Spec, FailedRepairRestores

\* Success means that the registry is exactly the repaired one.
LEMMA OkRepairs ==
    ASSUME RepairInv, Next, NEW p \in Proc, Returns(p, "ok"), guard = p, Undisturbed
    PROVE  Repaired(plan[p], before[p], registry')
<1> DEFINE c == mutation[p].backup
           s == plan[p]
           old == before[p]
<1>1. pc[p] = "logSuccess" /\ registry' = registry
    BY Returning DEF Returns
<1>2. ProcInv(p) /\ TypeOK
    BY DEF RepairInv
<1>3. s \in Plan /\ old \in Registry
    BY <1>1, <1>2, Holds DEF Early, Preflight
<1>4. /\ registry = IF s.resetState
                    THEN [Base(p) EXCEPT !["canonical"].state = 0, !["canonical"].refCount = 0]
                    ELSE Base(p)
      /\ s.fixBak => (c = None <=> old["canonical"] = NoKey)
    BY <1>1, <1>2 DEF ProcInv, ExactInv, ForwardInv, Applied
<1>5. (mutation[p].bakMoved <=> s.fixBak) /\ (c # None => s.fixBak)
    BY <1>1, <1>2 DEF ProcInv, MutationInv, Applied
<1>6. c # None => c \in Backup /\ c \in Name /\ c \notin {"canonical", "bak"}
    BY <1>2, BackupName
<1>7. {"canonical", "bak"} \subseteq Name /\ s.fixBak \in BOOLEAN /\ s.resetState \in BOOLEAN
    BY <1>3 DEF Name, Plan
<1>8. Preserved(old, c) \in Registry
    BY <1>3, <1>6, <1>7 DEF Preserved, Registry
<1>9. /\ Base(p) \in Registry
      /\ Base(p)["canonical"] = old[IF s.fixBak THEN "bak" ELSE "canonical"]
      /\ s.fixBak => Base(p)["bak"] = NoKey
      /\ c # None => Base(p)[c] = old["canonical"]
  <2>1. CASE s.fixBak
    <3>1. Base(p) = [Preserved(old, c) EXCEPT !["canonical"] = Preserved(old, c)["bak"], !["bak"] = NoKey]
        BY <1>5, <2>1 DEF Base, Moved
    <3>2. Preserved(old, c)["bak"] = old["bak"] /\ (c # None => Preserved(old, c)[c] = old["canonical"])
        BY <1>3, <1>6, <1>7 DEF Preserved, Registry
    <3> QED BY <1>6, <1>7, <1>8, <2>1, <3>1, <3>2 DEF Registry
  <2>2. CASE ~s.fixBak
      BY <1>3, <1>5, <2>2 DEF Base, Moved, Preserved
  <2> QED BY <2>1, <2>2
<1>10. /\ registry["canonical"] = IF s.resetState
                                  THEN [Base(p)["canonical"] EXCEPT !.state = 0, !.refCount = 0]
                                  ELSE Base(p)["canonical"]
       /\ \A n \in Name : n # "canonical" => registry[n] = Base(p)[n]
    BY <1>4, <1>7, <1>9 DEF Registry
<1> QED BY <1>1, <1>4, <1>6, <1>7, <1>9, <1>10 DEF Repaired

\* A repair that returns success has repaired the profile and lost nothing.
THEOREM SuccessesRepair == Spec => SuccessRepairs
<1>1. ASSUME RepairInv, [Next]_vars
      PROVE  [\A p \in Proc :
                 Returns(p, "ok") /\ guard = p /\ Undisturbed
                    => Repaired(plan[p], before[p], registry')]_vars
    BY <1>1, OkRepairs
<1> QED BY <1>1, Invariance, PTL DEF Spec, SuccessRepairs

\* Whatever logs on meanwhile, no registration is lost by a return or a crash that no failed
\* rollback step precedes.
THEOREM RegistrationsAreKept == Spec => RegistrationsSurvive
<1>1. ASSUME RepairInv, Next, NEW p \in Proc, pc[p] # "idle", pc'[p] = "idle", guard = p,
             result'[p] \in {"ok", "error"} \/ (result'[p] = "crashed" /\ ~errors[p]),
             NEW n \in Name, before[p][n] # NoKey
      PROVE  Registered(before[p][n].path, registry')
  <2>1. ProcInv(p) /\ TypeOK
      BY <1>1 DEF RepairInv
  <2>2. registry' = registry /\ ~errors[p]
      BY <1>1, <2>1, Returning DEF ProcInv, MutationInv, Early, Preflight
  <2>3. Keeps(before[p], registry, Standing(p))
      BY <1>1, <2>1, <2>2 DEF ProcInv, PlaceInv
  <2>4. Place(n, Standing(p)) \in Name
    <3>1. Standing(p).backup # None => Standing(p).backup \in Name
        BY <2>1, BackupName DEF Standing, NoMutation
    <3> QED BY <1>1, <3>1 DEF Place, Name
  <2> QED BY <1>1, <2>2, <2>3, <2>4 DEF Keeps, Registered
<1>2. ASSUME RepairInv, [Next]_vars
      PROVE  [\A p \in Proc :
                 /\ pc[p] # "idle" /\ pc'[p] = "idle" /\ guard = p
                 /\ result'[p] \in {"ok", "error"} \/ (result'[p] = "crashed" /\ ~errors[p])
                 => \A n \in Name :
                       before[p][n] # NoKey => Registered(before[p][n].path, registry')]_vars
    BY <1>1, <1>2
<1> QED BY <1>2, Invariance, PTL DEF Spec, RegistrationsSurvive
=============================================================================
