------------------------ MODULE LegacyRecoveryProofs ------------------------
(***************************************************************************)
(* TLAPS proofs about LegacyRecovery, for any number of processes,         *)
(* migrations, objects, faults, crashes and substitutions.                 *)
(***************************************************************************)
EXTENDS LegacyRecovery, TLAPS

\* Where a worker holds the bootstrap lock, and where it advances a record.
Recorded == {"writePrepared", "detach", "writeDetached", "activate", "resume",
             "writeRootReady", "openRoot", "writeAuditPending", "audit", "writeDone"}
Locked == Recorded \cup {"load", "start", "createNext"}

\* The lock excludes: at most one worker is past AcquireLock.
Mutex == \A p \in Proc : pc[p] \in Locked => lock = p

\* Every marker records a fresh protected replacement for a source someone consented to.
MarkerInv == \A m \in markers : m.id \in used /\ m.next \in Protected /\ m.source \in consented

\* A recovery that is being executed is for a consented identity; a resumed one always is.
ConsentInv ==
    \A p \in Proc :
        /\ pc[p] = "offer" => /\ recovery[p] \in Recovery
                              /\ recovery[p].resume => recovery[p].identity \in consented
        /\ pc[p] \in {"bootstrap", "lock", "load", "start", "createNext"} =>
              recovery[p] \in Recovery /\ recovery[p].identity \in consented

\* Handles: deleters are handles, and a worker outside the namespace work holds none.
HandleInv ==
    \A p \in Proc :
        /\ deleters[p] \subseteq held[p]
        /\ pc[p] \in {"off", "inspect", "classify", "identify", "create", "offer", "error",
                      "bootstrap", "lock", "load", "start", "resume", "openRoot"} =>
              held[p] = {}

\* Between opening the source and renaming it, nobody else can hold the production root.
SourceExclusive ==
    \A p \in Proc : pc[p] \in {"createNext", "writePrepared", "detach"} =>
        /\ active \in deleters[p]
        /\ \A q \in Proc \ {p} : active \notin held[q]
        /\ active = IF pc[p] = "createNext" THEN recovery[p].identity ELSE state[p].source

\* The record a worker advances against the markers: absent, or the one pending marker.
RecordInv ==
    \A p \in Proc :
        /\ pc[p] \in Recorded => /\ state[p] \in Marker
                                 /\ state[p].id \in used
                                 /\ state[p].next \in Protected
                                 /\ state[p].source \in consented
        /\ pc[p] \in {"start", "createNext", "writePrepared"} => PendingSet = {}
        /\ pc[p] = "writePrepared" => MarkersOf(state[p].id) = {}
        /\ pc[p] \in Recorded \ {"writePrepared"} => state[p] \in PendingSet

\* The phase of the record and the namespace at each label of the worker.
LabelInv ==
    \A p \in Proc :
        /\ pc[p] \in {"writePrepared", "detach", "writeDetached"} => state[p].phase = Prepared
        /\ pc[p] \in {"activate", "writeRootReady"} => state[p].phase = Detached
        /\ pc[p] = "openRoot" => state[p].phase \in {RootReady, AuditPending}
        /\ pc[p] = "writeAuditPending" => state[p].phase = RootReady
        /\ pc[p] \in {"audit", "writeDone"} => state[p].phase = AuditPending
        /\ pc[p] \in {"writePrepared", "detach", "activate"} =>
              /\ next[state[p].id] = state[p].next
              /\ state[p].next \in held[p]
        /\ pc[p] = "writeDetached" =>
              /\ legacy[state[p].id] = state[p].source
              /\ \/ held[p] = {}
                 \/ state[p].next \in held[p] /\ next[state[p].id] = state[p].next
        /\ pc[p] = "writeRootReady" => active = state[p].next
        /\ pc[p] \in {"writeAuditPending", "audit", "writeDone"} => held[p] = {state[p].next}
        /\ pc[p] = "writeDone" => <<state[p].next, state[p].id>> \in events

\* Terminal events are only ever written to journals of protected roots.
EventInv == \A e \in events : e[1] \in Protected

IInv == /\ TypeOK /\ Mutex /\ MarkerInv /\ ConsentInv /\ HandleInv /\ SourceExclusive
        /\ RecordInv /\ LabelInv /\ EventInv
        /\ JournalConsistent /\ PhaseMatchesNamespace /\ DetachedWasConsented
        /\ AuditBeforeDone /\ DashboardRootPinned /\ AuditedRootKept
-----------------------------------------------------------------------------

\* Reading the markers depends on the marker files only.
LEMMA MarkersKept ==
    ASSUME JournalConsistent, UNCHANGED markers
    PROVE  JournalConsistent' /\ PendingSet' = PendingSet
BY DEF JournalConsistent, SequenceValid, MarkersOf, PendingSet

\* Publishing the Prepared marker of a new migration makes it the only pending one.
LEMMA PublishFirst ==
    ASSUME TypeOK, JournalConsistent, PendingSet = {},
           NEW s \in Marker, s.phase = Prepared, MarkersOf(s.id) = {},
           markers' = markers \cup {s}
    PROVE  PendingSet' = {s} /\ JournalConsistent'
<1> USE DEF Prepared, Done, Phase, Marker
<1>1. PendingSet' = {s}
    BY DEF TypeOK, PendingSet, MarkersOf
<1>2. ASSUME NEW i \in Id PROVE SequenceValid(i)'
  <2>1. CASE i = s.id
    <3>1. MarkersOf(i)' = {s}
        BY <2>1 DEF MarkersOf
    <3>2. {m.phase : m \in {s}} = Prepared .. s.phase
        OBVIOUS
    <3> QED BY <3>1, <3>2 DEF SequenceValid
  <2>2. CASE i # s.id
    <3>1. MarkersOf(i)' = MarkersOf(i)
        BY <2>2 DEF MarkersOf
    <3>2. SequenceValid(i)
        BY DEF JournalConsistent
    <3> QED BY <3>1, <3>2 DEF SequenceValid
  <2> QED BY <2>1, <2>2
<1> QED BY <1>1, <1>2 DEF JournalConsistent

\* Publishing the successor of the pending marker keeps the sequence complete.
LEMMA PublishNext ==
    ASSUME TypeOK, JournalConsistent, NEW s \in PendingSet,
           NEW t \in Marker, t.id = s.id, t.source = s.source, t.next = s.next,
           t.phase = s.phase + 1, markers' = markers \cup {t}
    PROVE  PendingSet' = (IF t.phase = Done THEN {} ELSE {t}) /\ JournalConsistent'
<1> USE DEF Prepared, Done, Phase, Marker
<1>0. s \in markers /\ s \in Marker /\ \A m \in MarkersOf(s.id) : m.phase <= s.phase
    BY DEF TypeOK, PendingSet
<1>1. PendingSet' = IF t.phase = Done THEN {} ELSE {t}
  <2>1. ASSUME NEW m \in PendingSet' PROVE m = t
    <3>1. CASE m \in markers
      <4>1. m.id # t.id
          BY <3>1, <2>1, <1>0 DEF PendingSet, MarkersOf, TypeOK
      <4>2. m \in PendingSet
          BY <3>1, <2>1, <4>1 DEF PendingSet, MarkersOf
      <4> QED BY <4>1, <4>2 DEF JournalConsistent
    <3> QED BY <2>1, <3>1 DEF PendingSet
  <2>2. ASSUME t.phase # Done PROVE t \in PendingSet'
      BY <2>2, <1>0 DEF PendingSet, MarkersOf, TypeOK
  <2>3. ASSUME t.phase = Done PROVE t \notin PendingSet'
      BY <2>3 DEF PendingSet
  <2> QED BY <2>1, <2>2, <2>3
<1>2. ASSUME NEW i \in Id PROVE SequenceValid(i)'
  <2>1. CASE i = s.id
    <3>1. MarkersOf(i)' = MarkersOf(i) \cup {t}
        BY <2>1 DEF MarkersOf
    <3>2. PICK last \in MarkersOf(i) :
             /\ {m.phase : m \in MarkersOf(i)} = Prepared .. last.phase
             /\ \A m \in MarkersOf(i) : m.source = last.source /\ m.next = last.next
        BY <2>1, <1>0 DEF JournalConsistent, SequenceValid, MarkersOf
    <3>3. last.phase = s.phase
      <4>1. s \in MarkersOf(i) /\ last \in markers
          BY <2>1, <1>0, <3>2 DEF MarkersOf
      <4>2. s.phase \in Prepared .. last.phase /\ last.phase <= s.phase
          BY <4>1, <3>2, <1>0, <2>1
      <4> QED BY <4>1, <4>2, <1>0 DEF TypeOK
    <3>4. {m.phase : m \in MarkersOf(i) \cup {t}} = Prepared .. t.phase
      <4>1. {m.phase : m \in MarkersOf(i) \cup {t}} = (Prepared .. s.phase) \cup {t.phase}
          BY <3>2, <3>3
      <4> QED BY <4>1, <1>0
    <3>5. \A m \in MarkersOf(i) \cup {t} : m.source = t.source /\ m.next = t.next
        BY <3>2, <1>0, <2>1 DEF MarkersOf
    <3> QED BY <3>1, <3>4, <3>5 DEF SequenceValid
  <2>2. CASE i # s.id
    <3>1. MarkersOf(i)' = MarkersOf(i)
        BY <2>2 DEF MarkersOf
    <3>2. SequenceValid(i)
        BY DEF JournalConsistent
    <3> QED BY <3>1, <3>2 DEF SequenceValid
  <2> QED BY <2>1, <2>2
<1> QED BY <1>1, <1>2 DEF JournalConsistent

\* What persist_prepared_state publishes when a worker is about to write Prepared.
LEMMA PreparedPublished ==
    ASSUME IInv, NEW p \in Proc, pc[p] = "writePrepared", markers' = markers \cup {state[p]}
    PROVE  PendingSet' = {state[p]} /\ JournalConsistent'
BY PublishFirst DEF IInv, RecordInv, LabelInv, Recorded

\* The phase a worker is about to publish.
LEMMA WorkerPhase ==
    ASSUME IInv, NEW p \in Proc
    PROVE  /\ pc[p] = "writePrepared" => state[p] \in Marker /\ state[p].phase = Prepared
           /\ pc[p] = "writeDetached" => state[p] \in Marker /\ state[p].phase = Prepared
           /\ pc[p] = "writeRootReady" => state[p] \in Marker /\ state[p].phase = Detached
           /\ pc[p] = "writeAuditPending" => state[p] \in Marker /\ state[p].phase = RootReady
           /\ pc[p] = "writeDone" => state[p] \in Marker /\ state[p].phase = AuditPending
BY DEF IInv, RecordInv, LabelInv, Recorded

\* What write_state publishes at the later phases: the successor of the pending marker.
LEMMA SuccessorPublished ==
    ASSUME IInv, NEW p \in Proc,
           pc[p] \in {"writeDetached", "writeRootReady", "writeAuditPending", "writeDone"},
           NEW t, t = [state[p] EXCEPT !.phase = @ + 1],
           markers' = markers \cup {t}
    PROVE  /\ t \in Marker /\ t.phase = state[p].phase + 1
           /\ t.id = state[p].id /\ t.source = state[p].source /\ t.next = state[p].next
           /\ PendingSet' = (IF pc[p] = "writeDone" THEN {} ELSE {t})
           /\ JournalConsistent'
<1> USE DEF Prepared, Detached, RootReady, AuditPending, Done, Phase, Marker
<1>1. state[p] \in PendingSet /\ state[p] \in Marker
    BY DEF IInv, RecordInv, Recorded
<1>2. state[p].phase \in Prepared .. AuditPending
      /\ (state[p].phase = AuditPending <=> pc[p] = "writeDone")
    BY WorkerPhase
<1>3. /\ t \in Marker /\ t.phase = state[p].phase + 1
      /\ t.id = state[p].id /\ t.source = state[p].source /\ t.next = state[p].next
    BY <1>1, <1>2
<1>4. t.phase = Done <=> pc[p] = "writeDone"
    BY <1>2, <1>3
<1>5. TypeOK /\ JournalConsistent
    BY DEF IInv
<1>6. PendingSet' = (IF t.phase = Done THEN {} ELSE {t}) /\ JournalConsistent'
    BY <1>1, <1>3, <1>5, PublishNext
<1> QED BY <1>3, <1>4, <1>6

\* The namespace a worker relies on when it publishes a phase after Prepared.
LEMMA WorkerNamespace ==
    ASSUME IInv, NEW p \in Proc
    PROVE  /\ pc[p] = "writeDetached" => legacy[state[p].id] = state[p].source
           /\ pc[p] \in {"writeRootReady", "writeAuditPending", "audit", "writeDone"} =>
                 legacy[state[p].id] = state[p].source /\ active = state[p].next
<1> USE DEF Prepared, Detached, RootReady, AuditPending, Done
<1>1. pc[p] \in {"writeRootReady", "writeAuditPending", "audit", "writeDone"} =>
         state[p] \in PendingSet /\ state[p] \in markers
    BY DEF IInv, RecordInv, Recorded, PendingSet
<1>2. /\ pc[p] = "writeRootReady" => state[p].phase = Detached /\ active = state[p].next
      /\ pc[p] = "writeAuditPending" => state[p].phase = RootReady
      /\ pc[p] \in {"audit", "writeDone"} => state[p].phase = AuditPending
      /\ pc[p] = "writeDetached" => legacy[state[p].id] = state[p].source
    BY DEF IInv, LabelInv
<1> QED BY <1>1, <1>2 DEF IInv, PhaseMatchesNamespace

\* The terminal event goes to the journal of the replacement, which is the production root.
LEMMA EventWritten ==
    ASSUME IInv, NEW p \in Proc, pc[p] = "audit",
           events' = events \cup {<<o, state[p].id>> : o \in held[p]}
    PROVE  /\ events' = events \cup {<<state[p].next, state[p].id>>}
           /\ state[p].next \in Protected /\ active = state[p].next
<1>1. held[p] = {state[p].next}
    BY DEF IInv, LabelInv
<1>2. state[p].next \in Protected
    BY DEF IInv, RecordInv, Recorded
<1>3. active = state[p].next
    BY WorkerNamespace
<1> QED BY <1>1, <1>2, <1>3

\* Who writes the durable state: markers, terminal events and detached names.
LEMMA Frame ==
    ASSUME NEW p \in Proc, Work(p) \/ Operate(p) \/ Misfortune(p)
    PROVE  /\ \/ WritePrepared(p) \/ WriteDetached(p) \/ WriteRootReady(p)
              \/ WriteAuditPending(p) \/ WriteDone(p) \/ FaultAfterPublication(p)
              \/ UNCHANGED markers
           /\ LogTerminalEvent(p) \/ FaultAfterEvent(p) \/ UNCHANGED events
           /\ DetachSource(p) \/ ResumeDetach(p) \/ UNCHANGED legacy
           /\ used \subseteq used' /\ consented \subseteq consented'
BY DEF Work, Operate, Misfortune, InspectMarkers, Classify, CreateRoot, CaptureIdentity,
   OpenBootstrap, AcquireLock, LoadPending, OpenSource, CreateNext, WritePrepared,
   DetachSource, WriteDetached, ActivateNext, ResumeDetach, ResumeActivate, ResumeVerify,
   WriteRootReady, OpenRoot, WriteAuditPending, LogTerminalEvent, WriteDone, Refuse, Launch,
   Proceed, Retry, Quit, Fault, FaultBeforePrepared, FaultAfterPublication, FaultAfterEvent,
   Crash, Publish, Abort, Release, Spend, Goto, namespace, durable, handles, locals

\* Other software touches only the WinProfile name, the objects born and its own budget.
LEMMA SubstituteFrame ==
    ASSUME Substitute
    PROVE  UNCHANGED <<next, legacy, used, bootstrap, markers, events, pc, recovery, state,
                       creator, lock, held, deleters, consented>>
BY DEF Substitute, durable, locals, handles

\* A publication adds the worker's record, or its successor, and changes nothing it is
\* judged by: the identities of the record, the events and the detached names.
LEMMA PublicationAdds ==
    ASSUME IInv, NEW p \in Proc,
           \/ WritePrepared(p) \/ WriteDetached(p) \/ WriteRootReady(p)
           \/ WriteAuditPending(p) \/ WriteDone(p) \/ FaultAfterPublication(p)
    PROVE  \E t \in Marker :
              /\ t.id = state[p].id /\ t.source = state[p].source /\ t.next = state[p].next
              /\ IF pc[p] = "writePrepared" THEN t = state[p]
                                            ELSE t = [state[p] EXCEPT !.phase = @ + 1]
              /\ t.phase = Done <=> pc[p] = "writeDone"
              /\ markers' = markers \cup {t}
              /\ PendingSet' = (IF pc[p] = "writeDone" THEN {} ELSE {t})
              /\ state' = [state EXCEPT ![p] = t] \/ pc'[p] \in {"ready", "error"}
              /\ pc[p] \in {"writePrepared", "writeDetached", "writeRootReady",
                            "writeAuditPending", "writeDone"}
<1> USE DEF Prepared, Detached, RootReady, AuditPending, Done, Phase, Marker
<1> DEFINE u == IF pc[p] = "writePrepared" THEN state[p]
                                           ELSE [state[p] EXCEPT !.phase = @ + 1]
<1>1. pc[p] \in {"writePrepared", "writeDetached", "writeRootReady", "writeAuditPending",
                 "writeDone"}
    BY DEF WritePrepared, WriteDetached, WriteRootReady, WriteAuditPending, WriteDone,
       FaultAfterPublication
<1>2. /\ u \in Marker
      /\ u.id = state[p].id /\ u.source = state[p].source /\ u.next = state[p].next
      /\ u.phase = Done <=> pc[p] = "writeDone"
    BY <1>1, WorkerPhase
<1>3. /\ markers' = markers \cup {u}
      /\ state' = [state EXCEPT ![p] = u] \/ pc'[p] \in {"ready", "error"}
  <2>0. pc \in [Proc -> PC]
      BY DEF IInv, TypeOK
  <2>1. CASE WritePrepared(p)
      BY <2>1, WorkerPhase DEF WritePrepared, Publish
  <2>2. CASE WriteDetached(p)
    <3>1. u = [state[p] EXCEPT !.phase = Detached]
        BY <2>2, WorkerPhase DEF WriteDetached
    <3> HIDE DEF u
    <3> QED BY <2>2, <3>1 DEF WriteDetached, Publish
  <2>3. CASE WriteRootReady(p)
    <3>1. u = [state[p] EXCEPT !.phase = RootReady]
        BY <2>3, WorkerPhase DEF WriteRootReady
    <3> HIDE DEF u
    <3> QED BY <2>3, <3>1 DEF WriteRootReady, Publish
  <2>4. CASE WriteAuditPending(p)
    <3>1. u = [state[p] EXCEPT !.phase = AuditPending]
        BY <2>4, WorkerPhase DEF WriteAuditPending
    <3> HIDE DEF u
    <3> QED BY <2>4, <3>1 DEF WriteAuditPending, Publish
  <2>5. CASE WriteDone(p)
      BY <2>0, <2>5, WorkerPhase DEF WriteDone, Goto
  <2>6. CASE FaultAfterPublication(p)
      BY <2>0, <2>6 DEF FaultAfterPublication, Abort, Goto
  <2> QED BY <2>1, <2>2, <2>3, <2>4, <2>5, <2>6
<1> HIDE DEF u
<1>4. IF pc[p] = "writePrepared" THEN u = state[p]
                                 ELSE u = [state[p] EXCEPT !.phase = @ + 1]
    BY DEF u
<1>5. PendingSet' = (IF pc[p] = "writeDone" THEN {} ELSE {u})
  <2>1. CASE pc[p] = "writePrepared"
      BY <1>3, <1>4, <2>1, PreparedPublished
  <2>2. CASE pc[p] # "writePrepared"
      BY <1>1, <1>3, <1>4, <2>2, SuccessorPublished
  <2> QED BY <2>1, <2>2
<1> QED BY <1>1, <1>2, <1>3, <1>4, <1>5

\* A published record comes from CreateNext, or repeats an earlier marker's identities.
LEMMA MarkerStep == ASSUME IInv, Next PROVE MarkerInv'
<1>0. MarkerInv /\ RecordInv
    BY DEF IInv
<1>1. ASSUME NEW p \in Proc, Work(p) \/ Operate(p) \/ Misfortune(p) PROVE MarkerInv'
  <2>1. used \subseteq used' /\ consented \subseteq consented'
      BY <1>1, Frame
  <2>2. CASE UNCHANGED markers
      BY <1>0, <2>1, <2>2 DEF MarkerInv
  <2>3. CASE \/ WritePrepared(p) \/ WriteDetached(p) \/ WriteRootReady(p)
             \/ WriteAuditPending(p) \/ WriteDone(p) \/ FaultAfterPublication(p)
    <3>1. PICK t \in Marker :
             /\ t.id = state[p].id /\ t.source = state[p].source /\ t.next = state[p].next
             /\ markers' = markers \cup {t}
             /\ pc[p] \in Recorded
        BY <2>3, PublicationAdds DEF Recorded
    <3>2. t.id \in used /\ t.next \in Protected /\ t.source \in consented
        BY <1>0, <3>1 DEF RecordInv
    <3> QED BY <1>0, <2>1, <3>1, <3>2 DEF MarkerInv
  <2> QED BY <1>1, <2>2, <2>3, Frame
<1>2. ASSUME Substitute PROVE MarkerInv'
    BY <1>0, <1>2, SubstituteFrame DEF MarkerInv
<1> QED BY <1>1, <1>2 DEF Next

\* The journal written to is the replacement's.
LEMMA EventStep == ASSUME IInv, Next PROVE EventInv'
<1>0. EventInv
    BY DEF IInv
<1>1. ASSUME NEW p \in Proc, LogTerminalEvent(p) \/ FaultAfterEvent(p) PROVE EventInv'
  <2>1. /\ events' = events \cup {<<state[p].next, state[p].id>>}
        /\ state[p].next \in Protected
      BY <1>1, EventWritten DEF LogTerminalEvent, FaultAfterEvent
  <2> QED BY <1>0, <2>1 DEF EventInv
<1>2. ASSUME UNCHANGED events PROVE EventInv'
    BY <1>0, <1>2 DEF EventInv
<1> QED BY <1>1, <1>2, Frame, SubstituteFrame DEF Next

\* What is renamed is the consented source itself.
LEMMA DetachedWasConsentedStep == ASSUME IInv, Next PROVE DetachedWasConsented'
<1>0. TypeOK /\ RecordInv /\ DetachedWasConsented
    BY DEF IInv
<1>1. ASSUME NEW p \in Proc, Work(p) \/ Operate(p) \/ Misfortune(p)
      PROVE  DetachedWasConsented'
  <2>1. consented \subseteq consented'
      BY <1>1, Frame
  <2>2. CASE UNCHANGED legacy
      BY <1>0, <2>1, <2>2 DEF DetachedWasConsented
  <2>3. CASE DetachSource(p) \/ ResumeDetach(p)
    <3>1. \/ UNCHANGED legacy
          \/ /\ legacy' = [legacy EXCEPT ![state[p].id] = active]
             /\ active = state[p].source
        BY <2>3 DEF DetachSource, ResumeDetach, RenameSource
    <3>2. state[p].source \in consented
        BY <1>0, <2>3 DEF RecordInv, Recorded, DetachSource, ResumeDetach
    <3>3. legacy \in [Id -> Object \cup {None}]
        BY <1>0 DEF TypeOK
    <3> QED BY <1>0, <2>1, <3>1, <3>2, <3>3 DEF DetachedWasConsented
  <2> QED BY <1>1, <2>2, <2>3, Frame
<1>2. ASSUME Substitute PROVE DetachedWasConsented'
    BY <1>0, <1>2, SubstituteFrame DEF DetachedWasConsented
<1> QED BY <1>1, <1>2 DEF Next

\* The Done marker is written at the label after the event, and events are only added.
LEMMA AuditBeforeDoneStep == ASSUME IInv, Next PROVE AuditBeforeDone'
<1>0. LabelInv /\ AuditBeforeDone
    BY DEF IInv
<1>1. ASSUME NEW p \in Proc, Work(p) \/ Operate(p) \/ Misfortune(p) PROVE AuditBeforeDone'
  <2>1. events \subseteq events'
      BY <1>1, Frame DEF LogTerminalEvent, FaultAfterEvent
  <2>2. CASE UNCHANGED markers
      BY <1>0, <2>1, <2>2 DEF AuditBeforeDone
  <2>3. CASE \/ WritePrepared(p) \/ WriteDetached(p) \/ WriteRootReady(p)
             \/ WriteAuditPending(p) \/ WriteDone(p) \/ FaultAfterPublication(p)
    <3>1. PICK t \in Marker :
             /\ t.id = state[p].id /\ t.next = state[p].next
             /\ t.phase = Done <=> pc[p] = "writeDone"
             /\ markers' = markers \cup {t}
        BY <2>3, PublicationAdds
    <3>2. t.phase = Done => <<t.next, t.id>> \in events
        BY <1>0, <3>1 DEF LabelInv
    <3> QED BY <1>0, <2>1, <3>1, <3>2 DEF AuditBeforeDone
  <2> QED BY <1>1, <2>2, <2>3, Frame
<1>2. ASSUME Substitute PROVE AuditBeforeDone'
    BY <1>0, <1>2, SubstituteFrame DEF AuditBeforeDone
<1> QED BY <1>1, <1>2 DEF Next

\* Each publication is the phase the reader expects next.
LEMMA JournalStep == ASSUME IInv, Next PROVE JournalConsistent'
<1>0. JournalConsistent
    BY DEF IInv
<1>1. ASSUME NEW p \in Proc,
             \/ WritePrepared(p) \/ WriteDetached(p) \/ WriteRootReady(p)
             \/ WriteAuditPending(p) \/ WriteDone(p) \/ FaultAfterPublication(p)
      PROVE  JournalConsistent'
  <2>1. PICK t \in Marker :
           /\ IF pc[p] = "writePrepared" THEN t = state[p]
                                         ELSE t = [state[p] EXCEPT !.phase = @ + 1]
           /\ markers' = markers \cup {t}
           /\ pc[p] \in {"writePrepared", "writeDetached", "writeRootReady",
                         "writeAuditPending", "writeDone"}
      BY <1>1, PublicationAdds
  <2>2. CASE pc[p] = "writePrepared"
      BY <2>1, <2>2, PreparedPublished
  <2>3. CASE pc[p] # "writePrepared"
      BY <2>1, <2>3, SuccessorPublished
  <2> QED BY <2>2, <2>3
<1>2. ASSUME UNCHANGED markers PROVE JournalConsistent'
    BY <1>0, <1>2, MarkersKept
<1> QED BY <1>1, <1>2, Frame, SubstituteFrame DEF Next

\* Types: a recovery and a record are what the labels of their worker promise.
LEMMA TypeStep == ASSUME IInv, Next PROVE TypeOK'
<1> USE LegacyConstants DEF Object, Prepared, Detached, RootReady, AuditPending, Done,
   Phase, Marker, Recovery, PC, Working, Waiting, Goto, Release, Abort, Spend, namespace,
   durable, locals, handles
<1>0. TypeOK /\ ConsentInv /\ RecordInv /\ LabelInv
    BY DEF IInv
<1>1. ASSUME NEW p \in Proc, Work(p) \/ Operate(p) \/ Misfortune(p) PROVE TypeOK'
  <2>1. CASE InspectMarkers(p)
      <3>1. \A m \in PendingSet : m \in Marker
          BY <1>0 DEF TypeOK, PendingSet
      <3>2. \/ UNCHANGED recovery /\ pc' = [pc EXCEPT ![p] = "classify"]
            \/ \E r \in Recovery : /\ recovery' = [recovery EXCEPT ![p] = r]
                                   /\ pc' = [pc EXCEPT ![p] = "offer"]
        <4>1. ASSUME NEW m \in PendingSet PROVE [identity |-> m.source, resume |-> TRUE] \in Recovery
            BY <4>1, <3>1
        <4> QED BY <2>1, <3>1, <4>1 DEF InspectMarkers
      <3> QED BY <1>0, <2>1, <3>2 DEF TypeOK, InspectMarkers
  <2>2. CASE Classify(p)
      BY <1>0, <2>2 DEF TypeOK, Classify, RootOpens
  <2>3. CASE CaptureIdentity(p)
      BY <1>0, <2>3 DEF TypeOK, CaptureIdentity
  <2>4. CASE Launch(p)
      BY <1>0, <2>4 DEF TypeOK, Launch
  <2>5. CASE Proceed(p)
      BY <1>0, <2>5 DEF TypeOK, ConsentInv, Proceed
  <2>6. CASE Retry(p)
      BY <1>0, <2>6 DEF TypeOK, Retry
  <2>7. CASE Quit(p)
      BY <1>0, <2>7 DEF TypeOK, Quit
  <2>8. CASE OpenBootstrap(p)
      BY <1>0, <2>8 DEF TypeOK, OpenBootstrap
  <2>9. CASE AcquireLock(p)
      BY <1>0, <2>9 DEF TypeOK, AcquireLock
  <2>10. CASE LoadPending(p)
      <3>1. PendingSet \subseteq Marker
          BY <1>0 DEF TypeOK, PendingSet
      <3> QED BY <1>0, <2>10, <3>1 DEF TypeOK, LoadPending
  <2>11. CASE OpenSource(p)
      BY <1>0, <2>11 DEF TypeOK, ConsentInv, OpenSource
  <2>12. CASE ResumeVerify(p)
      BY <1>0, <2>12 DEF TypeOK, ResumeVerify
  <2>13. CASE OpenRoot(p)
      BY <1>0, <2>13 DEF TypeOK, OpenRoot, RootOpens
  <2>14. CASE Refuse(p)
      BY <1>0, <2>14 DEF TypeOK, Refuse
  <2>15. CASE Fault(p)
      BY <1>0, <2>15 DEF TypeOK, Fault
  <2>16. CASE Crash(p)
      BY <1>0, <2>16 DEF TypeOK, Crash
  <2>17. CASE CreateRoot(p)
      BY <1>0, <2>17 DEF TypeOK, CreateRoot, RootOpens
  <2>18. CASE CreateNext(p)
      BY <1>0, <2>18 DEF TypeOK, ConsentInv, CreateNext
  <2>19. CASE FaultBeforePrepared(p)
      BY <1>0, <2>19 DEF TypeOK, RecordInv, Recorded, FaultBeforePrepared
  <2>20. CASE WritePrepared(p)
      BY <1>0, <2>20 DEF TypeOK, RecordInv, Recorded, Publish, WritePrepared
  <2>21. CASE WriteDetached(p)
      BY <1>0, <2>21 DEF TypeOK, RecordInv, Recorded, Publish, WriteDetached
  <2>22. CASE WriteRootReady(p)
      BY <1>0, <2>22 DEF TypeOK, RecordInv, Recorded, Publish, WriteRootReady
  <2>23. CASE WriteAuditPending(p)
      BY <1>0, <2>23 DEF TypeOK, RecordInv, Recorded, Publish, WriteAuditPending
  <2>24. CASE WriteDone(p)
      BY <1>0, <2>24 DEF TypeOK, RecordInv, Recorded, WriteDone
  <2>25. CASE FaultAfterPublication(p)
      <3>0. pc[p] \in {"writePrepared", "writeDetached", "writeRootReady", "writeAuditPending",
                      "writeDone"}
          BY <2>25 DEF FaultAfterPublication
      <3>1. state[p] \in Marker
          BY <3>0, WorkerPhase
      <3>2. pc[p] = "writePrepared" \/ state[p].phase \in Prepared .. AuditPending
          BY <3>0, WorkerPhase
      <3>3. pc[p] = "writePrepared" \/ [state[p] EXCEPT !.phase = @ + 1] \in Marker
          BY <3>1, <3>2
      <3> QED BY <1>0, <2>25, <3>1, <3>3 DEF TypeOK, FaultAfterPublication
  <2>26. CASE DetachSource(p)
      BY <1>0, <2>26 DEF TypeOK, RecordInv, Recorded, RenameSource, DetachSource
  <2>27. CASE ResumeDetach(p)
      BY <1>0, <2>27 DEF TypeOK, RecordInv, Recorded, RenameSource, ResumeDetach
  <2>28. CASE ActivateNext(p)
      <3>1. next[state[p].id] \in Object \cup {None}
          BY <1>0, <2>28 DEF TypeOK, RecordInv, Recorded, ActivateNext
      <3> QED BY <1>0, <2>28, <3>1 DEF TypeOK, ActivateNext, RenameNext
  <2>29. CASE ResumeActivate(p)
      <3>1. next[state[p].id] \in Object \cup {None}
          BY <1>0, <2>29 DEF TypeOK, RecordInv, Recorded, ResumeActivate
      <3> QED BY <1>0, <2>29, <3>1 DEF TypeOK, ResumeActivate, RenameNext
  <2>30. CASE LogTerminalEvent(p)
      BY <1>0, <2>30 DEF TypeOK, RecordInv, Recorded, LogTerminalEvent
  <2>31. CASE FaultAfterEvent(p)
      BY <1>0, <2>31 DEF TypeOK, RecordInv, Recorded, FaultAfterEvent
  <2> QED BY <1>1, <2>1, <2>2, <2>3, <2>4, <2>5, <2>6, <2>7, <2>8, <2>9, <2>10, <2>11,
     <2>12, <2>13, <2>14, <2>15, <2>16, <2>17, <2>18, <2>19, <2>20, <2>21, <2>22, <2>23,
     <2>24, <2>25, <2>26, <2>27, <2>28, <2>29, <2>30, <2>31 DEF Work, Operate, Misfortune
<1>2. ASSUME Substitute PROVE TypeOK'
    BY <1>0, <1>2 DEF TypeOK, ConsentInv, RecordInv, LabelInv, Recorded, Locked, Substitute,
       OpenableForDelete, PendingSet, MarkersOf
<1> QED BY <1>1, <1>2 DEF Next

\* Only AcquireLock enters the locked labels, and only when the lock is free.
LEMMA MutexStep == ASSUME IInv, Next PROVE Mutex'
<1> USE LegacyConstants DEF Object, Prepared, Detached, RootReady, AuditPending, Done,
   Phase, Marker, Recovery, PC, Working, Waiting, Goto, Release, Abort, Spend, namespace,
   durable, locals, handles
<1>0. TypeOK /\ Mutex
    BY DEF IInv
<1>1. ASSUME NEW p \in Proc, Work(p) \/ Operate(p) \/ Misfortune(p) PROVE Mutex'
  <2>1. CASE InspectMarkers(p) \/ Classify(p) \/ CaptureIdentity(p)
      BY <1>0, <2>1 DEF TypeOK, Mutex, Recorded, Locked, InspectMarkers, Classify,
         RootOpens, OpenableShared, CaptureIdentity, PendingSet, Loads
  <2>2. CASE Launch(p) \/ Proceed(p) \/ Retry(p) \/ Quit(p)
      BY <1>0, <2>2 DEF TypeOK, Mutex, Recorded, Locked, Launch, Proceed, Retry, Quit
  <2>3. CASE OpenBootstrap(p) \/ AcquireLock(p) \/ LoadPending(p) \/ OpenSource(p)
      BY <1>0, <2>3 DEF TypeOK, Mutex, Recorded, Locked, OpenBootstrap, AcquireLock,
         LoadPending, OpenSource, OpenableForDelete, PendingSet, Loads
  <2>4. CASE ResumeVerify(p) \/ OpenRoot(p)
      BY <1>0, <2>4 DEF TypeOK, Mutex, Recorded, Locked, ResumeVerify, ReadyRootVerified,
         RootOpens, OpenableShared, OpenRoot
  <2>5. CASE Refuse(p) \/ Fault(p) \/ Crash(p)
      BY <1>0, <2>5 DEF TypeOK, Mutex, Recorded, Locked, Refuse, Fault, Crash
  <2>6. CASE CreateRoot(p)
      BY <1>0, <2>6 DEF TypeOK, Mutex, Recorded, Locked, CreateRoot, RootOpens,
         OpenableShared
  <2>7. CASE CreateNext(p) \/ FaultBeforePrepared(p)
      BY <1>0, <2>7 DEF TypeOK, Mutex, Recorded, Locked, CreateNext, FaultBeforePrepared
  <2>8. CASE WritePrepared(p) \/ WriteDetached(p)
      BY <1>0, <2>8 DEF TypeOK, Mutex, Recorded, Locked, WritePrepared, Publish,
         MarkerAccepted, WriteDetached
  <2>9. CASE WriteRootReady(p) \/ WriteAuditPending(p)
      BY <1>0, <2>9 DEF TypeOK, Mutex, Recorded, Locked, WriteRootReady, Publish,
         MarkerAccepted, WriteAuditPending
  <2>10. CASE WriteDone(p) \/ FaultAfterPublication(p)
      BY <1>0, <2>10 DEF TypeOK, Mutex, Recorded, Locked, WriteDone, MarkerAccepted,
         FaultAfterPublication
  <2>11. CASE DetachSource(p) \/ ResumeDetach(p)
      BY <1>0, <2>11 DEF TypeOK, Mutex, Recorded, Locked, DetachSource, RenameSource,
         ResumeDetach, OpenableForDelete
  <2>12. CASE ActivateNext(p) \/ ResumeActivate(p)
      BY <1>0, <2>12 DEF TypeOK, Mutex, Recorded, Locked, ActivateNext, RenameNext,
         ResumeActivate, OpenableForDelete, ReadyRootVerified, RootOpens, OpenableShared
  <2>13. CASE LogTerminalEvent(p) \/ FaultAfterEvent(p)
      BY <1>0, <2>13 DEF TypeOK, Mutex, Recorded, Locked, LogTerminalEvent, FaultAfterEvent
  <2> QED BY <1>1, <2>1, <2>2, <2>3, <2>4, <2>5, <2>6, <2>7, <2>8, <2>9, <2>10, <2>11,
     <2>12, <2>13 DEF Work, Operate, Misfortune
<1>2. ASSUME Substitute PROVE Mutex'
    BY <1>0, <1>2 DEF TypeOK, Mutex, Recorded, Locked, Substitute, OpenableForDelete
<1> QED BY <1>1, <1>2 DEF Next

\* Consent precedes execution; a resumed recovery names the source of a marker.
LEMMA ConsentStep == ASSUME IInv, Next PROVE ConsentInv'
<1> USE LegacyConstants DEF Object, Prepared, Detached, RootReady, AuditPending, Done,
   Phase, Marker, Recovery, PC, Working, Waiting, Goto, Release, Abort, Spend, namespace,
   durable, locals, handles
<1>0. TypeOK /\ MarkerInv /\ ConsentInv
    BY DEF IInv
<1>1. ASSUME NEW p \in Proc, Work(p) \/ Operate(p) \/ Misfortune(p) PROVE ConsentInv'
  <2>1. CASE InspectMarkers(p)
      <3>1. \A m \in PendingSet : m \in Marker /\ m.source \in consented
          BY <1>0 DEF TypeOK, MarkerInv, PendingSet
      <3>2. \/ UNCHANGED recovery /\ pc' = [pc EXCEPT ![p] = "classify"]
            \/ \E r \in Recovery : /\ recovery' = [recovery EXCEPT ![p] = r]
                                   /\ pc' = [pc EXCEPT ![p] = "offer"]
                                   /\ r.identity \in consented
        <4>1. ASSUME NEW m \in PendingSet PROVE [identity |-> m.source, resume |-> TRUE] \in Recovery
            BY <4>1, <3>1
        <4> QED BY <2>1, <3>1, <4>1 DEF InspectMarkers
      <3>3. consented' = consented /\ pc \in [Proc -> PC] /\ recovery \in [Proc -> Recovery \cup {None}]
          BY <1>0, <2>1 DEF TypeOK, InspectMarkers
      <3> QED BY <1>0, <3>2, <3>3 DEF ConsentInv
  <2>2. CASE Classify(p)
      BY <1>0, <2>2 DEF TypeOK, MarkerInv, ConsentInv, Recorded, Locked, Classify,
         RootOpens, OpenableShared
  <2>3. CASE CaptureIdentity(p)
      BY <1>0, <2>3 DEF TypeOK, MarkerInv, ConsentInv, Recorded, Locked, CaptureIdentity
  <2>4. CASE Launch(p) \/ Proceed(p) \/ Retry(p) \/ Quit(p)
      BY <1>0, <2>4 DEF TypeOK, MarkerInv, ConsentInv, Recorded, Locked, Launch, Proceed,
         Retry, Quit
  <2>5. CASE OpenBootstrap(p) \/ AcquireLock(p) \/ LoadPending(p) \/ OpenSource(p)
      BY <1>0, <2>5 DEF TypeOK, MarkerInv, ConsentInv, Recorded, Locked, OpenBootstrap,
         AcquireLock, LoadPending, OpenSource, OpenableForDelete, PendingSet, Loads
  <2>6. CASE ResumeVerify(p) \/ OpenRoot(p)
      BY <1>0, <2>6 DEF TypeOK, MarkerInv, ConsentInv, Recorded, Locked, ResumeVerify,
         ReadyRootVerified, RootOpens, OpenableShared, OpenRoot
  <2>7. CASE Refuse(p) \/ Fault(p) \/ Crash(p)
      BY <1>0, <2>7 DEF TypeOK, MarkerInv, ConsentInv, Recorded, Locked, Refuse, Fault,
         Crash
  <2>8. CASE CreateRoot(p)
      BY <1>0, <2>8 DEF TypeOK, MarkerInv, ConsentInv, Recorded, Locked, CreateRoot,
         RootOpens, OpenableShared
  <2>9. CASE CreateNext(p) \/ FaultBeforePrepared(p)
      BY <1>0, <2>9 DEF TypeOK, MarkerInv, ConsentInv, Recorded, Locked, CreateNext,
         FaultBeforePrepared
  <2>10. CASE WritePrepared(p) \/ WriteDetached(p)
      BY <1>0, <2>10 DEF TypeOK, MarkerInv, ConsentInv, Recorded, Locked, WritePrepared,
         Publish, MarkerAccepted, WriteDetached
  <2>11. CASE WriteRootReady(p) \/ WriteAuditPending(p)
      BY <1>0, <2>11 DEF TypeOK, MarkerInv, ConsentInv, Recorded, Locked, WriteRootReady,
         Publish, MarkerAccepted, WriteAuditPending
  <2>12. CASE WriteDone(p) \/ FaultAfterPublication(p)
      BY <1>0, <2>12 DEF TypeOK, MarkerInv, ConsentInv, Recorded, Locked, WriteDone,
         MarkerAccepted, FaultAfterPublication
  <2>13. CASE DetachSource(p) \/ ResumeDetach(p)
      BY <1>0, <2>13 DEF TypeOK, MarkerInv, ConsentInv, Recorded, Locked, DetachSource,
         RenameSource, ResumeDetach, OpenableForDelete
  <2>14. CASE ActivateNext(p) \/ ResumeActivate(p)
      BY <1>0, <2>14 DEF TypeOK, MarkerInv, ConsentInv, Recorded, Locked, ActivateNext,
         RenameNext, ResumeActivate, OpenableForDelete, ReadyRootVerified, RootOpens,
         OpenableShared
  <2>15. CASE LogTerminalEvent(p) \/ FaultAfterEvent(p)
      BY <1>0, <2>15 DEF TypeOK, MarkerInv, ConsentInv, Recorded, Locked, LogTerminalEvent,
         FaultAfterEvent
  <2> QED BY <1>1, <2>1, <2>2, <2>3, <2>4, <2>5, <2>6, <2>7, <2>8, <2>9, <2>10, <2>11,
     <2>12, <2>13, <2>14, <2>15 DEF Work, Operate, Misfortune
<1>2. ASSUME Substitute PROVE ConsentInv'
    BY <1>0, <1>2 DEF TypeOK, MarkerInv, ConsentInv, Recorded, Locked, Substitute,
       OpenableForDelete
<1> QED BY <1>1, <1>2 DEF Next

\* Every way out of the namespace work drops the handles.
LEMMA HandleStep == ASSUME IInv, Next PROVE HandleInv'
<1> USE LegacyConstants DEF Object, Prepared, Detached, RootReady, AuditPending, Done,
   Phase, Marker, Recovery, PC, Working, Waiting, Goto, Release, Abort, Spend, namespace,
   durable, locals, handles
<1>0. TypeOK /\ LabelInv /\ HandleInv
    BY DEF IInv
<1>1. ASSUME NEW p \in Proc, Work(p) \/ Operate(p) \/ Misfortune(p) PROVE HandleInv'
  <2>1. CASE InspectMarkers(p) \/ Classify(p) \/ CaptureIdentity(p)
      BY <1>0, <2>1 DEF TypeOK, LabelInv, HandleInv, Recorded, Locked, InspectMarkers,
         Classify, RootOpens, OpenableShared, CaptureIdentity, PendingSet, Loads
  <2>2. CASE Launch(p) \/ Proceed(p) \/ Retry(p) \/ Quit(p)
      BY <1>0, <2>2 DEF TypeOK, LabelInv, HandleInv, Recorded, Locked, Launch, Proceed,
         Retry, Quit
  <2>3. CASE OpenBootstrap(p) \/ AcquireLock(p) \/ LoadPending(p) \/ OpenSource(p)
      BY <1>0, <2>3 DEF TypeOK, LabelInv, HandleInv, Recorded, Locked, OpenBootstrap,
         AcquireLock, LoadPending, OpenSource, OpenableForDelete, PendingSet, Loads
  <2>4. CASE ResumeVerify(p) \/ OpenRoot(p)
      BY <1>0, <2>4 DEF TypeOK, LabelInv, HandleInv, Recorded, Locked, ResumeVerify,
         ReadyRootVerified, RootOpens, OpenableShared, OpenRoot
  <2>5. CASE Refuse(p) \/ Fault(p) \/ Crash(p)
      BY <1>0, <2>5 DEF TypeOK, LabelInv, HandleInv, Recorded, Locked, Refuse, Fault, Crash
  <2>6. CASE CreateRoot(p)
      BY <1>0, <2>6 DEF TypeOK, LabelInv, HandleInv, Recorded, Locked, CreateRoot, RootOpens,
         OpenableShared
  <2>7. CASE CreateNext(p) \/ FaultBeforePrepared(p)
      BY <1>0, <2>7 DEF TypeOK, LabelInv, HandleInv, Recorded, Locked, CreateNext,
         FaultBeforePrepared
  <2>8. CASE WritePrepared(p)
      BY <1>0, <2>8 DEF TypeOK, LabelInv, HandleInv, Recorded, Locked, WritePrepared,
         Publish, MarkerAccepted
  <2>9. CASE WriteDetached(p)
      BY <1>0, <2>9, ZenonT(60) DEF TypeOK, LabelInv, HandleInv, Recorded, Locked, WriteDetached,
         Publish, MarkerAccepted
  <2>10. CASE WriteRootReady(p) \/ WriteAuditPending(p)
      BY <1>0, <2>10 DEF TypeOK, LabelInv, HandleInv, Recorded, Locked, WriteRootReady,
         Publish, MarkerAccepted, WriteAuditPending
  <2>11. CASE WriteDone(p) \/ FaultAfterPublication(p)
      BY <1>0, <2>11 DEF TypeOK, LabelInv, HandleInv, Recorded, Locked, WriteDone,
         MarkerAccepted, FaultAfterPublication
  <2>12. CASE DetachSource(p) \/ ResumeDetach(p)
      BY <1>0, <2>12 DEF TypeOK, LabelInv, HandleInv, Recorded, Locked, DetachSource,
         RenameSource, ResumeDetach, OpenableForDelete
  <2>13. CASE ActivateNext(p) \/ ResumeActivate(p)
      BY <1>0, <2>13 DEF TypeOK, LabelInv, HandleInv, Recorded, Locked, ActivateNext,
         RenameNext, ResumeActivate, OpenableForDelete, ReadyRootVerified, RootOpens,
         OpenableShared
  <2>14. CASE LogTerminalEvent(p) \/ FaultAfterEvent(p)
      BY <1>0, <2>14 DEF TypeOK, LabelInv, HandleInv, Recorded, Locked, LogTerminalEvent,
         FaultAfterEvent
  <2> QED BY <1>1, <2>1, <2>2, <2>3, <2>4, <2>5, <2>6, <2>7, <2>8, <2>9, <2>10, <2>11,
     <2>12, <2>13, <2>14 DEF Work, Operate, Misfortune
<1>2. ASSUME Substitute PROVE HandleInv'
    BY <1>0, <1>2 DEF TypeOK, LabelInv, HandleInv, Recorded, Locked, Substitute,
       OpenableForDelete
<1> QED BY <1>1, <1>2 DEF Next

\* The DELETE handle on the source keeps other openers and the substitution out.
LEMMA SourceExclusiveStep == ASSUME IInv, Next PROVE SourceExclusive'
<1> USE LegacyConstants DEF Object, Prepared, Detached, RootReady, AuditPending, Done,
   Phase, Marker, Recovery, PC, Working, Waiting, Goto, Release, Abort, Spend, namespace,
   durable, locals, handles
<1>0. TypeOK /\ RecordInv /\ HandleInv /\ Mutex /\ ConsentInv /\ SourceExclusive
    BY DEF IInv
<1>1. ASSUME NEW p \in Proc, Work(p) \/ Operate(p) \/ Misfortune(p) PROVE SourceExclusive'
  <2>1. CASE InspectMarkers(p) \/ Classify(p) \/ CaptureIdentity(p)
      BY <1>0, <2>1 DEF TypeOK, RecordInv, HandleInv, Mutex, ConsentInv, SourceExclusive,
         Recorded, Locked, InspectMarkers, Classify, RootOpens, OpenableShared,
         CaptureIdentity, PendingSet, MarkersOf, Loads
  <2>2. CASE Launch(p) \/ Proceed(p) \/ Retry(p) \/ Quit(p)
      BY <1>0, <2>2 DEF TypeOK, RecordInv, HandleInv, Mutex, ConsentInv, SourceExclusive,
         Recorded, Locked, Launch, Proceed, Retry, Quit, PendingSet, MarkersOf
  <2>3. CASE OpenBootstrap(p) \/ AcquireLock(p) \/ LoadPending(p) \/ OpenSource(p)
      BY <1>0, <2>3 DEF TypeOK, RecordInv, HandleInv, Mutex, ConsentInv, SourceExclusive,
         Recorded, Locked, OpenBootstrap, AcquireLock, LoadPending, OpenSource,
         OpenableForDelete, PendingSet, MarkersOf, Loads
  <2>4. CASE ResumeVerify(p) \/ OpenRoot(p)
      BY <1>0, <2>4 DEF TypeOK, RecordInv, HandleInv, Mutex, ConsentInv, SourceExclusive,
         Recorded, Locked, ResumeVerify, ReadyRootVerified, RootOpens, OpenableShared,
         OpenRoot, PendingSet, MarkersOf
  <2>5. CASE Refuse(p)
      BY <1>0, <2>5 DEF TypeOK, RecordInv, HandleInv, Mutex, ConsentInv, SourceExclusive,
         Recorded, Locked, Refuse, PendingSet, MarkersOf
  <2>6. CASE Fault(p)
      BY <1>0, <2>6 DEF TypeOK, RecordInv, HandleInv, Mutex, ConsentInv, SourceExclusive,
         Recorded, Locked, Fault, PendingSet, MarkersOf
  <2>7. CASE Crash(p)
      BY <1>0, <2>7 DEF TypeOK, RecordInv, HandleInv, Mutex, ConsentInv, SourceExclusive,
         Recorded, Locked, Crash, PendingSet, MarkersOf
  <2>8. CASE CreateRoot(p)
      BY <1>0, <2>8 DEF TypeOK, RecordInv, HandleInv, Mutex, ConsentInv, SourceExclusive,
         Recorded, Locked, CreateRoot, RootOpens, OpenableShared, PendingSet, MarkersOf
  <2>9. CASE CreateNext(p) \/ FaultBeforePrepared(p)
      BY <1>0, <2>9 DEF TypeOK, RecordInv, HandleInv, Mutex, ConsentInv, SourceExclusive,
         Recorded, Locked, CreateNext, FaultBeforePrepared, PendingSet, MarkersOf
  <2>10. CASE WritePrepared(p)
      BY <1>0, <2>10 DEF TypeOK, RecordInv, HandleInv, Mutex, ConsentInv, SourceExclusive,
         Recorded, Locked, WritePrepared, Publish, MarkerAccepted, PendingSet, MarkersOf
  <2>11. CASE WriteDetached(p)
      BY <1>0, <2>11 DEF TypeOK, RecordInv, HandleInv, Mutex, ConsentInv, SourceExclusive,
         Recorded, Locked, WriteDetached, Publish, MarkerAccepted, PendingSet, MarkersOf
  <2>12. CASE WriteRootReady(p) \/ WriteAuditPending(p)
      BY <1>0, <2>12 DEF TypeOK, RecordInv, HandleInv, Mutex, ConsentInv, SourceExclusive,
         Recorded, Locked, WriteRootReady, Publish, MarkerAccepted, WriteAuditPending,
         PendingSet, MarkersOf
  <2>13. CASE WriteDone(p) \/ FaultAfterPublication(p)
      BY <1>0, <2>13 DEF TypeOK, RecordInv, HandleInv, Mutex, ConsentInv, SourceExclusive,
         Recorded, Locked, WriteDone, MarkerAccepted, FaultAfterPublication, PendingSet,
         MarkersOf
  <2>14. CASE DetachSource(p) \/ ResumeDetach(p)
      BY <1>0, <2>14 DEF TypeOK, RecordInv, HandleInv, Mutex, ConsentInv, SourceExclusive,
         Recorded, Locked, DetachSource, RenameSource, ResumeDetach, OpenableForDelete,
         PendingSet, MarkersOf
  <2>15. CASE ActivateNext(p) \/ ResumeActivate(p)
      BY <1>0, <2>15 DEF TypeOK, RecordInv, HandleInv, Mutex, ConsentInv, SourceExclusive,
         Recorded, Locked, ActivateNext, RenameNext, ResumeActivate, OpenableForDelete,
         ReadyRootVerified, RootOpens, OpenableShared, PendingSet, MarkersOf
  <2>16. CASE LogTerminalEvent(p) \/ FaultAfterEvent(p)
      BY <1>0, <2>16 DEF TypeOK, RecordInv, HandleInv, Mutex, ConsentInv, SourceExclusive,
         Recorded, Locked, LogTerminalEvent, FaultAfterEvent, PendingSet, MarkersOf
  <2> QED BY <1>1, <2>1, <2>2, <2>3, <2>4, <2>5, <2>6, <2>7, <2>8, <2>9, <2>10, <2>11,
     <2>12, <2>13, <2>14, <2>15, <2>16 DEF Work, Operate, Misfortune
<1>2. ASSUME Substitute PROVE SourceExclusive'
    BY <1>0, <1>2 DEF TypeOK, RecordInv, HandleInv, Mutex, ConsentInv, SourceExclusive,
       Recorded, Locked, Substitute, OpenableForDelete, PendingSet, MarkersOf
<1> QED BY <1>1, <1>2 DEF Next

\* Publishing moves the record and the pending marker together, under the lock.
LEMMA RecordStep == ASSUME IInv, Next PROVE RecordInv'
<1> USE LegacyConstants DEF Object, Prepared, Detached, RootReady, AuditPending, Done,
   Phase, Marker, Recovery, PC, Working, Waiting, Goto, Release, Abort, Spend, namespace,
   durable, locals, handles
<1>0. TypeOK /\ Mutex /\ JournalConsistent /\ LabelInv /\ MarkerInv /\ ConsentInv /\
   RecordInv
    BY DEF IInv
<1>1. ASSUME NEW p \in Proc, Work(p) \/ Operate(p) \/ Misfortune(p) PROVE RecordInv'
  <2>1. CASE InspectMarkers(p) \/ Classify(p) \/ CaptureIdentity(p)
      BY <1>0, <2>1 DEF TypeOK, Mutex, JournalConsistent, LabelInv, MarkerInv, ConsentInv,
         RecordInv, Recorded, Locked, InspectMarkers, Classify, RootOpens, OpenableShared,
         CaptureIdentity, PendingSet, MarkersOf, Loads
  <2>2. CASE Launch(p) \/ Proceed(p) \/ Retry(p) \/ Quit(p)
      BY <1>0, <2>2 DEF TypeOK, Mutex, JournalConsistent, LabelInv, MarkerInv, ConsentInv,
         RecordInv, Recorded, Locked, Launch, Proceed, Retry, Quit, PendingSet, MarkersOf
  <2>3. CASE OpenBootstrap(p) \/ AcquireLock(p) \/ LoadPending(p) \/ OpenSource(p)
      BY <1>0, <2>3 DEF TypeOK, Mutex, JournalConsistent, LabelInv, MarkerInv, ConsentInv,
         RecordInv, Recorded, Locked, OpenBootstrap, AcquireLock, LoadPending, OpenSource,
         OpenableForDelete, PendingSet, MarkersOf, Loads
  <2>4. CASE ResumeVerify(p) \/ OpenRoot(p)
      BY <1>0, <2>4 DEF TypeOK, Mutex, JournalConsistent, LabelInv, MarkerInv, ConsentInv,
         RecordInv, Recorded, Locked, ResumeVerify, ReadyRootVerified, RootOpens,
         OpenableShared, OpenRoot, PendingSet, MarkersOf
  <2>5. CASE Refuse(p) \/ Fault(p) \/ Crash(p)
      BY <1>0, <2>5 DEF TypeOK, Mutex, JournalConsistent, LabelInv, MarkerInv, ConsentInv,
         RecordInv, Recorded, Locked, Refuse, Fault, Crash, PendingSet, MarkersOf
  <2>6. CASE CreateRoot(p)
      BY <1>0, <2>6 DEF TypeOK, Mutex, JournalConsistent, LabelInv, MarkerInv, ConsentInv,
         RecordInv, Recorded, Locked, CreateRoot, RootOpens, OpenableShared, PendingSet,
         MarkersOf
  <2>7. CASE CreateNext(p) \/ FaultBeforePrepared(p)
      BY <1>0, <2>7 DEF TypeOK, Mutex, JournalConsistent, LabelInv, MarkerInv, ConsentInv,
         RecordInv, Recorded, Locked, CreateNext, FaultBeforePrepared, PendingSet, MarkersOf
  <2>8. CASE DetachSource(p) \/ ResumeDetach(p)
      BY <1>0, <2>8 DEF TypeOK, Mutex, JournalConsistent, LabelInv, MarkerInv, ConsentInv,
         RecordInv, Recorded, Locked, DetachSource, RenameSource, ResumeDetach,
         OpenableForDelete, PendingSet, MarkersOf
  <2>9. CASE ActivateNext(p) \/ ResumeActivate(p)
      BY <1>0, <2>9 DEF TypeOK, Mutex, JournalConsistent, LabelInv, MarkerInv, ConsentInv,
         RecordInv, Recorded, Locked, ActivateNext, RenameNext, ResumeActivate,
         OpenableForDelete, ReadyRootVerified, RootOpens, OpenableShared, PendingSet,
         MarkersOf
  <2>10. CASE LogTerminalEvent(p) \/ FaultAfterEvent(p)
      BY <1>0, <2>10 DEF TypeOK, Mutex, JournalConsistent, LabelInv, MarkerInv, ConsentInv,
         RecordInv, Recorded, Locked, LogTerminalEvent, FaultAfterEvent, PendingSet,
         MarkersOf
  <2>11. CASE WritePrepared(p) \/ WriteDetached(p) \/ WriteRootReady(p) \/
     WriteAuditPending(p) \/ WriteDone(p) \/ FaultAfterPublication(p)
      <3>1. PICK t \in Marker :
               /\ t.id = state[p].id /\ t.source = state[p].source /\ t.next = state[p].next
               /\ PendingSet' = (IF pc[p] = "writeDone" THEN {} ELSE {t})
               /\ state' = [state EXCEPT ![p] = t] \/ pc'[p] \in {"ready", "error"}
               /\ pc[p] \in {"writePrepared", "writeDetached", "writeRootReady",
                             "writeAuditPending", "writeDone"}
          BY <2>11, PublicationAdds
      <3>2. /\ used' = used /\ consented' = consented
            /\ \A q \in Proc \ {p} : pc'[q] = pc[q] /\ state'[q] = state[q]
            /\ pc'[p] \in {"detach", "activate", "resume", "openRoot", "audit", "ready", "error"}
            /\ pc[p] = "writeDone" => pc'[p] \in {"ready", "error"}
          BY <1>0, <2>11 DEF TypeOK, WritePrepared, WriteDetached, WriteRootReady,
             WriteAuditPending, WriteDone, FaultAfterPublication, Publish
      <3>3. \A q \in Proc \ {p} : pc[q] \notin Locked
          BY <1>0, <3>1 DEF Mutex, Locked, Recorded
      <3>4. state'[p] = t \/ pc'[p] \in {"ready", "error"}
          BY <1>0, <3>1 DEF TypeOK
      <3>5. t.id \in used /\ t.next \in Protected /\ t.source \in consented
          BY <1>0, <3>1 DEF RecordInv, Recorded
      <3> QED BY <3>1, <3>2, <3>3, <3>4, <3>5 DEF RecordInv, Recorded, Locked
  <2> QED BY <1>1, <2>1, <2>2, <2>3, <2>4, <2>5, <2>6, <2>7, <2>8, <2>9, <2>10, <2>11 DEF
     Work, Operate, Misfortune
<1>2. ASSUME Substitute PROVE RecordInv'
    BY <1>0, <1>2 DEF TypeOK, Mutex, JournalConsistent, LabelInv, MarkerInv, ConsentInv,
       RecordInv, Recorded, Locked, Substitute, OpenableForDelete, PendingSet, MarkersOf
<1> QED BY <1>1, <1>2 DEF Next

\* The labels of the worker match phase and namespace; nobody else can change them.
LEMMA LabelStep == ASSUME IInv, Next PROVE LabelInv'
<1> USE LegacyConstants DEF Object, Prepared, Detached, RootReady, AuditPending, Done,
   Phase, Marker, Recovery, PC, Working, Waiting, Goto, Release, Abort, Spend, namespace,
   durable, locals, handles
<1>0. TypeOK /\ Mutex /\ RecordInv /\ HandleInv /\ PhaseMatchesNamespace /\ MarkerInv /\
   SourceExclusive /\ LabelInv
    BY DEF IInv
<1>1. ASSUME NEW p \in Proc, Work(p) \/ Operate(p) \/ Misfortune(p) PROVE LabelInv'
  <2>1. CASE InspectMarkers(p) \/ Classify(p) \/ CaptureIdentity(p)
      BY <1>0, <2>1 DEF TypeOK, Mutex, RecordInv, HandleInv, PhaseMatchesNamespace,
         MarkerInv, SourceExclusive, LabelInv, Recorded, Locked, InspectMarkers, Classify,
         RootOpens, OpenableShared, CaptureIdentity, PendingSet, MarkersOf, Loads
  <2>2. CASE Launch(p) \/ Proceed(p) \/ Retry(p) \/ Quit(p)
      BY <1>0, <2>2 DEF TypeOK, Mutex, RecordInv, HandleInv, PhaseMatchesNamespace,
         MarkerInv, SourceExclusive, LabelInv, Recorded, Locked, Launch, Proceed, Retry,
         Quit, PendingSet, MarkersOf
  <2>3. CASE OpenBootstrap(p) \/ AcquireLock(p) \/ LoadPending(p) \/ OpenSource(p)
      BY <1>0, <2>3 DEF TypeOK, Mutex, RecordInv, HandleInv, PhaseMatchesNamespace,
         MarkerInv, SourceExclusive, LabelInv, Recorded, Locked, OpenBootstrap, AcquireLock,
         LoadPending, OpenSource, OpenableForDelete, PendingSet, MarkersOf, Loads
  <2>4. CASE ResumeVerify(p) \/ OpenRoot(p)
      BY <1>0, <2>4 DEF TypeOK, Mutex, RecordInv, HandleInv, PhaseMatchesNamespace,
         MarkerInv, SourceExclusive, LabelInv, Recorded, Locked, ResumeVerify,
         ReadyRootVerified, RootOpens, OpenableShared, OpenRoot, PendingSet, MarkersOf
  <2>5. CASE Refuse(p) \/ Fault(p) \/ Crash(p)
      BY <1>0, <2>5 DEF TypeOK, Mutex, RecordInv, HandleInv, PhaseMatchesNamespace,
         MarkerInv, SourceExclusive, LabelInv, Recorded, Locked, Refuse, Fault, Crash,
         PendingSet, MarkersOf
  <2>6. CASE CreateRoot(p)
      BY <1>0, <2>6 DEF TypeOK, Mutex, RecordInv, HandleInv, PhaseMatchesNamespace,
         MarkerInv, SourceExclusive, LabelInv, Recorded, Locked, CreateRoot, RootOpens,
         OpenableShared, PendingSet, MarkersOf
  <2>7. CASE CreateNext(p) \/ FaultBeforePrepared(p)
      BY <1>0, <2>7 DEF TypeOK, Mutex, RecordInv, HandleInv, PhaseMatchesNamespace,
         MarkerInv, SourceExclusive, LabelInv, Recorded, Locked, CreateNext,
         FaultBeforePrepared, PendingSet, MarkersOf
  <2>8. CASE WritePrepared(p) \/ WriteDetached(p)
      BY <1>0, <2>8 DEF TypeOK, Mutex, RecordInv, HandleInv, PhaseMatchesNamespace,
         MarkerInv, SourceExclusive, LabelInv, Recorded, Locked, WritePrepared, Publish,
         MarkerAccepted, WriteDetached, PendingSet, MarkersOf
  <2>9. CASE WriteRootReady(p) \/ WriteAuditPending(p)
      BY <1>0, <2>9 DEF TypeOK, Mutex, RecordInv, HandleInv, PhaseMatchesNamespace,
         MarkerInv, SourceExclusive, LabelInv, Recorded, Locked, WriteRootReady, Publish,
         MarkerAccepted, WriteAuditPending, PendingSet, MarkersOf
  <2>10. CASE WriteDone(p) \/ FaultAfterPublication(p)
      BY <1>0, <2>10 DEF TypeOK, Mutex, RecordInv, HandleInv, PhaseMatchesNamespace,
         MarkerInv, SourceExclusive, LabelInv, Recorded, Locked, WriteDone, MarkerAccepted,
         FaultAfterPublication, PendingSet, MarkersOf
  <2>11. CASE DetachSource(p) \/ ResumeDetach(p)
      BY <1>0, <2>11 DEF TypeOK, Mutex, RecordInv, HandleInv, PhaseMatchesNamespace,
         MarkerInv, SourceExclusive, LabelInv, Recorded, Locked, DetachSource, RenameSource,
         ResumeDetach, OpenableForDelete, PendingSet, MarkersOf
  <2>12. CASE ActivateNext(p) \/ ResumeActivate(p)
      BY <1>0, <2>12 DEF TypeOK, Mutex, RecordInv, HandleInv, PhaseMatchesNamespace,
         MarkerInv, SourceExclusive, LabelInv, Recorded, Locked, ActivateNext, RenameNext,
         ResumeActivate, OpenableForDelete, ReadyRootVerified, RootOpens, OpenableShared,
         PendingSet, MarkersOf
  <2>13. CASE LogTerminalEvent(p) \/ FaultAfterEvent(p)
      BY <1>0, <2>13 DEF TypeOK, Mutex, RecordInv, HandleInv, PhaseMatchesNamespace,
         MarkerInv, SourceExclusive, LabelInv, Recorded, Locked, LogTerminalEvent,
         FaultAfterEvent, PendingSet, MarkersOf
  <2> QED BY <1>1, <2>1, <2>2, <2>3, <2>4, <2>5, <2>6, <2>7, <2>8, <2>9, <2>10, <2>11,
     <2>12, <2>13 DEF Work, Operate, Misfortune
<1>2. ASSUME Substitute PROVE LabelInv'
    BY <1>0, <1>2 DEF TypeOK, Mutex, RecordInv, HandleInv, PhaseMatchesNamespace, MarkerInv,
       SourceExclusive, LabelInv, Recorded, Locked, Substitute, OpenableForDelete,
       PendingSet, MarkersOf
<1> QED BY <1>1, <1>2 DEF Next

\* Renames precede their markers, and a pending ready root stays in place.
LEMMA PhaseMatchesNamespaceStep == ASSUME IInv, Next PROVE PhaseMatchesNamespace'
<1> USE LegacyConstants DEF Object, Prepared, Detached, RootReady, AuditPending, Done,
   Phase, Marker, Recovery, PC, Working, Waiting, Goto, Release, Abort, Spend, namespace,
   durable, locals, handles
<1>0. TypeOK /\ RecordInv /\ LabelInv /\ Mutex /\ MarkerInv /\ JournalConsistent /\
   PhaseMatchesNamespace
    BY DEF IInv
<1>1. ASSUME NEW p \in Proc, Work(p) \/ Operate(p) \/ Misfortune(p) PROVE PhaseMatchesNamespace'
  <2>1. CASE InspectMarkers(p) \/ Classify(p) \/ CaptureIdentity(p)
      BY <1>0, <2>1 DEF TypeOK, RecordInv, LabelInv, Mutex, MarkerInv, JournalConsistent,
         PhaseMatchesNamespace, Recorded, Locked, InspectMarkers, Classify, RootOpens,
         OpenableShared, CaptureIdentity, PendingSet, MarkersOf, Loads
  <2>2. CASE Launch(p) \/ Proceed(p) \/ Retry(p) \/ Quit(p)
      BY <1>0, <2>2 DEF TypeOK, RecordInv, LabelInv, Mutex, MarkerInv, JournalConsistent,
         PhaseMatchesNamespace, Recorded, Locked, Launch, Proceed, Retry, Quit, PendingSet,
         MarkersOf
  <2>3. CASE OpenBootstrap(p) \/ AcquireLock(p) \/ LoadPending(p) \/ OpenSource(p)
      BY <1>0, <2>3 DEF TypeOK, RecordInv, LabelInv, Mutex, MarkerInv, JournalConsistent,
         PhaseMatchesNamespace, Recorded, Locked, OpenBootstrap, AcquireLock, LoadPending,
         OpenSource, OpenableForDelete, PendingSet, MarkersOf, Loads
  <2>4. CASE ResumeVerify(p) \/ OpenRoot(p)
      BY <1>0, <2>4 DEF TypeOK, RecordInv, LabelInv, Mutex, MarkerInv, JournalConsistent,
         PhaseMatchesNamespace, Recorded, Locked, ResumeVerify, ReadyRootVerified,
         RootOpens, OpenableShared, OpenRoot, PendingSet, MarkersOf
  <2>5. CASE Refuse(p) \/ Fault(p) \/ Crash(p)
      BY <1>0, <2>5 DEF TypeOK, RecordInv, LabelInv, Mutex, MarkerInv, JournalConsistent,
         PhaseMatchesNamespace, Recorded, Locked, Refuse, Fault, Crash, PendingSet,
         MarkersOf
  <2>6. CASE CreateRoot(p)
      BY <1>0, <2>6 DEF TypeOK, RecordInv, LabelInv, Mutex, MarkerInv, JournalConsistent,
         PhaseMatchesNamespace, Recorded, Locked, CreateRoot, RootOpens, OpenableShared,
         PendingSet, MarkersOf
  <2>7. CASE CreateNext(p) \/ FaultBeforePrepared(p)
      BY <1>0, <2>7 DEF TypeOK, RecordInv, LabelInv, Mutex, MarkerInv, JournalConsistent,
         PhaseMatchesNamespace, Recorded, Locked, CreateNext, FaultBeforePrepared,
         PendingSet, MarkersOf
  <2>8. CASE DetachSource(p) \/ ResumeDetach(p)
      BY <1>0, <2>8 DEF TypeOK, RecordInv, LabelInv, Mutex, MarkerInv, JournalConsistent,
         PhaseMatchesNamespace, Recorded, Locked, DetachSource, RenameSource, ResumeDetach,
         OpenableForDelete, PendingSet, MarkersOf
  <2>9. CASE ActivateNext(p) \/ ResumeActivate(p)
      BY <1>0, <2>9 DEF TypeOK, RecordInv, LabelInv, Mutex, MarkerInv, JournalConsistent,
         PhaseMatchesNamespace, Recorded, Locked, ActivateNext, RenameNext, ResumeActivate,
         OpenableForDelete, ReadyRootVerified, RootOpens, OpenableShared, PendingSet,
         MarkersOf
  <2>10. CASE LogTerminalEvent(p) \/ FaultAfterEvent(p)
      BY <1>0, <2>10 DEF TypeOK, RecordInv, LabelInv, Mutex, MarkerInv, JournalConsistent,
         PhaseMatchesNamespace, Recorded, Locked, LogTerminalEvent, FaultAfterEvent,
         PendingSet, MarkersOf
  <2>11. CASE WritePrepared(p) \/ WriteDetached(p) \/ WriteRootReady(p) \/
     WriteAuditPending(p) \/ WriteDone(p) \/ FaultAfterPublication(p)
      <3>1. PICK t \in Marker :
               /\ t.id = state[p].id /\ t.source = state[p].source /\ t.next = state[p].next
               /\ IF pc[p] = "writePrepared" THEN t = state[p]
                                             ELSE t = [state[p] EXCEPT !.phase = @ + 1]
               /\ markers' = markers \cup {t}
               /\ PendingSet' = (IF pc[p] = "writeDone" THEN {} ELSE {t})
               /\ pc[p] \in {"writePrepared", "writeDetached", "writeRootReady",
                             "writeAuditPending", "writeDone"}
          BY <2>11, PublicationAdds
      <3>2. /\ t.phase >= Detached => legacy[t.id] = t.source
            /\ t.phase >= RootReady => active = t.next
          BY <3>1, WorkerPhase, WorkerNamespace
      <3>3. legacy' = legacy /\ active' = active
          BY <2>11 DEF WritePrepared, WriteDetached, WriteRootReady, WriteAuditPending, WriteDone,
             FaultAfterPublication
      <3> QED BY <1>0, <3>1, <3>2, <3>3 DEF PhaseMatchesNamespace
  <2> QED BY <1>1, <2>1, <2>2, <2>3, <2>4, <2>5, <2>6, <2>7, <2>8, <2>9, <2>10, <2>11 DEF
     Work, Operate, Misfortune
<1>2. ASSUME Substitute PROVE PhaseMatchesNamespace'
    BY <1>0, <1>2 DEF TypeOK, RecordInv, LabelInv, Mutex, MarkerInv, JournalConsistent,
       PhaseMatchesNamespace, Recorded, Locked, Substitute, OpenableForDelete, PendingSet,
       MarkersOf
<1> QED BY <1>1, <1>2 DEF Next

\* An object a dashboard holds can be opened by nobody for renaming.
LEMMA DashboardRootPinnedStep == ASSUME IInv, Next PROVE DashboardRootPinned'
<1> USE LegacyConstants DEF Object, Prepared, Detached, RootReady, AuditPending, Done,
   Phase, Marker, Recovery, PC, Working, Waiting, Goto, Release, Abort, Spend, namespace,
   durable, locals, handles
<1>0. TypeOK /\ SourceExclusive /\ HandleInv /\ Mutex /\ RecordInv /\ LabelInv /\
   PhaseMatchesNamespace /\ DashboardRootPinned
    BY DEF IInv
<1>1. ASSUME NEW p \in Proc, Work(p) \/ Operate(p) \/ Misfortune(p) PROVE DashboardRootPinned'
  <2>1. CASE InspectMarkers(p) \/ Classify(p) \/ CaptureIdentity(p)
      BY <1>0, <2>1 DEF TypeOK, SourceExclusive, HandleInv, Mutex, RecordInv, LabelInv,
         PhaseMatchesNamespace, DashboardRootPinned, Recorded, Locked, InspectMarkers,
         Classify, RootOpens, OpenableShared, CaptureIdentity, PendingSet, MarkersOf, Loads
  <2>2. CASE Launch(p) \/ Proceed(p) \/ Retry(p) \/ Quit(p)
      BY <1>0, <2>2 DEF TypeOK, SourceExclusive, HandleInv, Mutex, RecordInv, LabelInv,
         PhaseMatchesNamespace, DashboardRootPinned, Recorded, Locked, Launch, Proceed,
         Retry, Quit, PendingSet, MarkersOf
  <2>3. CASE OpenBootstrap(p) \/ AcquireLock(p) \/ LoadPending(p) \/ OpenSource(p)
      BY <1>0, <2>3 DEF TypeOK, SourceExclusive, HandleInv, Mutex, RecordInv, LabelInv,
         PhaseMatchesNamespace, DashboardRootPinned, Recorded, Locked, OpenBootstrap,
         AcquireLock, LoadPending, OpenSource, OpenableForDelete, PendingSet, MarkersOf,
         Loads
  <2>4. CASE ResumeVerify(p) \/ OpenRoot(p)
      BY <1>0, <2>4 DEF TypeOK, SourceExclusive, HandleInv, Mutex, RecordInv, LabelInv,
         PhaseMatchesNamespace, DashboardRootPinned, Recorded, Locked, ResumeVerify,
         ReadyRootVerified, RootOpens, OpenableShared, OpenRoot, PendingSet, MarkersOf
  <2>5. CASE Refuse(p) \/ Fault(p) \/ Crash(p)
      BY <1>0, <2>5 DEF TypeOK, SourceExclusive, HandleInv, Mutex, RecordInv, LabelInv,
         PhaseMatchesNamespace, DashboardRootPinned, Recorded, Locked, Refuse, Fault, Crash,
         PendingSet, MarkersOf
  <2>6. CASE CreateRoot(p)
      BY <1>0, <2>6 DEF TypeOK, SourceExclusive, HandleInv, Mutex, RecordInv, LabelInv,
         PhaseMatchesNamespace, DashboardRootPinned, Recorded, Locked, CreateRoot,
         RootOpens, OpenableShared, PendingSet, MarkersOf
  <2>7. CASE CreateNext(p) \/ FaultBeforePrepared(p)
      BY <1>0, <2>7 DEF TypeOK, SourceExclusive, HandleInv, Mutex, RecordInv, LabelInv,
         PhaseMatchesNamespace, DashboardRootPinned, Recorded, Locked, CreateNext,
         FaultBeforePrepared, PendingSet, MarkersOf
  <2>8. CASE WritePrepared(p) \/ WriteDetached(p)
      BY <1>0, <2>8 DEF TypeOK, SourceExclusive, HandleInv, Mutex, RecordInv, LabelInv,
         PhaseMatchesNamespace, DashboardRootPinned, Recorded, Locked, WritePrepared,
         Publish, MarkerAccepted, WriteDetached, PendingSet, MarkersOf
  <2>9. CASE WriteRootReady(p) \/ WriteAuditPending(p)
      BY <1>0, <2>9 DEF TypeOK, SourceExclusive, HandleInv, Mutex, RecordInv, LabelInv,
         PhaseMatchesNamespace, DashboardRootPinned, Recorded, Locked, WriteRootReady,
         Publish, MarkerAccepted, WriteAuditPending, PendingSet, MarkersOf
  <2>10. CASE WriteDone(p)
      <3>1. held[p] = {state[p].next} /\ active = state[p].next
          BY <1>0, <2>10, WorkerNamespace DEF WriteDone, LabelInv
      <3> QED BY <1>0, <2>10, <3>1 DEF TypeOK, DashboardRootPinned, WriteDone
  <2>11. CASE FaultAfterPublication(p)
      BY <1>0, <2>11 DEF TypeOK, DashboardRootPinned, FaultAfterPublication
  <2>12. CASE DetachSource(p) \/ ResumeDetach(p)
      BY <1>0, <2>12 DEF TypeOK, SourceExclusive, HandleInv, Mutex, RecordInv, LabelInv,
         PhaseMatchesNamespace, DashboardRootPinned, Recorded, Locked, DetachSource,
         RenameSource, ResumeDetach, OpenableForDelete, PendingSet, MarkersOf
  <2>13. CASE ActivateNext(p) \/ ResumeActivate(p)
      BY <1>0, <2>13 DEF TypeOK, SourceExclusive, HandleInv, Mutex, RecordInv, LabelInv,
         PhaseMatchesNamespace, DashboardRootPinned, Recorded, Locked, ActivateNext,
         RenameNext, ResumeActivate, OpenableForDelete, ReadyRootVerified, RootOpens,
         OpenableShared, PendingSet, MarkersOf
  <2>14. CASE LogTerminalEvent(p) \/ FaultAfterEvent(p)
      BY <1>0, <2>14 DEF TypeOK, SourceExclusive, HandleInv, Mutex, RecordInv, LabelInv,
         PhaseMatchesNamespace, DashboardRootPinned, Recorded, Locked, LogTerminalEvent,
         FaultAfterEvent, PendingSet, MarkersOf
  <2> QED BY <1>1, <2>1, <2>2, <2>3, <2>4, <2>5, <2>6, <2>7, <2>8, <2>9, <2>10, <2>11,
     <2>12, <2>13, <2>14 DEF Work, Operate, Misfortune
<1>2. ASSUME Substitute PROVE DashboardRootPinned'
    BY <1>0, <1>2 DEF TypeOK, SourceExclusive, HandleInv, Mutex, RecordInv, LabelInv,
       PhaseMatchesNamespace, DashboardRootPinned, Recorded, Locked, Substitute,
       OpenableForDelete, PendingSet, MarkersOf
<1> QED BY <1>1, <1>2 DEF Next

\* A root with a terminal event can only move to a detached name.
LEMMA AuditedRootKeptStep == ASSUME IInv, Next PROVE AuditedRootKept'
<1> USE LegacyConstants DEF Object, Prepared, Detached, RootReady, AuditPending, Done,
   Phase, Marker, Recovery, PC, Working, Waiting, Goto, Release, Abort, Spend, namespace,
   durable, locals, handles
<1>0. TypeOK /\ EventInv /\ LabelInv /\ RecordInv /\ PhaseMatchesNamespace /\ AuditedRootKept
    BY DEF IInv
<1>1. ASSUME NEW p \in Proc, Work(p) \/ Operate(p) \/ Misfortune(p) PROVE AuditedRootKept'
  <2>1. CASE InspectMarkers(p) \/ Classify(p) \/ CaptureIdentity(p)
      BY <1>0, <2>1 DEF TypeOK, EventInv, LabelInv, RecordInv, PhaseMatchesNamespace,
         AuditedRootKept, Recorded, Locked, InspectMarkers, Classify, RootOpens,
         OpenableShared, CaptureIdentity, PendingSet, MarkersOf, Loads
  <2>2. CASE Launch(p) \/ Proceed(p) \/ Retry(p) \/ Quit(p)
      BY <1>0, <2>2 DEF TypeOK, EventInv, LabelInv, RecordInv, PhaseMatchesNamespace,
         AuditedRootKept, Recorded, Locked, Launch, Proceed, Retry, Quit, PendingSet,
         MarkersOf
  <2>3. CASE OpenBootstrap(p) \/ AcquireLock(p) \/ LoadPending(p) \/ OpenSource(p)
      BY <1>0, <2>3 DEF TypeOK, EventInv, LabelInv, RecordInv, PhaseMatchesNamespace,
         AuditedRootKept, Recorded, Locked, OpenBootstrap, AcquireLock, LoadPending,
         OpenSource, OpenableForDelete, PendingSet, MarkersOf, Loads
  <2>4. CASE ResumeVerify(p) \/ OpenRoot(p)
      BY <1>0, <2>4 DEF TypeOK, EventInv, LabelInv, RecordInv, PhaseMatchesNamespace,
         AuditedRootKept, Recorded, Locked, ResumeVerify, ReadyRootVerified, RootOpens,
         OpenableShared, OpenRoot, PendingSet, MarkersOf
  <2>5. CASE Refuse(p) \/ Fault(p) \/ Crash(p)
      BY <1>0, <2>5 DEF TypeOK, EventInv, LabelInv, RecordInv, PhaseMatchesNamespace,
         AuditedRootKept, Recorded, Locked, Refuse, Fault, Crash, PendingSet, MarkersOf
  <2>6. CASE CreateRoot(p)
      BY <1>0, <2>6 DEF TypeOK, EventInv, LabelInv, RecordInv, PhaseMatchesNamespace,
         AuditedRootKept, Recorded, Locked, CreateRoot, RootOpens, OpenableShared,
         PendingSet, MarkersOf
  <2>7. CASE CreateNext(p) \/ FaultBeforePrepared(p)
      BY <1>0, <2>7 DEF TypeOK, EventInv, LabelInv, RecordInv, PhaseMatchesNamespace,
         AuditedRootKept, Recorded, Locked, CreateNext, FaultBeforePrepared, PendingSet,
         MarkersOf
  <2>8. CASE WritePrepared(p) \/ WriteDetached(p)
      BY <1>0, <2>8 DEF TypeOK, EventInv, LabelInv, RecordInv, PhaseMatchesNamespace,
         AuditedRootKept, Recorded, Locked, WritePrepared, Publish, MarkerAccepted,
         WriteDetached, PendingSet, MarkersOf
  <2>9. CASE WriteRootReady(p) \/ WriteAuditPending(p)
      BY <1>0, <2>9 DEF TypeOK, EventInv, LabelInv, RecordInv, PhaseMatchesNamespace,
         AuditedRootKept, Recorded, Locked, WriteRootReady, Publish, MarkerAccepted,
         WriteAuditPending, PendingSet, MarkersOf
  <2>10. CASE WriteDone(p) \/ FaultAfterPublication(p)
      BY <1>0, <2>10 DEF TypeOK, EventInv, LabelInv, RecordInv, PhaseMatchesNamespace,
         AuditedRootKept, Recorded, Locked, WriteDone, MarkerAccepted,
         FaultAfterPublication, PendingSet, MarkersOf
  <2>11. CASE DetachSource(p) \/ ResumeDetach(p)
      BY <1>0, <2>11 DEF TypeOK, EventInv, LabelInv, RecordInv, PhaseMatchesNamespace,
         AuditedRootKept, Recorded, Locked, DetachSource, RenameSource, ResumeDetach,
         OpenableForDelete, PendingSet, MarkersOf
  <2>12. CASE ActivateNext(p) \/ ResumeActivate(p)
      BY <1>0, <2>12 DEF TypeOK, EventInv, LabelInv, RecordInv, PhaseMatchesNamespace,
         AuditedRootKept, Recorded, Locked, ActivateNext, RenameNext, ResumeActivate,
         OpenableForDelete, ReadyRootVerified, RootOpens, OpenableShared, PendingSet,
         MarkersOf
  <2>13. CASE LogTerminalEvent(p)
      <3>1. /\ events' = events \cup {<<state[p].next, state[p].id>>}
            /\ state[p].next \in Protected /\ active = state[p].next
          BY <2>13, EventWritten DEF LogTerminalEvent
      <3> QED BY <1>0, <2>13, <3>1 DEF AuditedRootKept, LogTerminalEvent
  <2>14. CASE FaultAfterEvent(p)
      <3>1. /\ events' = events \cup {<<state[p].next, state[p].id>>}
            /\ state[p].next \in Protected /\ active = state[p].next
          BY <2>14, EventWritten DEF FaultAfterEvent
      <3> QED BY <1>0, <2>14, <3>1 DEF AuditedRootKept, FaultAfterEvent
  <2> QED BY <1>1, <2>1, <2>2, <2>3, <2>4, <2>5, <2>6, <2>7, <2>8, <2>9, <2>10, <2>11,
     <2>12, <2>13, <2>14 DEF Work, Operate, Misfortune
<1>2. ASSUME Substitute PROVE AuditedRootKept'
    BY <1>0, <1>2 DEF TypeOK, EventInv, LabelInv, RecordInv, PhaseMatchesNamespace,
       AuditedRootKept, Recorded, Locked, Substitute, OpenableForDelete, PendingSet,
       MarkersOf
<1> QED BY <1>1, <1>2 DEF Next

-----------------------------------------------------------------------------

\* No marker, no replacement, no running process: the invariant holds at the start.
LEMMA InitialInv == Init => IInv
<1> SUFFICES ASSUME Init PROVE IInv
    OBVIOUS
<1> USE LegacyConstants DEF Init, Recorded, Locked
<1>1. TypeOK
  <2>1. left \in [fault : 0..MaxFaults, crash : 0..MaxCrashes, substitute : 0..MaxSubstitutions]
      BY SMT
  <2>2. active \in Object \cup {None} /\ born \subseteq Object
      BY DEF Object
  <2> QED BY <2>1, <2>2 DEF TypeOK, PC
<1>2. PendingSet = {} /\ \A i : MarkersOf(i) = {}
    BY DEF PendingSet, MarkersOf
<1>3. JournalConsistent /\ PhaseMatchesNamespace /\ MarkerInv /\ AuditBeforeDone
    BY <1>2 DEF JournalConsistent, SequenceValid, PhaseMatchesNamespace, MarkerInv,
       AuditBeforeDone
<1>4. /\ Mutex /\ ConsentInv /\ HandleInv /\ SourceExclusive /\ RecordInv /\ LabelInv
      /\ DashboardRootPinned
    BY DEF Mutex, ConsentInv, HandleInv, SourceExclusive, RecordInv, LabelInv,
       DashboardRootPinned
<1>5. EventInv /\ AuditedRootKept /\ DetachedWasConsented
    BY DEF EventInv, AuditedRootKept, DetachedWasConsented
<1> QED BY <1>1, <1>3, <1>4, <1>5 DEF IInv

\* A step that changes nothing keeps the invariant.
LEMMA StutteringInv == ASSUME IInv, UNCHANGED vars PROVE IInv'
<1> USE DEF vars, namespace, durable, locals, handles
<1>1. JournalConsistent' /\ PendingSet' = PendingSet
    BY MarkersKept DEF IInv
<1>2. /\ TypeOK' /\ Mutex' /\ MarkerInv' /\ ConsentInv' /\ HandleInv' /\ SourceExclusive'
      /\ LabelInv' /\ EventInv' /\ DetachedWasConsented' /\ AuditBeforeDone'
      /\ DashboardRootPinned' /\ AuditedRootKept'
    BY DEF IInv, TypeOK, Mutex, MarkerInv, ConsentInv, HandleInv, SourceExclusive, LabelInv,
       EventInv, DetachedWasConsented, AuditBeforeDone, DashboardRootPinned, AuditedRootKept
<1>3. RecordInv' /\ PhaseMatchesNamespace'
    BY <1>1 DEF IInv, RecordInv, PhaseMatchesNamespace, MarkersOf
<1> QED BY <1>1, <1>2, <1>3 DEF IInv

\* IInv is inductive: one lemma per conjunct carries it over every step of the program.
LEMMA InductiveInv == IInv /\ [Next]_vars => IInv'
<1>1. ASSUME IInv, Next PROVE IInv'
    BY <1>1, TypeStep, MutexStep, MarkerStep, ConsentStep, HandleStep, SourceExclusiveStep,
       RecordStep, LabelStep, EventStep, JournalStep, PhaseMatchesNamespaceStep,
       DetachedWasConsentedStep, AuditBeforeDoneStep, DashboardRootPinnedStep,
       AuditedRootKeptStep DEF IInv
<1> QED BY <1>1, StutteringInv

\* Every reachable state satisfies the inductive invariant.
THEOREM Invariance == Spec => []IInv
BY InitialInv, InductiveInv, PTL DEF Spec

\* Every variable keeps its type, for any number of processes, identifiers and failures.
THEOREM TypeCorrectness == Spec => []TypeOK
<1>1. IInv => TypeOK
    BY DEF IInv
<1> QED BY <1>1, Invariance, PTL

\* The marker directory stays one that load_pending_from_bootstrap accepts.
THEOREM JournalStaysConsistent == Spec => []JournalConsistent
<1>1. IInv => JournalConsistent
    BY DEF IInv
<1> QED BY <1>1, Invariance, PTL

\* A marker never claims a rename that has not happened.
THEOREM PhasesAreTrue == Spec => []PhaseMatchesNamespace
<1>1. IInv => PhaseMatchesNamespace
    BY DEF IInv
<1> QED BY <1>1, Invariance, PTL

\* Only objects an operator consented to are detached by start_namespace or resume_namespace.
THEOREM ConsentBeforeDetach == Spec => []DetachedWasConsented
<1>1. IInv => DetachedWasConsented
    BY DEF IInv
<1> QED BY <1>1, Invariance, PTL

\* The terminal audit event precedes the Done marker.
THEOREM AuditPrecedesDone == Spec => []AuditBeforeDone
<1>1. IInv => AuditBeforeDone
    BY DEF IInv
<1> QED BY <1>1, Invariance, PTL

\* No recovery moves the production root away from under a running dashboard.
THEOREM DashboardKeepsRoot == Spec => []DashboardRootPinned
<1>1. IInv => DashboardRootPinned
    BY DEF IInv
<1> QED BY <1>1, Invariance, PTL

\* A journal with a terminal event stays reachable by one of the two names.
THEOREM AuditIsKept == Spec => []AuditedRootKept
<1>1. IInv => AuditedRootKept
    BY DEF IInv
<1> QED BY <1>1, Invariance, PTL

\* No step moves an object back from, or replaces it at, its detached name: only
\* RenameSource changes such a name, and it refuses one that is taken.
THEOREM DetachedNeverReturns == Spec => DetachedStays
<1> DEFINE Kept == \A i \in Id : legacy[i] # None => legacy'[i] = legacy[i]
<1>1. ASSUME IInv, [Next]_vars PROVE Kept \/ UNCHANGED vars
  <2>1. ASSUME NEW p \in Proc, DetachSource(p) \/ ResumeDetach(p) PROVE Kept
    <3>1. \/ legacy' = legacy
          \/ /\ legacy[state[p].id] = None
             /\ legacy' = [legacy EXCEPT ![state[p].id] = active]
        BY <2>1 DEF DetachSource, ResumeDetach, RenameSource
    <3>2. legacy \in [Id -> Object \cup {None}]
        BY <1>1 DEF IInv, TypeOK
    <3> QED BY <3>1, <3>2
  <2>2. ASSUME UNCHANGED legacy PROVE Kept
      BY <2>2
  <2> QED BY <1>1, <2>1, <2>2, Frame, SubstituteFrame DEF Next
<1>2. IInv /\ [Next]_vars => [Kept]_vars
    BY <1>1
<1> QED BY <1>2, Invariance, PTL DEF Spec, DetachedStays
=============================================================================
