----------------------- MODULE LegacyRefinementProofs -----------------------
(***************************************************************************)
(* TLAPS proof that LegacyRecovery implements RootReplacement, for any     *)
(* number of processes, migrations, objects, faults, crashes and           *)
(* substitutions.  The inductive invariant of LegacyRecoveryProofs says    *)
(* what a marker implies about the names; the mapping reads the names, so  *)
(* the converse is needed as well: what the names are while a marker is    *)
(* the latest one.                                                         *)
(***************************************************************************)
EXTENDS LegacyRefinement, LegacyRecoveryProofs

\* The replacement keeps its own name until it is activated and has lost it afterwards; the
\* detached name of a migration is free until its source is renamed.
NameInv ==
    /\ \A i \in Id \ used : legacy[i] = None
    /\ \A m \in PendingSet : /\ m.phase = Prepared => next[m.id] = m.next
                             /\ m.phase >= RootReady => next[m.id] = None
    /\ \A p \in Proc : /\ pc[p] = "writePrepared" => legacy[state[p].id] = None
                       /\ pc[p] = "writeRootReady" => next[state[p].id] = None

\* Whatever has a name or is recorded was created, so a new object is none of them.
BornInv ==
    /\ active \in born \cup {None}
    /\ \A i \in Id : legacy[i] \in born \cup {None} /\ next[i] \in born \cup {None}
    /\ \A m \in markers : m.next \in born
    /\ \A p \in Proc : pc[p] \in Recorded => state[p].next \in born

RefinementInv == IInv /\ NameInv /\ BornInv

\* The actions that publish a marker.
Publication(p) == \/ WritePrepared(p) \/ WriteDetached(p) \/ WriteRootReady(p)
                  \/ WriteAuditPending(p) \/ WriteDone(p) \/ FaultAfterPublication(p)

\* The mapping of LegacyRefinement, with names for its parts.
Job(m) == [id |-> m.id, source |-> m.source, next |-> m.next, stage |-> StageOf(m)]
Jobs == {Job(m) : m \in PendingSet}
Finished == {m.id : m \in {n \in markers : n.phase = Done}}
-----------------------------------------------------------------------------

\* Who changes a name, creates an object, or brings a worker to a label NameInv speaks of.
LEMMA NameFrame ==
    ASSUME TypeOK, NEW p \in Proc, Work(p) \/ Operate(p) \/ Misfortune(p)
    PROVE  /\ \A q \in Proc \ {p} : pc'[q] = pc[q] /\ state'[q] = state[q]
           /\ born \subseteq born'
           /\ \/ CreateNext(p) \/ ActivateNext(p) \/ ResumeActivate(p)
              \/ FaultBeforePrepared(p) \/ UNCHANGED next
           /\ \/ CreateRoot(p) \/ DetachSource(p) \/ ResumeDetach(p) \/ ActivateNext(p)
              \/ ResumeActivate(p) \/ UNCHANGED active
           /\ CreateNext(p) \/ pc'[p] # "writePrepared"
           /\ ActivateNext(p) \/ ResumeActivate(p) \/ pc'[p] # "writeRootReady"
           /\ \/ CreateNext(p) \/ LoadPending(p) \/ Publication(p)
              \/ pc'[p] \notin Recorded
              \/ /\ pc[p] \in Recorded
                 /\ state'[p] = state[p]
           /\ Proceed(p) \/ UNCHANGED consented
<1> USE DEF Launch, Proceed, Retry, Quit, InspectMarkers, Classify, CreateRoot,
   CaptureIdentity, OpenBootstrap, AcquireLock, LoadPending, OpenSource, CreateNext,
   DetachSource, ActivateNext, ResumeDetach, ResumeActivate, ResumeVerify, OpenRoot,
   LogTerminalEvent, Refuse, Fault, FaultBeforePrepared, FaultAfterEvent, Crash,
   RenameSource, RenameNext, Abort, Release, Spend, Goto, namespace, durable, handles, locals
<1>0. pc \in [Proc -> PC] /\ state \in [Proc -> Marker \cup {None}]
    BY DEF TypeOK
<1>1. CASE Operate(p)
    BY <1>0, <1>1 DEF Operate, Recorded, Waiting
<1>2. CASE Publication(p)
    BY <1>0, <1>2 DEF Publication, WritePrepared, WriteDetached, WriteRootReady,
       WriteAuditPending, WriteDone, FaultAfterPublication, Publish
<1>3. CASE Misfortune(p) /\ ~Publication(p)
    BY <1>0, <1>3 DEF Misfortune, Publication, Recorded
<1>4. CASE Work(p) /\ ~Publication(p)
    BY <1>0, <1>4 DEF Work, Publication, Recorded
<1> QED BY <1>1, <1>2, <1>3, <1>4

\* A publication moves no name.
LEMMA PublicationFrame ==
    ASSUME NEW p \in Proc, Publication(p)
    PROVE  UNCHANGED <<active, next, legacy, born, used, events, consented>>
BY DEF Publication, WritePrepared, WriteDetached, WriteRootReady, WriteAuditPending,
   WriteDone, FaultAfterPublication, namespace

\* Only the worker with the lock moves a name; the record it advances is the pending one.
LEMMA Renames ==
    ASSUME IInv, NEW p \in Proc
    PROVE  /\ DetachSource(p) \/ ResumeDetach(p) =>
                 /\ pc[p] \in Locked
                 /\ state[p] \in PendingSet /\ state[p] \in Marker /\ state[p].phase = Prepared
                 /\ state[p].id \in used
           /\ ActivateNext(p) \/ ResumeActivate(p) =>
                 /\ pc[p] \in Locked
                 /\ state[p] \in PendingSet /\ state[p] \in Marker /\ state[p].phase = Detached
           /\ CreateNext(p) => pc[p] \in Locked /\ PendingSet = {}
           /\ FaultBeforePrepared(p) => pc[p] \in Locked /\ PendingSet = {}
BY DEF IInv, RecordInv, LabelInv, Recorded, Locked, DetachSource, ResumeDetach, ActivateNext,
   ResumeActivate, CreateNext, FaultBeforePrepared
-----------------------------------------------------------------------------

\* A publication finds the names its phase speaks of: the replacement still at its own name
\* when Prepared is written, and gone from it from RootReady on.
LEMMA PublishedNames ==
    ASSUME IInv, NameInv, NEW p \in Proc, Publication(p), NEW m \in PendingSet'
    PROVE  /\ m.phase = Prepared => next[m.id] = m.next
           /\ m.phase >= RootReady => next[m.id] = None
<1> USE DEF Prepared, Detached, RootReady, AuditPending, Done, Marker, Phase
<1>1. /\ m \in Marker /\ m.id = state[p].id /\ m.next = state[p].next
      /\ IF pc[p] = "writePrepared" THEN m = state[p]
                                    ELSE m = [state[p] EXCEPT !.phase = @ + 1]
      /\ pc[p] \in {"writePrepared", "writeDetached", "writeRootReady", "writeAuditPending"}
    BY PublicationAdds DEF Publication
<1>2. pc[p] = "writePrepared" => next[state[p].id] = state[p].next
    BY DEF IInv, LabelInv
<1>3. pc[p] = "writeRootReady" => next[state[p].id] = None
    BY DEF NameInv
<1>4. ASSUME pc[p] = "writeAuditPending" PROVE next[state[p].id] = None
  <2>1. state[p] \in PendingSet /\ state[p].phase = RootReady
      BY <1>4 DEF IInv, RecordInv, LabelInv, Recorded
  <2> QED BY <2>1 DEF NameInv
<1> QED BY <1>1, <1>2, <1>3, <1>4, WorkerPhase

\* Names change only with the record of the one worker that holds the lock.
LEMMA NameStep == ASSUME IInv, NameInv, Next PROVE NameInv'
<1> USE DEF Prepared, Detached, RootReady, AuditPending, Done
<1>0. /\ TypeOK /\ Mutex
      /\ next \in [Id -> Object \cup {None}] /\ legacy \in [Id -> Object \cup {None}]
    BY DEF IInv, TypeOK
<1>1. ASSUME NEW p \in Proc, Work(p) \/ Operate(p) \/ Misfortune(p) PROVE NameInv'
  <2>0. \A q \in Proc \ {p} : pc[p] \in Locked => pc[q] \notin Locked
      BY <1>0 DEF Mutex
  <2>1. /\ used \subseteq used'
        /\ DetachSource(p) \/ ResumeDetach(p) \/ UNCHANGED legacy
      BY <1>1, Frame
  <2>2. DetachSource(p) \/ ResumeDetach(p) =>
           \E o : legacy' = legacy \/ legacy' = [legacy EXCEPT ![state[p].id] = o]
      BY DEF DetachSource, ResumeDetach, RenameSource
  <2>3. ActivateNext(p) \/ ResumeActivate(p) =>
           \/ next' = [next EXCEPT ![state[p].id] = None]
           \/ next' = next /\ next[state[p].id] = None
      BY DEF ActivateNext, ResumeActivate, RenameNext
  <2>4. \A i \in Id \ used' : legacy'[i] = None
    <3>1. CASE UNCHANGED legacy
        BY <2>1, <3>1 DEF NameInv
    <3>2. CASE DetachSource(p) \/ ResumeDetach(p)
        BY <1>0, <2>1, <2>2, <3>2, Renames DEF NameInv
    <3> QED BY <2>1, <3>1, <3>2
  <2>5. ASSUME NEW m \in PendingSet'
        PROVE  /\ m.phase = Prepared => next'[m.id] = m.next
               /\ m.phase >= RootReady => next'[m.id] = None
    <3>1. CASE Publication(p)
        BY <3>1, PublishedNames, PublicationFrame
    <3>2. CASE UNCHANGED markers
      <4>1. m \in PendingSet
          BY <2>5, <3>2 DEF PendingSet, MarkersOf
      <4>2. CASE UNCHANGED next
          BY <4>1, <4>2 DEF NameInv
      <4>3. CASE CreateNext(p) \/ FaultBeforePrepared(p)
          BY <4>1, <4>3, Renames
      <4>4. CASE ActivateNext(p) \/ ResumeActivate(p)
        <5>1. m = state[p] /\ m.phase = Detached
            BY <4>1, <4>4, Renames DEF IInv, JournalConsistent
        <5> QED BY <5>1
      <4> QED BY <1>0, <1>1, <4>2, <4>3, <4>4, NameFrame
    <3> QED BY <1>1, <3>1, <3>2, Frame DEF Publication
  <2>6. ASSUME NEW q \in Proc, pc'[q] = "writePrepared" PROVE legacy'[state'[q].id] = None
    <3>1. CASE q = p
      <4>1. CreateNext(p)
          BY <1>0, <1>1, <2>6, <3>1, NameFrame
      <4>2. state'[p].id \in Id \ used /\ legacy' = legacy
          BY <1>0, <4>1 DEF CreateNext, TypeOK
      <4> QED BY <3>1, <4>2 DEF NameInv
    <3>2. CASE q # p
      <4>1. pc[q] = "writePrepared" /\ state'[q] = state[q]
          BY <1>0, <1>1, <2>6, <3>2, NameFrame
      <4>2. UNCHANGED legacy
          BY <2>0, <2>1, <3>2, <4>1, Renames DEF Locked, Recorded
      <4> QED BY <2>6, <4>1, <4>2 DEF NameInv
    <3> QED BY <3>1, <3>2
  <2>7. ASSUME NEW q \in Proc, pc'[q] = "writeRootReady" PROVE next'[state'[q].id] = None
    <3>1. CASE q = p
      <4>1. ActivateNext(p) \/ ResumeActivate(p)
          BY <1>0, <1>1, <2>7, <3>1, NameFrame
      <4>2. state'[p] = state[p] /\ state[p].id \in Id
          BY <4>1, Renames DEF ActivateNext, ResumeActivate, Marker
      <4> QED BY <1>0, <2>3, <3>1, <4>1, <4>2
    <3>2. CASE q # p
      <4>1. pc[q] = "writeRootReady" /\ state'[q] = state[q]
          BY <1>0, <1>1, <2>7, <3>2, NameFrame
      <4>2. UNCHANGED next
          BY <1>0, <1>1, <2>0, <3>2, <4>1, NameFrame, Renames DEF Locked, Recorded
      <4> QED BY <2>7, <4>1, <4>2 DEF NameInv
    <3> QED BY <3>1, <3>2
  <2> QED BY <2>4, <2>5, <2>6, <2>7 DEF NameInv
<1>2. ASSUME Substitute PROVE NameInv'
  <2>1. PendingSet' = PendingSet
      BY <1>2, SubstituteFrame DEF PendingSet, MarkersOf
  <2> QED BY <1>2, <2>1, SubstituteFrame DEF NameInv
<1> QED BY <1>1, <1>2 DEF Next

\* Objects are created before they get a name or a record, and stay created.
LEMMA BornStep == ASSUME IInv, BornInv, Next PROVE BornInv'
<1>0. /\ TypeOK
      /\ next \in [Id -> Object \cup {None}] /\ legacy \in [Id -> Object \cup {None}]
    BY DEF IInv, TypeOK
<1>1. ASSUME NEW p \in Proc, Work(p) \/ Operate(p) \/ Misfortune(p) PROVE BornInv'
  <2>0. born \subseteq born'
      BY <1>0, <1>1, NameFrame
  <2>1. active' \in born' \cup {None}
    <3>1. CASE UNCHANGED active
        BY <2>0, <3>1 DEF BornInv
    <3>2. CASE CreateRoot(p) \/ DetachSource(p) \/ ResumeDetach(p)
        BY <2>0, <3>2 DEF BornInv, CreateRoot, DetachSource, ResumeDetach, RenameSource
    <3>3. CASE ActivateNext(p) \/ ResumeActivate(p)
      <4>1. state[p].id \in Id
          BY <3>3, Renames DEF Marker
      <4> QED BY <2>0, <3>3, <4>1 DEF BornInv, ActivateNext, ResumeActivate, RenameNext
    <3> QED BY <1>0, <1>1, <3>1, <3>2, <3>3, NameFrame
  <2>2. \A i \in Id : legacy'[i] \in born' \cup {None}
    <3>1. CASE UNCHANGED legacy
        BY <2>0, <3>1 DEF BornInv
    <3>2. CASE DetachSource(p) \/ ResumeDetach(p)
      <4>1. legacy' = legacy \/ legacy' = [legacy EXCEPT ![state[p].id] = active]
          BY <3>2 DEF DetachSource, ResumeDetach, RenameSource
      <4> QED BY <1>0, <2>0, <4>1 DEF BornInv
    <3> QED BY <1>1, <3>1, <3>2, Frame
  <2>3. \A i \in Id : next'[i] \in born' \cup {None}
    <3>1. CASE UNCHANGED next
        BY <2>0, <3>1 DEF BornInv
    <3>2. CASE CreateNext(p)
        BY <1>0, <2>0, <3>2 DEF BornInv, CreateNext
    <3>3. CASE ActivateNext(p) \/ ResumeActivate(p) \/ FaultBeforePrepared(p)
      <4>1. next' = next \/ next' = [next EXCEPT ![state[p].id] = None]
          BY <3>3 DEF ActivateNext, ResumeActivate, RenameNext, FaultBeforePrepared
      <4> QED BY <1>0, <2>0, <4>1 DEF BornInv
    <3> QED BY <1>0, <1>1, <3>1, <3>2, <3>3, NameFrame
  <2>4. \A m \in markers' : m.next \in born'
    <3>1. CASE UNCHANGED markers
        BY <2>0, <3>1 DEF BornInv
    <3>2. CASE Publication(p)
      <4>1. PICK t : t.next = state[p].next /\ markers' = markers \cup {t} /\ pc[p] \in Recorded
          BY <3>2, PublicationAdds DEF Publication, Recorded
      <4> QED BY <2>0, <4>1 DEF BornInv
    <3> QED BY <1>1, <3>1, <3>2, Frame DEF Publication
  <2>5. ASSUME NEW q \in Proc, pc'[q] \in Recorded PROVE state'[q].next \in born'
    <3>1. CASE q # p
        BY <1>0, <1>1, <2>0, <2>5, <3>1, NameFrame DEF BornInv
    <3>2. CASE q = p /\ CreateNext(p)
        BY <1>0, <3>2 DEF CreateNext, TypeOK
    <3>3. CASE q = p /\ LoadPending(p)
      <4>1. \E m \in markers : state'[p] = m
          BY <1>0, <2>5, <3>3 DEF LoadPending, TypeOK, Goto, Recorded, PendingSet
      <4> QED BY <2>0, <3>3, <4>1 DEF BornInv
    <3>4. CASE q = p /\ Publication(p)
      <4>1. PICK t : /\ t.next = state[p].next /\ pc[p] \in Recorded
                     /\ state' = [state EXCEPT ![p] = t] \/ pc'[p] \in {"ready", "error"}
          BY <3>4, PublicationAdds DEF Publication, Recorded
      <4>2. state'[p] = t
          BY <1>0, <2>5, <3>4, <4>1 DEF TypeOK, Recorded
      <4> QED BY <2>0, <3>4, <4>1, <4>2 DEF BornInv
    <3>5. CASE q = p /\ pc[p] \in Recorded /\ state'[p] = state[p]
        BY <2>0, <3>5 DEF BornInv
    <3> QED BY <1>0, <1>1, <2>5, <3>1, <3>2, <3>3, <3>4, <3>5, NameFrame
  <2> QED BY <2>1, <2>2, <2>3, <2>4, <2>5 DEF BornInv
<1>2. ASSUME Substitute PROVE BornInv'
  <2>1. born \subseteq born' /\ active' \in born' \cup {None}
      BY <1>2 DEF Substitute
  <2> QED BY <1>2, <2>1, SubstituteFrame DEF BornInv
<1> QED BY <1>1, <1>2 DEF Next

\* The strengthened invariant holds in every reachable state.
THEOREM RefinementInvariance == Spec => []RefinementInv
<1>1. Init => NameInv /\ BornInv
    BY DEF Init, NameInv, BornInv, PendingSet, Recorded
<1>2. ASSUME IInv, NameInv, BornInv, UNCHANGED vars PROVE NameInv' /\ BornInv'
  <2>1. PendingSet' = PendingSet
      BY <1>2 DEF vars, durable, PendingSet, MarkersOf
  <2> QED BY <1>2, <2>1 DEF vars, namespace, durable, locals, NameInv, BornInv
<1>3. RefinementInv /\ [Next]_vars => RefinementInv'
    BY <1>2, InductiveInv, NameStep, BornStep DEF RefinementInv
<1>4. Init => RefinementInv
    BY <1>1, InitialInv DEF RefinementInv
<1> QED BY <1>3, <1>4, PTL DEF Spec
-----------------------------------------------------------------------------

\* A job is unchanged while the markers and the names of its migration are.
LEMMA JobsKept ==
    ASSUME UNCHANGED markers,
           \A m \in PendingSet : legacy'[m.id] = legacy[m.id] /\ next'[m.id] = next[m.id]
    PROVE  Jobs' = Jobs /\ Finished' = Finished
<1>1. PendingSet' = PendingSet /\ Finished' = Finished
    BY DEF PendingSet, MarkersOf, Finished
<1>2. \A m \in PendingSet : Job(m)' = Job(m)
    BY DEF Job, StageOf
<1> QED BY <1>1, <1>2 DEF Jobs

\* While a worker advances a published record, that record is the one job.
LEMMA OneJob ==
    ASSUME IInv, NEW p \in Proc, state[p] \in PendingSet
    PROVE  Jobs = {Job(state[p])}
<1>1. PendingSet = {state[p]}
    BY DEF IInv, JournalConsistent
<1> QED BY <1>1 DEF Jobs

\* WritePrepared, or its failure after the publication, is Record.
LEMMA PreparedRefines ==
    ASSUME RefinementInv, NEW p \in Proc, Publication(p), pc[p] = "writePrepared"
    PROVE  Replacement!Record(state[p].id, state[p].next)
<1>1. PICK t : /\ t = state[p] /\ markers' = markers \cup {t} /\ PendingSet' = {t}
               /\ t.phase # Done
    BY PublicationAdds DEF Publication, RefinementInv
<1>2. UNCHANGED <<active, next, legacy, events, consented>>
    BY PublicationFrame
<1>3. /\ PendingSet = {} /\ MarkersOf(state[p].id) = {} /\ state[p].id \in Id
      /\ state[p].source \in consented /\ state[p].next \in Protected
    BY DEF RefinementInv, IInv, RecordInv, Recorded, Marker
<1>4. active = state[p].source
    BY DEF RefinementInv, IInv, SourceExclusive
<1>5. legacy[state[p].id] = None
    BY DEF RefinementInv, NameInv
<1>6. Jobs = {}
    BY <1>3 DEF Jobs
<1>7. Jobs' = {[id |-> state[p].id, source |-> active, next |-> state[p].next,
               stage |-> "recorded"]}
    BY <1>1, <1>2, <1>4, <1>5 DEF Jobs, Job, StageOf
<1>8. Finished' = Finished /\ state[p].id \notin Finished
    BY <1>1, <1>3 DEF Finished, MarkersOf
<1> QED BY <1>2, <1>3, <1>4, <1>5, <1>6, <1>7, <1>8
    DEF Replacement!Record, Jobs, Job, Finished

\* The markers between Prepared and Done repeat the job; only Done ends it.
LEMMA LaterPhaseRefines ==
    ASSUME RefinementInv, NEW p \in Proc, Publication(p), pc[p] # "writePrepared"
    PROVE  IF pc[p] = "writeDone" THEN Replacement!Finish(Job(state[p])) /\ Job(state[p]) \in Jobs
                                  ELSE UNCHANGED Replacement!vars
<1>1. PICK t : /\ t.id = state[p].id /\ t.source = state[p].source /\ t.next = state[p].next
               /\ t.phase = Done <=> pc[p] = "writeDone"
               /\ markers' = markers \cup {t}
               /\ PendingSet' = (IF pc[p] = "writeDone" THEN {} ELSE {t})
               /\ pc[p] \in {"writeDetached", "writeRootReady", "writeAuditPending", "writeDone"}
    BY PublicationAdds DEF Publication, RefinementInv
<1>2. UNCHANGED <<active, next, legacy, events, consented>>
    BY PublicationFrame
<1>3. state[p] \in PendingSet /\ state[p] \in Marker /\ Jobs = {Job(state[p])}
    BY <1>1, OneJob DEF RefinementInv, IInv, RecordInv, Recorded
<1>4. CASE pc[p] = "writeDone"
  <2>1. /\ state[p].phase = AuditPending /\ <<state[p].next, state[p].id>> \in events
        /\ legacy[state[p].id] = state[p].source
      BY <1>4, WorkerPhase, WorkerNamespace DEF RefinementInv, IInv, LabelInv
  <2>2. next[state[p].id] = None
      BY <1>3, <2>1 DEF RefinementInv, NameInv, AuditPending, RootReady, Prepared
  <2>3. state[p].source # None
      BY <1>3, LegacyConstants DEF Marker, Object
  <2>4. Job(state[p]).stage = "replaced"
      BY <2>1, <2>2, <2>3 DEF Job, StageOf
  <2>5. Jobs' = {} /\ Finished' = Finished \cup {state[p].id}
      BY <1>1, <1>4 DEF Jobs, Finished
  <2> QED BY <1>2, <1>3, <1>4, <2>1, <2>4, <2>5
      DEF Replacement!Finish, Jobs, Job, Finished
<1>5. CASE pc[p] # "writeDone"
  <2>1. Jobs' = {Job(t)'} /\ Finished' = Finished
      BY <1>1, <1>5 DEF Jobs, Finished
  <2>2. Job(t)' = Job(state[p])
      BY <1>1, <1>2 DEF Job, StageOf
  <2> QED BY <1>2, <1>3, <1>5, <2>1, <2>2 DEF Replacement!vars, Jobs, Job, Finished
<1> QED BY <1>4, <1>5

\* The rename of the source is Detach, from start_namespace and from resume_namespace; a
\* resume that finds it done already changes nothing.
LEMMA DetachRefines ==
    ASSUME RefinementInv, NEW p \in Proc, DetachSource(p) \/ ResumeDetach(p)
    PROVE  \/ Replacement!Detach(Job(state[p])) /\ Job(state[p]) \in Jobs
           \/ UNCHANGED Replacement!vars
<1>1. /\ state[p] \in PendingSet /\ state[p] \in Marker /\ state[p].phase = Prepared
      /\ Jobs = {Job(state[p])}
    BY Renames, OneJob DEF RefinementInv
<1>2. UNCHANGED <<next, markers, events, consented>>
    BY DEF DetachSource, ResumeDetach, durable
<1>3. PendingSet' = {state[p]} /\ Finished' = Finished
    BY <1>1, <1>2 DEF PendingSet, MarkersOf, Finished, RefinementInv, IInv, JournalConsistent
<1>4. CASE UNCHANGED <<active, legacy>>
    BY <1>2, <1>4, JobsKept DEF Replacement!vars, Jobs, Job, Finished
<1>5. CASE /\ active = state[p].source /\ legacy[state[p].id] = None
           /\ legacy' = [legacy EXCEPT ![state[p].id] = active] /\ active' = None
  <2>1. state[p].source # None /\ state[p].next # None /\ state[p].id \in Id
      BY <1>1, LegacyConstants DEF Marker, Object
  <2>2. next[state[p].id] = state[p].next
      BY <1>1 DEF RefinementInv, NameInv
  <2>3. legacy'[state[p].id] = state[p].source
      BY <1>5, <2>1 DEF RefinementInv, IInv, TypeOK
  <2>4. Job(state[p]).stage = "recorded"
      BY <1>5 DEF Job, StageOf
  <2>5. Jobs' = {[Job(state[p]) EXCEPT !.stage = "detached"]}
    <3>1. Jobs' = {[id |-> state[p].id, source |-> state[p].source, next |-> state[p].next,
                    stage |-> "detached"]}
        BY <1>2, <1>3, <2>1, <2>2, <2>3 DEF Jobs, Job, StageOf
    <3> QED BY <3>1 DEF Job
  <2> QED BY <1>1, <1>2, <1>3, <1>5, <2>4, <2>5
      DEF Replacement!Detach, Replacement!Reach, Jobs, Job, Finished
<1> QED BY <1>4, <1>5 DEF DetachSource, ResumeDetach, RenameSource

\* The rename of the replacement is Replace.
LEMMA ActivateRefines ==
    ASSUME RefinementInv, NEW p \in Proc, ActivateNext(p) \/ ResumeActivate(p)
    PROVE  \/ Replacement!Replace(Job(state[p])) /\ Job(state[p]) \in Jobs
           \/ UNCHANGED Replacement!vars
<1>1. /\ state[p] \in PendingSet /\ state[p] \in Marker /\ state[p].phase = Detached
      /\ Jobs = {Job(state[p])}
    BY Renames, OneJob DEF RefinementInv
<1>2. UNCHANGED <<legacy, markers, events, consented>>
    BY DEF ActivateNext, ResumeActivate, durable
<1>3. PendingSet' = {state[p]} /\ Finished' = Finished
    BY <1>1, <1>2 DEF PendingSet, MarkersOf, Finished, RefinementInv, IInv, JournalConsistent
<1>4. CASE UNCHANGED <<active, next>>
    BY <1>2, <1>4, JobsKept DEF Replacement!vars, Jobs, Job, Finished
<1>5. CASE /\ active = None /\ next[state[p].id] = state[p].next
           /\ active' = state[p].next /\ next' = [next EXCEPT ![state[p].id] = None]
  <2>1. state[p].source # None /\ state[p].next # None /\ state[p].id \in Id
      BY <1>1, LegacyConstants DEF Marker, Object
  <2>2. legacy[state[p].id] = state[p].source
      BY <1>1 DEF RefinementInv, IInv, PhaseMatchesNamespace, PendingSet, Detached
  <2>3. next'[state[p].id] = None
      BY <1>5, <2>1 DEF RefinementInv, IInv, TypeOK
  <2>4. Job(state[p]).stage = "detached"
      BY <1>5, <2>1, <2>2 DEF Job, StageOf
  <2>5. Jobs' = {[Job(state[p]) EXCEPT !.stage = "replaced"]}
    <3>1. Jobs' = {[id |-> state[p].id, source |-> state[p].source, next |-> state[p].next,
                    stage |-> "replaced"]}
        BY <1>2, <1>3, <2>1, <2>2, <2>3 DEF Jobs, Job, StageOf
    <3> QED BY <3>1 DEF Job
  <2> QED BY <1>1, <1>2, <1>3, <1>5, <2>4, <2>5
      DEF Replacement!Replace, Replacement!Reach, Jobs, Job, Finished
<1>6. ASSUME ActivateNext(p) PROVE next[state[p].id] = state[p].next
    BY <1>6 DEF RefinementInv, IInv, LabelInv, ActivateNext
<1> QED BY <1>4, <1>5, <1>6 DEF ActivateNext, ResumeActivate, RenameNext

\* The terminal event is Audit, whether or not its synchronization reports an error.
LEMMA AuditRefines ==
    ASSUME RefinementInv, NEW p \in Proc, LogTerminalEvent(p) \/ FaultAfterEvent(p)
    PROVE  Replacement!Audit(Job(state[p])) /\ Job(state[p]) \in Jobs
<1>1. /\ pc[p] = "audit"
      /\ UNCHANGED <<active, next, legacy, markers, consented>>
      /\ events' = events \cup {<<o, state[p].id>> : o \in held[p]}
    BY DEF LogTerminalEvent, FaultAfterEvent, namespace
<1>2. /\ state[p] \in PendingSet /\ state[p] \in Marker /\ state[p].phase = AuditPending
      /\ Jobs = {Job(state[p])}
    BY <1>1, OneJob DEF RefinementInv, IInv, RecordInv, LabelInv, Recorded
<1>3. events' = events \cup {<<state[p].next, state[p].id>>} /\ active = state[p].next
    BY <1>1, EventWritten DEF RefinementInv
<1>4. legacy[state[p].id] = state[p].source /\ state[p].source # None
    BY <1>1, <1>2, WorkerNamespace, LegacyConstants DEF RefinementInv, Marker, Object
<1>5. next[state[p].id] = None
    BY <1>2 DEF RefinementInv, NameInv, AuditPending, RootReady
<1>6. Job(state[p]).stage = "replaced"
    BY <1>4, <1>5 DEF Job, StageOf
<1>7. Jobs' = Jobs /\ Finished' = Finished
    BY <1>1, JobsKept
<1> QED BY <1>1, <1>2, <1>3, <1>6, <1>7 DEF Replacement!Audit, Jobs, Job, Finished

\* A root created at the free production name, by an instance or by other software, is a new
\* object: neither one that was detached nor the replacement that is waiting.
LEMMA ElsewhereRefines ==
    ASSUME RefinementInv, active \notin Protected,
           \/ active' = None
           \/ active' \in Object \ born,
           UNCHANGED <<next, legacy, markers, events, consented>>
    PROVE  Replacement!Elsewhere
<1>1. Jobs' = Jobs /\ Finished' = Finished
    BY JobsKept
<1>2. \A j \in Jobs : j.next \in born
    BY DEF RefinementInv, BornInv, Jobs, Job, PendingSet
<1>3. \A i \in Id : legacy[i] \in born \cup {None}
    BY DEF RefinementInv, BornInv
<1>4. None \notin Object
    BY LegacyConstants DEF Object
<1> QED BY <1>1, <1>2, <1>3, <1>4 DEF Replacement!Elsewhere, Jobs, Job, Finished

\* Every step of a process or of other software is a step of RootReplacement, or changes
\* nothing that the mapping sees.
LEMMA StepRefines ==
    ASSUME RefinementInv, Next
    PROVE  Replacement!Next \/ UNCHANGED Replacement!vars
<1>0. TypeOK /\ IInv /\ (\A p \in Proc : state[p] \in PendingSet => state[p] \in Marker)
    BY DEF RefinementInv, IInv, TypeOK, PendingSet
<1>1. ASSUME NEW p \in Proc, Work(p) \/ Operate(p) \/ Misfortune(p)
      PROVE  Replacement!Next \/ UNCHANGED Replacement!vars
  <2>1. CASE Publication(p)
    <3>1. CASE pc[p] = "writePrepared"
      <4>1. state[p].id \in Id /\ state[p].next \in Protected
          BY <3>1 DEF RefinementInv, IInv, RecordInv, Recorded, Marker
      <4>2. Replacement!Record(state[p].id, state[p].next)
          BY <2>1, <3>1, PreparedRefines
      <4> QED BY <4>1, <4>2 DEF Replacement!Next, Replacement!Record
    <3>2. CASE pc[p] # "writePrepared"
      <4>1. CASE pc[p] = "writeDone"
        <5>1. Replacement!Finish(Job(state[p])) /\ Job(state[p]) \in Jobs
            BY <2>1, <3>2, <4>1, LaterPhaseRefines
        <5> QED BY <5>1 DEF Replacement!Next, Replacement!Finish, Jobs, Job
      <4>2. CASE pc[p] # "writeDone"
          BY <2>1, <3>2, <4>2, LaterPhaseRefines
      <4> QED BY <4>1, <4>2
    <3> QED BY <3>1, <3>2
  <2>2. CASE DetachSource(p) \/ ResumeDetach(p)
    <3>1. CASE Replacement!Detach(Job(state[p])) /\ Job(state[p]) \in Jobs
        BY <3>1 DEF Replacement!Next, Replacement!Detach, Replacement!Reach, Jobs, Job
    <3> QED BY <2>2, <3>1, DetachRefines
  <2>3. CASE ActivateNext(p) \/ ResumeActivate(p)
    <3>1. CASE Replacement!Replace(Job(state[p])) /\ Job(state[p]) \in Jobs
        BY <3>1 DEF Replacement!Next, Replacement!Replace, Replacement!Reach, Jobs, Job
    <3> QED BY <2>3, <3>1, ActivateRefines
  <2>4. CASE LogTerminalEvent(p) \/ FaultAfterEvent(p)
    <3>1. Replacement!Audit(Job(state[p])) /\ Job(state[p]) \in Jobs
        BY <2>4, AuditRefines
    <3> QED BY <3>1 DEF Replacement!Next, Replacement!Audit, Jobs, Job
  <2>5. CASE CreateRoot(p)
    <3>1. CASE active = None /\ active' \in Protected \ born
      <4>1. Replacement!Elsewhere
          BY <2>5, <3>1, ElsewhereRefines, LegacyConstants DEF CreateRoot, durable, Object
      <4> QED BY <4>1 DEF Replacement!Next
    <3>2. CASE UNCHANGED active
      <4>1. UNCHANGED <<active, next, legacy, markers, events, consented>>
          BY <2>5, <3>2 DEF CreateRoot, durable
      <4> QED BY <4>1, JobsKept DEF Replacement!vars, Jobs, Job, Finished
    <3> QED BY <2>5, <3>1, <3>2 DEF CreateRoot
  <2>6. CASE Proceed(p)
    <3>1. /\ UNCHANGED <<active, next, legacy, markers, events>>
          /\ consented' = consented \/ consented' = consented \cup {recovery[p].identity}
          /\ recovery[p].identity \in Object
        BY <2>6 DEF Proceed, namespace, durable, RefinementInv, IInv, ConsentInv, Recovery
    <3>2. Jobs' = Jobs /\ Finished' = Finished
        BY <3>1, JobsKept
    <3>3. CASE consented' = consented
        BY <3>1, <3>2, <3>3 DEF Replacement!vars, Jobs, Job, Finished
    <3>4. CASE consented' = consented \cup {recovery[p].identity}
      <4>1. Replacement!Consent(recovery[p].identity)
          BY <3>1, <3>2, <3>4 DEF Replacement!Consent, Jobs, Job, Finished
      <4> QED BY <3>1, <4>1 DEF Replacement!Next
    <3> QED BY <3>1, <3>3, <3>4
  <2>7. CASE CreateNext(p) \/ FaultBeforePrepared(p)
    <3>1. PendingSet = {}
        BY <2>7, Renames DEF RefinementInv
    <3>2. UNCHANGED <<active, legacy, markers, events, consented>>
        BY <2>7 DEF CreateNext, FaultBeforePrepared, durable
    <3>3. Jobs' = Jobs /\ Finished' = Finished
        BY <3>1, <3>2, JobsKept
    <3> QED BY <3>2, <3>3 DEF Replacement!vars, Jobs, Job, Finished
  <2>8. CASE UNCHANGED <<active, next, legacy, markers, events, consented>>
      BY <2>8, JobsKept DEF Replacement!vars, Jobs, Job, Finished
  <2> QED BY <1>0, <1>1, <2>1, <2>2, <2>3, <2>4, <2>5, <2>6, <2>7, <2>8, Frame, NameFrame
      DEF Publication
<1>2. ASSUME Substitute PROVE Replacement!Next
  <2>1. active \notin Protected /\ (active' = None \/ active' \in Object \ born)
      BY <1>2, LegacyConstants DEF Substitute, Object
  <2> QED BY <1>2, <2>1, SubstituteFrame, ElsewhereRefines DEF Replacement!Next
<1> QED BY <1>1, <1>2 DEF Next

\* Nothing is recorded at the start.
LEMMA InitialRefines == Init => Replacement!Init
<1> SUFFICES ASSUME Init PROVE Replacement!Init
    OBVIOUS
<1>1. PendingSet = {} /\ Jobs = {} /\ Finished = {}
    BY DEF Init, PendingSet, Jobs, Finished
<1>2. active \in Object \cup {None}
    BY DEF Init, Object
<1> QED BY <1>1, <1>2 DEF Init, Replacement!Init, Jobs, Job, Finished

\* Whatever crashes, failing calls and other instances do, the recovery of legacy.rs is an
\* uninterrupted replacement of the root.
THEOREM RecoveryReplacesOnce == Spec => ReplacesOnce
<1>1. ASSUME RefinementInv, [Next]_vars PROVE [Replacement!Next]_(Replacement!vars)
  <2>1. CASE UNCHANGED vars
    <3>1. UNCHANGED <<active, next, legacy, markers, events, consented>>
        BY <2>1 DEF vars, namespace, durable
    <3> QED BY <3>1, JobsKept DEF Replacement!vars, Jobs, Job, Finished
  <2> QED BY <1>1, <2>1, StepRefines
<1> QED BY <1>1, InitialRefines, RefinementInvariance, PTL DEF Spec, ReplacesOnce, Replacement!Spec
=============================================================================
