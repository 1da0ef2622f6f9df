----------------------- MODULE OperationControlProofs -----------------------
(***************************************************************************)
(* TLAPS proofs about OperationControl, for any profiles, targets, number  *)
(* of operations and progress reports.                                     *)
(***************************************************************************)
EXTENDS OperationControl, SequenceTheorems, FiniteSetTheorems, TLAPS

\* The results waiting in the event loop's queue: none, or exactly one.
NoResult(q) == \A i \in 1 .. Len(q) : q[i].type # "result"
OneResult(q) ==
    \E i \in 1 .. Len(q) : /\ q[i].type = "result"
                           /\ \A j \in 1 .. Len(q) : q[j].type = "result" => j = i

\* Operations begin one after the other: only the last one can still have a worker.
OpsInv ==
    /\ ops >= 1 /\ kind[ops] \in Kind /\ worker[ops] # "new"
    /\ \A n \in Op : (n < ops => worker[n] = "gone") /\ (n > ops => worker[n] = "new")

\* OperationState::active names the last operation until its worker stores Idle; the window
\* is busy until the result is applied.
ActiveInv ==
    /\ active = IF worker[ops] \in {"run", "clear", "idle"} THEN kind[ops] ELSE None
    /\ worker[ops] # "gone" => busy

\* The queue holds the result of the last operation exactly between its post and its use.
QueueInv == IF busy /\ worker[ops] = "gone" THEN OneResult(loop) ELSE NoResult(loop)

\* While a migration runs its own token is in the slot.
SlotInv == worker[ops] \in {"run", "clear"} /\ kind[ops] = "Migration" => slot = ops

\* The overlay is open only while nothing runs and no result is due.
ModalInv == modal # None => ~busy

ControlInv ==
    /\ TypeOK /\ OpsInv /\ ActiveInv /\ QueueInv /\ SlotInv /\ ModalInv
    /\ NoExitDuringOperation /\ DeferredCloseCancels /\ PreflightIsCurrent
    /\ ConfirmationIsCurrent
-----------------------------------------------------------------------------

\* Posting a progress callback brings no result.
LEMMA PostProgress ==
    ASSUME NEW q \in Seq(Callback), NEW c \in Callback, c.type # "result", NoResult(q)
    PROVE  NoResult(Append(q, c))
BY AppendProperties, LenProperties DEF NoResult

\* Posting the first result makes it the only one.
LEMMA PostOneResult ==
    ASSUME NEW q \in Seq(Callback), NEW c \in Callback, c.type = "result", NoResult(q)
    PROVE  OneResult(Append(q, c))
<1>1. /\ Len(q) \in Nat /\ Len(Append(q, c)) = Len(q) + 1
      /\ \A i \in 1 .. Len(q) : Append(q, c)[i] = q[i]
      /\ Append(q, c)[Len(q) + 1] = c
    BY AppendProperties, LenProperties
<1>2. \A j \in 1 .. Len(q) + 1 : j \in 1 .. Len(q) \/ j = Len(q) + 1
    BY <1>1
<1> QED BY <1>1, <1>2 DEF NoResult, OneResult

\* What is left of the queue after its first callback.
LEMMA TakeHead ==
    ASSUME NEW q \in Seq(Callback), q # <<>>
    PROVE  /\ NoResult(q) => NoResult(Tail(q)) /\ Head(q).type # "result"
           /\ OneResult(q) /\ Head(q).type # "result" => OneResult(Tail(q))
           /\ OneResult(q) /\ Head(q).type = "result" => NoResult(Tail(q))
<1>1. /\ Len(q) \in Nat \ {0} /\ Head(q) = q[1] /\ Len(Tail(q)) = Len(q) - 1
      /\ \A i \in 1 .. Len(q) - 1 : Tail(q)[i] = q[i + 1]
    BY HeadTailProperties, EmptySeq, LenProperties
<1>2. NoResult(q) => NoResult(Tail(q)) /\ Head(q).type # "result"
    BY <1>1 DEF NoResult
<1>3. ASSUME OneResult(q), Head(q).type # "result" PROVE OneResult(Tail(q))
  <2>1. PICK i \in 1 .. Len(q) : /\ q[i].type = "result"
                                 /\ \A j \in 1 .. Len(q) : q[j].type = "result" => j = i
      BY <1>3 DEF OneResult
  <2>2. i - 1 \in 1 .. Len(q) - 1 /\ Tail(q)[i - 1].type = "result"
      BY <1>1, <1>3, <2>1
  <2>3. \A j \in 1 .. Len(q) - 1 : Tail(q)[j].type = "result" => j = i - 1
      BY <1>1, <2>1
  <2> QED BY <1>1, <2>2, <2>3 DEF OneResult
<1>4. ASSUME OneResult(q), Head(q).type = "result" PROVE NoResult(Tail(q))
    BY <1>1, <1>4 DEF NoResult, OneResult
<1> QED BY <1>2, <1>3, <1>4

\* What the operator does to the workers: nothing, or an operation begins while none is
\* registered, the window is not busy and not hidden.
LEMMA OperatorBegins ==
    ASSUME TypeOK, ModalInv, Operator
    PROVE  \/ UNCHANGED <<threads, active, busy>>
           \/ /\ \E k \in Kind : BeginOperation(k)
              /\ ~busy /\ ~hidden /\ modal' = None /\ hidden' = hidden
<1>1. modal # None => modal.kind \in Kind /\ ~busy
    BY DEF TypeOK, Confirmation, Kind, ModalInv
<1>2. CASE Confirm
    BY <1>1, <1>2 DEF Confirm, Free
<1>3. CASE StartMigration
    BY <1>3 DEF StartMigration, Enabled, Free, Kind
<1>4. CASE \E k \in {"Scan", "Export", "Repair"} : BeginDirectly(k)
    BY <1>4 DEF BeginDirectly, Enabled, Free, Kind
<1>5. CASE \/ \E s \in Profile : SelectProfile(s)
           \/ \E t \in Target \cup {None} : EditDraft(t)
           \/ \E k \in {"Repair", "TrustedInstaller"} : RequestConfirmation(k)
           \/ Validate \/ Dismiss \/ MigrationRefused \/ CancelMigration \/ CloseRequested
    BY <1>5 DEF SelectProfile, EditDraft, RequestConfirmation, Validate, Dismiss,
       MigrationRefused, CancelMigration, CloseRequested, state, window
<1> QED BY <1>2, <1>3, <1>4, <1>5 DEF Operator

\* Every variable keeps its type.
LEMMA TypeStep == ASSUME TypeOK, OpsInv, ModalInv, Next PROVE TypeOK'
<1> USE ControlConstants DEF Op, state, threads, window, ResetDraft, Goto, At
<1> DEFINE Threads == /\ ops \in 0 .. MaxOps
                      /\ kind \in [Op -> Kind \cup {None}]
                      /\ worker \in [Op -> {"new", "run", "clear", "idle", "swap", "post", "gone"}]
                      /\ swapped \in [Op -> BOOLEAN] /\ scheduled \in [Op -> BOOLEAN]
                      /\ pending \in [Op -> BOOLEAN] /\ reports \in [Op -> 0 .. MaxProgress]
           Shared == /\ active \in Kind \cup {None} /\ closeFlag \in BOOLEAN
                     /\ slot \in Op \cup {None} /\ cancelled \subseteq Op
           Form == /\ token \in Draft \cup {None} /\ draft \in Draft
                   /\ modal \in Confirmation \cup {None}
           Flags == /\ busy \in BOOLEAN /\ running \in BOOLEAN /\ valid \in BOOLEAN
                    /\ closing \in BOOLEAN /\ owed \in BOOLEAN /\ hidden \in BOOLEAN
<1>a. Threads /\ Shared /\ Form /\ Flags /\ loop \in Seq(Callback)
    BY DEF TypeOK
<1>1. ASSUME Operator PROVE Threads'
  <2>1. CASE UNCHANGED <<threads, active, busy>>
      BY <1>a, <2>1
  <2>2. ASSUME NEW k \in Kind, BeginOperation(k) PROVE Threads'
    <3>1. ops + 1 \in Op /\ ops' \in 0 .. MaxOps
        BY <1>a, <2>2 DEF BeginOperation
    <3>2. kind' \in [Op -> Kind \cup {None}]
        BY <1>a, <2>2, <3>1 DEF BeginOperation
    <3>3. worker' \in [Op -> {"new", "run", "clear", "idle", "swap", "post", "gone"}]
        BY <1>a, <2>2, <3>1 DEF BeginOperation
    <3> QED BY <1>a, <2>2, <3>1, <3>2, <3>3 DEF BeginOperation
  <2> QED BY <1>1, <2>1, <2>2, OperatorBegins
<1>2. ASSUME Operator PROVE Shared'
  <2>1. active' \in Kind \cup {None}
      BY <1>a, <1>2, OperatorBegins DEF BeginOperation
  <2> QED BY <1>a, <1>2, <2>1 DEF Operator, SelectProfile, EditDraft, BeginDirectly,
      RequestConfirmation, Validate, Confirm, Dismiss, StartMigration, MigrationRefused,
      CancelMigration, CloseRequested, PublishToken, BeginOperation
<1>3. ASSUME Operator PROVE Form'
  <2>1. CASE \E s \in Profile : SelectProfile(s)
      BY <1>a, <2>1 DEF SelectProfile, Draft
  <2>2. CASE \E t \in Target \cup {None} : EditDraft(t)
      BY <1>a, <2>2, ZenonT(60) DEF EditDraft, Draft
  <2>3. CASE \E k \in {"Repair", "TrustedInstaller"} : RequestConfirmation(k)
      BY <1>a, <2>3 DEF RequestConfirmation, Draft, Confirmation
  <2>4. CASE \/ \E k \in {"Scan", "Export", "Repair"} : BeginDirectly(k)
             \/ Validate \/ Confirm \/ Dismiss \/ StartMigration \/ MigrationRefused
             \/ CancelMigration \/ CloseRequested
      BY <1>a, <2>4 DEF BeginDirectly, Validate, Confirm, Dismiss, StartMigration,
         MigrationRefused, CancelMigration, CloseRequested
  <2> QED BY <1>3, <2>1, <2>2, <2>3, <2>4 DEF Operator
<1>4. ASSUME Operator PROVE Flags' /\ loop' = loop
    BY <1>a, <1>4 DEF Operator, SelectProfile, EditDraft, BeginDirectly, RequestConfirmation,
       Validate, Confirm, Dismiss, StartMigration, MigrationRefused, CancelMigration,
       CloseRequested, BeginOperation
<1>5. ASSUME EventLoop PROVE Threads' /\ Shared' /\ Form' /\ Flags' /\ loop' \in Seq(Callback)
  <2>1. loop # <<>> => Tail(loop) \in Seq(Callback) /\ Head(loop) \in Callback
      BY <1>a, HeadTailProperties
  <2>2. CASE DeferClose
      BY <1>a, <2>2 DEF DeferClose
  <2>3. CASE ApplyProgress
      BY <1>a, <2>1, <2>3, ZenonT(60) DEF ApplyProgress
  <2>4. CASE ApplyResult
    <3>1. Threads' /\ Shared' /\ loop' \in Seq(Callback)
        BY <1>a, <2>1, <2>4 DEF ApplyResult
    <3>2. Form'
        BY <1>a, <2>4 DEF ApplyResult, Draft
    <3>3. Head(loop).close \in BOOLEAN
        BY <2>1, <2>4 DEF ApplyResult, Callback
    <3>4. Flags'
        BY <1>a, <2>4, <3>3 DEF ApplyResult
    <3> QED BY <3>1, <3>2, <3>4
  <2> QED BY <1>5, <2>2, <2>3, <2>4 DEF EventLoop
<1>6. ASSUME NEW n \in Op, ReportProgress(n) \/ Run(n) PROVE Threads' /\ Shared' /\ Form' /\ Flags'
  <2>1. CASE ReportProgress(n)
    <3>1. reports' \in [Op -> 0 .. MaxProgress]
        BY <1>a, <2>1 DEF ReportProgress
    <3> QED BY <1>a, <2>1, <3>1 DEF ReportProgress
  <2>2. CASE Finished(n) \/ ClearSlot(n) \/ StoreIdle(n) \/ PostResult(n)
      BY <1>a, <2>2, ZenonT(60) DEF Finished, ClearSlot, StoreIdle, PostResult
  <2>3. CASE SwapFlag(n)
    <3>1. (closeFlag /\ kind[n] = "Migration") \in BOOLEAN
        OBVIOUS
    <3>2. swapped' \in [Op -> BOOLEAN]
        BY <1>a, <2>3, <3>1 DEF SwapFlag
    <3> QED BY <1>a, <2>3, <3>2 DEF SwapFlag
  <2> QED BY <1>6, <2>1, <2>2, <2>3 DEF Run
<1>7. ASSUME NEW n \in Op, ReportProgress(n) \/ Run(n) PROVE loop' \in Seq(Callback)
  <2>1. \A c \in Callback : Append(loop, c) \in Seq(Callback)
      BY <1>a, AppendProperties
  <2>2. CASE ReportProgress(n)
    <3>1. [type |-> "progress", op |-> n] \in Callback
        BY DEF Callback
    <3> QED BY <1>a, <2>1, <2>2, <3>1 DEF ReportProgress
  <2>3. CASE PostResult(n)
    <3>1. \A r \in BOOLEAN : [type |-> "result", op |-> n, reset |-> r, close |-> swapped[n]] \in Callback
        BY <1>a DEF Callback
    <3> QED BY <2>1, <2>3, <3>1 DEF PostResult
  <2>4. CASE Finished(n) \/ ClearSlot(n) \/ StoreIdle(n) \/ SwapFlag(n)
      BY <1>a, <2>4 DEF Finished, ClearSlot, StoreIdle, SwapFlag
  <2> QED BY <1>7, <2>2, <2>3, <2>4 DEF Run
<1> QED BY <1>a, <1>1, <1>2, <1>3, <1>4, <1>5, <1>6, <1>7 DEF TypeOK, Next

\* A worker that still runs is the one of the last operation.
LEMMA LiveWorkerIsLast ==
    ASSUME TypeOK, OpsInv, NEW n \in Op, worker[n] \notin {"new", "gone"}
    PROVE  n = ops
BY DEF TypeOK, OpsInv, Op

\* An operation begins only when the worker before it is gone.
LEMMA BeginsAfterGone ==
    ASSUME TypeOK, OpsInv, ActiveInv, NEW k \in Kind, BeginOperation(k), ~busy
    PROVE  /\ ops \in Op /\ ops + 1 \in Op /\ worker[ops] = "gone"
           /\ ops' = ops + 1 /\ active' = k /\ busy'
           /\ kind'[ops'] = k /\ worker'[ops'] = "run"
           /\ \A n \in Op : n # ops' => worker'[n] = worker[n] /\ kind'[n] = kind[n]
BY ControlConstants DEF TypeOK, OpsInv, ActiveInv, BeginOperation, Op

\* A result at the head of the queue is the last operation's, whose worker is gone.
LEMMA ResultIsLast ==
    ASSUME TypeOK, QueueInv, ApplyResult
    PROVE  busy /\ worker[ops] = "gone" /\ OneResult(loop) /\ NoResult(Tail(loop))
BY TakeHead DEF TypeOK, QueueInv, ApplyResult

\* OpsInv and ActiveInv are preserved.
LEMMA OpsStep ==
    ASSUME TypeOK, OpsInv, ActiveInv, QueueInv, ModalInv, Next
    PROVE  OpsInv' /\ ActiveInv'
<1> USE DEF Op
<1>1. CASE UNCHANGED <<threads, active, busy>>
    BY <1>1 DEF threads, OpsInv, ActiveInv
<1>2. CASE Operator
  <2>1. ASSUME NEW k \in Kind, BeginOperation(k), ~busy PROVE OpsInv' /\ ActiveInv'
    <3>1. OpsInv'
        BY <2>1, BeginsAfterGone DEF TypeOK, OpsInv
    <3> QED BY <2>1, <3>1, BeginsAfterGone DEF ActiveInv
  <2> QED BY <1>1, <1>2, <2>1, OperatorBegins
<1>3. CASE EventLoop
  <2>1. CASE DeferClose \/ ApplyProgress
    <3>1. UNCHANGED <<ops, kind, worker, active, busy>>
        BY <2>1 DEF DeferClose, ApplyProgress, threads, state, window
    <3> QED BY <3>1 DEF OpsInv, ActiveInv
  <2>2. CASE ApplyResult
    <3>1. UNCHANGED <<ops, kind, worker, active>> /\ worker[ops] = "gone"
        BY <2>2, ResultIsLast DEF ApplyResult, threads
    <3> QED BY <3>1 DEF OpsInv, ActiveInv
  <2> QED BY <1>3, <2>1, <2>2 DEF EventLoop
<1>4. ASSUME NEW n \in Op, ReportProgress(n) PROVE OpsInv' /\ ActiveInv'
  <2>1. UNCHANGED <<ops, kind, worker, active, busy>>
      BY <1>4 DEF ReportProgress, state, window
  <2> QED BY <2>1 DEF OpsInv, ActiveInv
<1>5. ASSUME NEW n \in Op, Run(n) PROVE OpsInv' /\ ActiveInv'
  <2>1. n = ops
      BY <1>5, LiveWorkerIsLast DEF Run, Finished, ClearSlot, StoreIdle, SwapFlag, PostResult, At
  <2>2. PICK l \in {"clear", "idle", "swap", "post", "gone"} : Goto(n, l)
      BY <1>5 DEF Run, Finished, ClearSlot, StoreIdle, SwapFlag, PostResult
  <2>3. UNCHANGED <<ops, kind, busy>> /\ worker'[ops] = l
        /\ \A m \in Op : m # ops => worker'[m] = worker[m]
      BY <1>5, <2>1, <2>2 DEF Run, Finished, ClearSlot, StoreIdle, SwapFlag, PostResult, Goto,
         window, TypeOK
  <2>4. OpsInv'
      BY <2>3 DEF OpsInv
  <2>5. busy
      BY <1>5, <2>1 DEF Run, Finished, ClearSlot, StoreIdle, SwapFlag, PostResult, At, ActiveInv
  <2>6. active' = IF worker'[ops] \in {"run", "clear", "idle"} THEN kind[ops] ELSE None
      BY <1>5, <2>1, <2>3 DEF Run, Finished, ClearSlot, StoreIdle, SwapFlag, PostResult, At,
         Goto, state, ActiveInv, TypeOK
  <2> QED BY <2>3, <2>4, <2>5, <2>6 DEF ActiveInv
<1> QED BY <1>2, <1>3, <1>4, <1>5 DEF Next

\* QueueInv is preserved: one result is posted per operation, and it is used once.
LEMMA QueueStep ==
    ASSUME TypeOK, OpsInv, ActiveInv, QueueInv, ModalInv, Next
    PROVE  QueueInv'
<1>1. CASE Operator
  <2>1. loop' = loop
      BY <1>1 DEF Operator, SelectProfile, EditDraft, BeginDirectly, RequestConfirmation,
         Validate, Confirm, Dismiss, StartMigration, MigrationRefused, CancelMigration,
         CloseRequested
  <2>2. CASE UNCHANGED <<threads, active, busy>>
      BY <2>1, <2>2 DEF threads, QueueInv
  <2>3. ASSUME NEW k \in Kind, BeginOperation(k), ~busy PROVE QueueInv'
      BY <2>1, <2>3, BeginsAfterGone DEF QueueInv
  <2> QED BY <1>1, <2>2, <2>3, OperatorBegins
<1>2. CASE DeferClose
    BY <1>2 DEF DeferClose, threads, QueueInv
<1>3. CASE ApplyProgress
  <2>1. /\ loop \in Seq(Callback) /\ loop # <<>> /\ Head(loop).type # "result"
        /\ loop' = Tail(loop) /\ UNCHANGED <<busy, worker, ops>>
      BY <1>3 DEF ApplyProgress, TypeOK, window
  <2> QED BY <2>1, TakeHead DEF QueueInv
<1>4. CASE ApplyResult
    BY <1>4, ResultIsLast DEF ApplyResult, QueueInv
<1>5. ASSUME NEW n \in Op, ReportProgress(n) PROVE QueueInv'
  <2>1. n = ops /\ worker[ops] = "run" /\ UNCHANGED <<busy, worker, ops>>
      BY <1>5, LiveWorkerIsLast DEF ReportProgress, At, window
  <2>2. [type |-> "progress", op |-> n] \in Callback
      BY DEF Callback
  <2>3. NoResult(Append(loop, [type |-> "progress", op |-> n]))
      BY <2>1, <2>2, PostProgress DEF QueueInv, TypeOK
  <2> QED BY <1>5, <2>1, <2>3 DEF ReportProgress, QueueInv
<1>6. ASSUME NEW n \in Op, PostResult(n) PROVE QueueInv'
  <2>1. n = ops /\ worker[ops] = "post" /\ UNCHANGED <<busy, ops>>
      BY <1>6, LiveWorkerIsLast DEF PostResult, At, window
  <2>2. busy /\ NoResult(loop) /\ worker'[ops] = "gone"
      BY <1>6, <2>1 DEF PostResult, Goto, ActiveInv, QueueInv, TypeOK
  <2>3. PICK r \in BOOLEAN :
            loop' = Append(loop, [type |-> "result", op |-> n, reset |-> r, close |-> swapped[n]])
      BY <1>6 DEF PostResult
  <2>4. [type |-> "result", op |-> n, reset |-> r, close |-> swapped[n]] \in Callback
      BY DEF Callback, TypeOK
  <2>5. OneResult(loop')
      BY <2>2, <2>3, <2>4, PostOneResult DEF TypeOK
  <2> QED BY <2>1, <2>2, <2>5 DEF QueueInv
<1>7. ASSUME NEW n \in Op, Finished(n) \/ ClearSlot(n) \/ StoreIdle(n) \/ SwapFlag(n)
      PROVE  QueueInv'
  <2>1. n = ops /\ worker[ops] # "gone" /\ UNCHANGED <<busy, ops, loop>>
      BY <1>7, LiveWorkerIsLast DEF Finished, ClearSlot, StoreIdle, SwapFlag, At, window
  <2>2. worker'[ops] # "gone"
      BY <1>7, <2>1 DEF Finished, ClearSlot, StoreIdle, SwapFlag, Goto, TypeOK
  <2> QED BY <2>1, <2>2 DEF QueueInv
<1> QED BY <1>1, <1>2, <1>3, <1>4, <1>5, <1>6, <1>7 DEF Next, EventLoop, Run

\* SlotInv is preserved: the token is published with the begin and removed after the run.
LEMMA SlotStep ==
    ASSUME TypeOK, OpsInv, ActiveInv, SlotInv, ModalInv, Next
    PROVE  SlotInv'
<1>1. CASE StartMigration
    BY <1>1, BeginsAfterGone DEF StartMigration, Enabled, PublishToken, SlotInv, Kind
<1>2. ASSUME NEW k \in Kind \ {"Migration"}, BeginOperation(k), ~busy PROVE SlotInv'
    BY <1>2, BeginsAfterGone DEF SlotInv
<1>3. CASE Confirm
  <2>1. modal.kind \in Kind \ {"Migration"} /\ ~busy
      BY <1>3 DEF Confirm, TypeOK, Confirmation, ModalInv, Kind
  <2> QED BY <1>2, <1>3, <2>1 DEF Confirm
<1>4. CASE \E k \in {"Scan", "Export", "Repair"} : BeginDirectly(k)
    BY <1>2, <1>4 DEF BeginDirectly, Enabled, Kind
<1>5. CASE UNCHANGED <<ops, kind, worker, slot>>
    BY <1>5 DEF SlotInv
<1>6. CASE \/ \E s \in Profile : SelectProfile(s)
           \/ \E t \in Target \cup {None} : EditDraft(t)
           \/ \E k \in {"Repair", "TrustedInstaller"} : RequestConfirmation(k)
           \/ Validate \/ Dismiss \/ MigrationRefused \/ CancelMigration \/ CloseRequested
           \/ EventLoop \/ \E n \in Op : ReportProgress(n)
    BY <1>5, <1>6 DEF SelectProfile, EditDraft, RequestConfirmation, Validate, Dismiss,
       MigrationRefused, CancelMigration, CloseRequested, EventLoop, DeferClose, ApplyProgress,
       ApplyResult, ReportProgress, state, threads
<1>7. ASSUME NEW n \in Op, Run(n) PROVE SlotInv'
  <2>1. n = ops /\ UNCHANGED <<ops, kind>>
      BY <1>7, LiveWorkerIsLast DEF Run, Finished, ClearSlot, StoreIdle, SwapFlag, PostResult, At
  <2> QED BY <1>7, <2>1 DEF Run, Finished, ClearSlot, StoreIdle, SwapFlag, PostResult, At, Goto,
      state, SlotInv, TypeOK
<1> QED BY <1>1, <1>3, <1>4, <1>6, <1>7 DEF Next, Operator

\* The overlay opens only when nothing runs, closes before an operation begins, and names
\* the selected profile all along.
LEMMA ModalStep ==
    ASSUME TypeOK, OpsInv, ActiveInv, QueueInv, ModalInv, ConfirmationIsCurrent, Next
    PROVE  ModalInv' /\ ConfirmationIsCurrent'
<1>1. CASE Confirm \/ Dismiss \/ StartMigration
           \/ (\E k \in {"Scan", "Export", "Repair"} : BeginDirectly(k))
    BY <1>1 DEF Confirm, Dismiss, StartMigration, BeginDirectly, Enabled, ModalInv,
       ConfirmationIsCurrent
<1>2. CASE \E k \in {"Repair", "TrustedInstaller"} : RequestConfirmation(k)
    BY <1>2 DEF RequestConfirmation, Enabled, ModalInv, ConfirmationIsCurrent, ActiveInv, state
<1>3. CASE \/ \E s \in Profile : SelectProfile(s)
           \/ \E t \in Target \cup {None} : EditDraft(t)
    BY <1>3 DEF SelectProfile, EditDraft, Enabled, ModalInv, ConfirmationIsCurrent
<1>4. CASE ApplyResult
    BY <1>4, ResultIsLast DEF ApplyResult, ModalInv, ConfirmationIsCurrent
<1>5. CASE UNCHANGED <<modal, busy, draft, active>>
    BY <1>5 DEF ModalInv, ConfirmationIsCurrent
<1>6. CASE Validate \/ MigrationRefused \/ CancelMigration \/ CloseRequested \/ DeferClose
           \/ ApplyProgress \/ \E n \in Op : ReportProgress(n)
    BY <1>5, <1>6 DEF Validate, MigrationRefused, CancelMigration, CloseRequested, DeferClose,
       ApplyProgress, ReportProgress, state, window
<1>7. ASSUME NEW n \in Op, Run(n) PROVE ModalInv' /\ ConfirmationIsCurrent'
  <2>1. UNCHANGED <<modal, busy, draft>> /\ active' \in {active, None}
      BY <1>7 DEF Run, Finished, ClearSlot, StoreIdle, SwapFlag, PostResult, state, window
  <2> QED BY <2>1 DEF ModalInv, ConfirmationIsCurrent
<1> QED BY <1>1, <1>2, <1>3, <1>4, <1>6, <1>7 DEF Next, Operator, EventLoop

\* The close policy lets the window go only when no operation is registered.
LEMMA AllowOnlyIdle ==
    ASSUME NEW k \in Kind \cup {None}
    PROVE  /\ ClosePolicy(k) = "Allow" => k = None
           /\ ClosePolicy(k) = "CancelMigration" => k = "Migration"
BY DEF ClosePolicy

\* No step hides the window while a worker is inside its operation, or begins one behind a
\* hidden window.
LEMMA NoExitStep ==
    ASSUME TypeOK, OpsInv, ActiveInv, QueueInv, ModalInv, NoExitDuringOperation, Next
    PROVE  NoExitDuringOperation'
<1>1. ASSUME worker' = worker, hidden' => hidden PROVE NoExitDuringOperation'
    BY <1>1 DEF NoExitDuringOperation
<1>2. ASSUME worker[ops] \notin {"run", "clear"}, UNCHANGED worker PROVE NoExitDuringOperation'
    BY <1>2, LiveWorkerIsLast DEF NoExitDuringOperation
<1>3. CASE CloseRequested
  <2>1. UNCHANGED worker /\ hidden' = (ClosePolicy(active) = "Allow")
      BY <1>3 DEF CloseRequested, threads
  <2>2. CASE active = None
    <3>1. kind[ops] # None
        BY ControlConstants DEF OpsInv
    <3> QED BY <1>2, <2>1, <2>2, <3>1 DEF ActiveInv
  <2>3. CASE active # None
      BY <2>1, <2>3, <1>1, AllowOnlyIdle DEF TypeOK
  <2> QED BY <2>2, <2>3
<1>4. CASE ApplyResult
    BY <1>2, <1>4, ResultIsLast DEF ApplyResult, threads
<1>5. CASE \/ \E s \in Profile : SelectProfile(s)
           \/ \E t \in Target \cup {None} : EditDraft(t)
           \/ \E k \in {"Repair", "TrustedInstaller"} : RequestConfirmation(k)
           \/ Validate \/ Dismiss \/ MigrationRefused \/ CancelMigration
           \/ DeferClose \/ ApplyProgress \/ \E n \in Op : ReportProgress(n)
    BY <1>1, <1>5 DEF SelectProfile, EditDraft, RequestConfirmation, Validate, Dismiss,
       MigrationRefused, CancelMigration, DeferClose, ApplyProgress, ReportProgress, threads,
       window
<1>6. CASE Confirm \/ StartMigration \/ \E k \in {"Scan", "Export", "Repair"} : BeginDirectly(k)
    BY <1>6 DEF Confirm, StartMigration, BeginDirectly, Enabled, Free, NoExitDuringOperation
<1>7. ASSUME NEW n \in Op, Run(n) PROVE NoExitDuringOperation'
    BY <1>7 DEF Run, Finished, ClearSlot, StoreIdle, SwapFlag, PostResult, At, window,
       NoExitDuringOperation
<1> QED BY <1>3, <1>4, <1>5, <1>6, <1>7 DEF Next, Operator, EventLoop

\* However the close, the publication and the end of a migration interleave, its token is set.
LEMMA DeferredCloseStep ==
    ASSUME TypeOK, OpsInv, ActiveInv, SlotInv, ModalInv, DeferredCloseCancels, Next
    PROVE  DeferredCloseCancels'
<1>1. ASSUME UNCHANGED <<worker, kind>>, closeFlag' => closeFlag, cancelled \subseteq cancelled'
      PROVE  DeferredCloseCancels'
    BY <1>1 DEF DeferredCloseCancels
<1>2. CASE DeferClose
  <2>1. UNCHANGED <<worker, kind>> /\ cancelled \subseteq cancelled'
        /\ (slot = ops => ops \in cancelled')
      BY <1>2, ControlConstants DEF DeferClose, threads, TypeOK
  <2>2. ASSUME NEW n \in Op, kind[n] = "Migration", worker[n] = "run" PROVE n \in cancelled'
      BY <2>1, <2>2, LiveWorkerIsLast DEF SlotInv
  <2> QED BY <2>1, <2>2 DEF DeferredCloseCancels
<1>3. CASE StartMigration
  <2>1. /\ \A n \in Op : n # ops' => worker'[n] = worker[n] /\ kind'[n] = kind[n]
        /\ ops' = ops + 1
      BY <1>3, BeginsAfterGone DEF StartMigration, Enabled, Kind
  <2>2. /\ cancelled' = IF closeFlag THEN cancelled \cup {ops + 1} ELSE cancelled
        /\ closeFlag' = closeFlag
      BY <1>3 DEF StartMigration, PublishToken
  <2> QED BY <2>1, <2>2 DEF DeferredCloseCancels
<1>4. ASSUME NEW k \in Kind \ {"Migration"}, BeginOperation(k), ~busy,
             UNCHANGED <<closeFlag, cancelled>>
      PROVE  DeferredCloseCancels'
    BY <1>4, BeginsAfterGone DEF DeferredCloseCancels
<1>5. CASE Confirm
  <2>1. modal.kind \in Kind \ {"Migration"} /\ ~busy
      BY <1>5 DEF Confirm, TypeOK, Confirmation, ModalInv, Kind
  <2> QED BY <1>4, <1>5, <2>1 DEF Confirm
<1>6. CASE \E k \in {"Scan", "Export", "Repair"} : BeginDirectly(k)
    BY <1>4, <1>6 DEF BeginDirectly, Enabled, Kind
<1>7. CASE \/ \E s \in Profile : SelectProfile(s)
           \/ \E t \in Target \cup {None} : EditDraft(t)
           \/ \E k \in {"Repair", "TrustedInstaller"} : RequestConfirmation(k)
           \/ Validate \/ Dismiss \/ MigrationRefused \/ CancelMigration \/ CloseRequested
           \/ ApplyProgress \/ ApplyResult \/ \E n \in Op : ReportProgress(n)
    BY <1>1, <1>7 DEF SelectProfile, EditDraft, RequestConfirmation, Validate, Dismiss,
       MigrationRefused, CancelMigration, CloseRequested, ApplyProgress, ApplyResult,
       ReportProgress, state, threads
<1>8. ASSUME NEW n \in Op, Run(n) PROVE DeferredCloseCancels'
    BY <1>8 DEF Run, Finished, ClearSlot, StoreIdle, SwapFlag, PostResult, Goto, state, TypeOK,
       DeferredCloseCancels
<1> QED BY <1>2, <1>3, <1>5, <1>6, <1>7, <1>8 DEF Next, Operator, EventLoop

\* Whatever changes the form takes the validation with it.
LEMMA PreflightStep ==
    ASSUME TypeOK, PreflightIsCurrent, Next
    PROVE  PreflightIsCurrent'
<1>1. draft # None
    BY ControlConstants DEF TypeOK
<1>2. CASE Operator
    BY <1>1, <1>2 DEF Operator, SelectProfile, EditDraft, BeginDirectly, RequestConfirmation,
       Validate, Confirm, Dismiss, StartMigration, MigrationRefused, CancelMigration,
       CloseRequested, ResetDraft, state, window, PreflightIsCurrent
<1>3. CASE EventLoop
    BY <1>3 DEF EventLoop, DeferClose, ApplyProgress, ApplyResult, ResetDraft, state, window,
       PreflightIsCurrent
<1>4. ASSUME NEW n \in Op, ReportProgress(n) \/ Run(n) PROVE PreflightIsCurrent'
  <2>1. UNCHANGED <<token, valid, draft>>
      BY <1>4 DEF ReportProgress, Run, Finished, ClearSlot, StoreIdle, SwapFlag, PostResult,
         state, window
  <2> QED BY <2>1 DEF PreflightIsCurrent
<1> QED BY <1>2, <1>3, <1>4 DEF Next

\* The state after start-up satisfies the invariant.
LEMMA InitialInv == Init => ControlInv
<1> SUFFICES ASSUME Init PROVE ControlInv
    OBVIOUS
<1> USE ControlConstants DEF Init, Op
<1>1. TypeOK
  <2>1. loop \in Seq(Callback)
      OBVIOUS
  <2>2. draft \in Draft
      BY DEF Draft, EmptyDraft
  <2>3. kind \in [Op -> Kind \cup {None}]
      BY DEF Kind
  <2>4. /\ worker \in [Op -> {"new", "run", "clear", "idle", "swap", "post", "gone"}]
        /\ reports \in [Op -> 0 .. MaxProgress]
        /\ swapped \in [Op -> BOOLEAN] /\ scheduled \in [Op -> BOOLEAN]
        /\ pending \in [Op -> BOOLEAN]
      OBVIOUS
  <2>5. active \in Kind \cup {None} /\ ops \in 0 .. MaxOps /\ cancelled \subseteq Op
      BY DEF Kind
  <2> QED BY <2>1, <2>2, <2>3, <2>4, <2>5 DEF TypeOK
<1>2. OpsInv /\ ActiveInv /\ SlotInv /\ ModalInv
    BY DEF OpsInv, ActiveInv, SlotInv, ModalInv, Kind
<1>3. QueueInv
    BY DEF QueueInv, NoResult
<1>4. NoExitDuringOperation /\ DeferredCloseCancels /\ PreflightIsCurrent /\ ConfirmationIsCurrent
    BY DEF NoExitDuringOperation, DeferredCloseCancels, PreflightIsCurrent, ConfirmationIsCurrent
<1> QED BY <1>1, <1>2, <1>3, <1>4 DEF ControlInv

\* ControlInv is an invariant of the controller, its workers and its event loop.
THEOREM Invariance == Spec => []ControlInv
<1>1. Init => ControlInv
    BY InitialInv
<1>2. ControlInv /\ [Next]_vars => ControlInv'
  <2> SUFFICES ASSUME ControlInv, [Next]_vars PROVE ControlInv'
      OBVIOUS
  <2>1. CASE Next
      BY <2>1, TypeStep, OpsStep, QueueStep, SlotStep, ModalStep, NoExitStep,
         DeferredCloseStep, PreflightStep DEF ControlInv
  <2>2. CASE UNCHANGED vars
    <3> USE <2>2 DEF vars, state, threads, window
    <3>1. TypeOK'
        BY DEF ControlInv, TypeOK
    <3>2. OpsInv' /\ ActiveInv' /\ QueueInv' /\ SlotInv' /\ ModalInv'
        BY DEF ControlInv, OpsInv, ActiveInv, QueueInv, SlotInv, ModalInv
    <3>3. NoExitDuringOperation' /\ DeferredCloseCancels' /\ PreflightIsCurrent'
          /\ ConfirmationIsCurrent'
        BY DEF ControlInv, NoExitDuringOperation, DeferredCloseCancels, PreflightIsCurrent,
           ConfirmationIsCurrent
    <3> QED BY <3>1, <3>2, <3>3 DEF ControlInv
  <2> QED BY <2>1, <2>2
<1> QED BY <1>1, <1>2, PTL DEF Spec

\* The variables of the controller keep their types.
THEOREM TypeCorrectness == Spec => []TypeOK
<1>1. ControlInv => TypeOK
    BY DEF ControlInv
<1> QED BY <1>1, Invariance, PTL

\* handle_close_requested and a deferred close never end the process inside an operation.
THEOREM ExitWaits == Spec => []NoExitDuringOperation
<1>1. ControlInv => NoExitDuringOperation
    BY DEF ControlInv
<1> QED BY <1>1, Invariance, PTL

\* A close that waits for a migration has cancelled it, in every interleaving of the request
\* with start_migration and the worker's end.
THEOREM CloseCancels == Spec => []DeferredCloseCancels
<1>1. ControlInv => DeferredCloseCancels
    BY DEF ControlInv
<1> QED BY <1>1, Invariance, PTL

\* start_migration is offered only for the draft that was validated.
THEOREM PreflightCurrent == Spec => []PreflightIsCurrent
<1>1. ControlInv => PreflightIsCurrent
    BY DEF ControlInv
<1> QED BY <1>1, Invariance, PTL

\* The confirmation overlay names the profile the confirmed operation acts on.
THEOREM ConfirmationCurrent == Spec => []ConfirmationIsCurrent
<1>1. ControlInv => ConfirmationIsCurrent
    BY DEF ControlInv
<1> QED BY <1>1, Invariance, PTL

\* A registered operation keeps the window busy, and a busy window has exactly one result to
\* come: a worker that still has to post it, or a callback in the queue.
THEOREM BusyCovers == Spec => []BusyCoversOperation
<1>1. ControlInv => BusyCoversOperation
  <2> SUFFICES ASSUME ControlInv PROVE BusyCoversOperation
      OBVIOUS
  <2> DEFINE Live == {n \in Op : worker[n] \notin {"new", "gone"}}
             Due == {i \in 1 .. Len(loop) : loop[i].type = "result"}
  <2>1. TypeOK /\ OpsInv /\ ActiveInv /\ QueueInv
      BY DEF ControlInv
  <2>2. ops \in Op
      BY <2>1 DEF TypeOK, OpsInv, Op
  <2>3. active # None => busy
      BY <2>1 DEF ActiveInv
  <2>4. \A n \in Live : n = ops
      BY <2>1, LiveWorkerIsLast
  <2>5. ASSUME busy PROVE Cardinality(Live) + Cardinality(Due) = 1
    <3>1. CASE worker[ops] = "gone"
      <4>1. Live = {}
          BY <2>4, <3>1
      <4>2. PICK i \in 1 .. Len(loop) : /\ loop[i].type = "result"
                                        /\ \A j \in 1 .. Len(loop) : loop[j].type = "result" => j = i
          BY <2>1, <2>5, <3>1 DEF QueueInv, OneResult
      <4>3. Due = {i}
          BY <4>2
      <4>4. Cardinality(Live) = 0 /\ Cardinality(Due) = 1
          BY <4>1, <4>3, FS_EmptySet, FS_Singleton
      <4> QED BY <4>4
    <3>2. CASE worker[ops] # "gone"
      <4>1. Live = {ops}
          BY <2>1, <2>2, <2>4, <3>2 DEF OpsInv
      <4>2. Due = {}
          BY <2>1, <3>2 DEF QueueInv, NoResult
      <4>3. Cardinality(Live) = 1 /\ Cardinality(Due) = 0
          BY <4>1, <4>2, FS_EmptySet, FS_Singleton
      <4> QED BY <4>3
    <3> QED BY <3>1, <3>2
  <2> QED BY <2>3, <2>5 DEF BusyCoversOperation
<1> QED BY <1>1, Invariance, PTL
=============================================================================
