--------------------- MODULE MigrationTransactionProofs ---------------------
(***************************************************************************)
(* TLAPS proofs about MigrationTransaction, for any directory tree, any    *)
(* files and contents and any number of faults, foreign objects and        *)
(* changes.                                                                *)
(***************************************************************************)
EXTENDS MigrationTransaction, SequenceTheorems, FiniteSetTheorems, WellFoundedInduction, TLAPS

\* Before the target directory exists, while the copy may go on, and after it was given up.
Before == {"guard", "logStarted", "createTarget"}
Copying == {"warn", "work", "copy", "verify", "logSuccess"}
Undoing == {"rollback", "logRolledBack", "logRollbackFailed"}

\* The types of everything but the byte counters and the budget.
Types ==
    /\ src \in [Dir \cup File -> Source]
    /\ dst \in [Node -> Object \cup {Nothing}]
    /\ cancel \in BOOLEAN
    /\ pc \in Labels
    /\ todo \in Seq(Task)
    /\ created \in Seq(Node)
    /\ manifest \in Seq([file : File, data : Seq(Chunk)])
    /\ current \in File \cup {Target}
    /\ hashed \in Seq(Chunk)
    /\ failures \in BOOLEAN
    /\ trail \in Seq(Event)
    /\ result \in {"none", "ok", "error", "rollbackError"}
    /\ history \in [touched : SUBSET File, orphan : SUBSET Node, auditLost : BOOLEAN,
                    inTime : BOOLEAN]

Here(n) == dst[n] # Nothing

\* With these objects, the directory d is there or the plan ensures it before task i.
Ready(plan, objects, i, d) ==
    \/ objects[d] # Nothing
    \/ \E j \in 1 .. i - 1 : plan[j].do = "ensure" /\ plan[j].node = d

\* Whatever a task creates or lists has its directory by then.
TaskReady(plan, objects, i) ==
    /\ plan[i].do \in {"ensure", "entry"} =>
          \E d \in Dir \cup {Target} :
             plan[i].node \in Range(Children[d]) /\ Ready(plan, objects, i, d)
    /\ plan[i].do = "list" => Ready(plan, objects, i, plan[i].node)
    /\ plan[i].do = "root" => Rooted(plan[i].path)

PlanReady(plan, objects) == \A i \in 1 .. Len(plan) : TaskReady(plan, objects, i)

TodoInv == pc \in Before \cup Copying => PlanReady(todo, dst)

\* Nothing below the target is there without a directory that holds it.
ParentInv ==
    \A n \in Dir \cup File :
       Here(n) => \E d \in Dir \cup {Target} : n \in Range(Children[d]) /\ Here(d)

\* The created objects are ours, each once; ours are the created ones, the ones given up, and
\* what a failed rollback left.
CreatedInv ==
    /\ \A i \in DOMAIN created : /\ dst[created[i]].owner = "ours"
                                 /\ created[i] \notin history.orphan
    /\ \A i, j \in DOMAIN created : created[i] = created[j] => i = j
    /\ \A n \in Node :
          dst[n].owner = "ours" => n \in Range(created) \/ n \in history.orphan \/ failures

\* An object given up below the target keeps the target from being removed.
OrphanInv ==
    /\ \A n \in history.orphan : dst[n].owner = "ours"
    /\ history.orphan # {} => pc \in Undoing \cup {"ended"}
    /\ history.orphan \ {Target} # {} => Target \in Range(created) \/ failures

PhaseInv ==
    /\ pc = "ended" <=> result # "none"
    /\ pc \in Before => created = <<>> /\ manifest = <<>>
    /\ pc \in Copying => Target \in Range(created)
    /\ failures => pc \in {"rollback", "logRollbackFailed"} \/ result = "rollbackError"
    /\ pc \in {"logRolledBack", "logRollbackFailed"} => created = <<>>
    /\ pc = "logRollbackFailed" => failures
    /\ result = "error" => created = <<>>
    /\ pc \in {"copy", "verify"} => current \in File /\ dst[current].owner = "ours"

\* While the copy may go on and when it succeeded the manifest is true of the copies, and the
\* file being copied is not in it yet.
ManifestIsTrue ==
    \A i \in DOMAIN manifest :
       dst[manifest[i].file] = [owner |-> "ours", data |-> manifest[i].data]

ManifestInv ==
    /\ pc \in Copying \/ result = "ok" => ManifestIsTrue
    /\ pc \in {"copy", "verify"} => \A i \in DOMAIN manifest : manifest[i].file # current

JournalInv ==
    /\ pc \in {"guard", "logStarted"} => trail = <<>>
    /\ JournalTellsOutcome

CancelInv ==
    /\ history.inTime => cancel
    /\ pc = "logSuccess" \/ result = "ok" => ~history.inTime

MigrationInv ==
    /\ Types /\ TodoInv /\ ParentInv /\ CreatedInv /\ OrphanInv /\ PhaseInv /\ ManifestInv
    /\ JournalInv /\ CancelInv

-----------------------------------------------------------------------------
(* Types. *)

\* Facts about the constants that most steps use.
LEMMA Constants ==
    /\ Dir \cup File \subseteq Node /\ Target \in Node /\ Node = Dir \cup File \cup {Target}
    /\ Target \notin Dir /\ Target \notin File /\ Dir \cap File = {}
    /\ \A d \in Dir \cup {Target} : /\ Children[d] \in Seq(Dir \cup File)
                                    /\ Range(Children[d]) \subseteq Dir \cup File
<1>1. \A d \in Dir \cup {Target} : Children[d] \in Seq(Dir \cup File)
    BY MigrationConstants
<1>2. \A d \in Dir \cup {Target} : Range(Children[d]) \subseteq Dir \cup File
    BY <1>1 DEF Range
<1> QED BY <1>1, <1>2, MigrationConstants DEF Node

\* The range of a sequence that grew or shrank at its end.
LEMMA RangeAppend ==
    ASSUME NEW T, NEW s \in Seq(T), NEW x \in T
    PROVE  /\ Append(s, x) \in Seq(T) /\ Range(Append(s, x)) = Range(s) \cup {x}
           /\ \A i \in DOMAIN Append(s, x) :
                 \/ i \in DOMAIN s /\ Append(s, x)[i] = s[i]
                 \/ i = Len(s) + 1 /\ Append(s, x)[i] = x
<1>1. /\ Append(s, x) \in Seq(T) /\ DOMAIN Append(s, x) = 1 .. Len(s) + 1
      /\ DOMAIN s = 1 .. Len(s) /\ Len(s) \in Nat
      /\ \A i \in 1 .. Len(s) : Append(s, x)[i] = s[i]
      /\ Append(s, x)[Len(s) + 1] = x
    BY AppendProperties, LenProperties
<1>2. /\ \A i \in 1 .. Len(s) + 1 : i \in 1 .. Len(s) \/ i = Len(s) + 1
      /\ \A i \in 1 .. Len(s) : i \in 1 .. Len(s) + 1
      /\ Len(s) + 1 \in 1 .. Len(s) + 1
    BY <1>1
<1> QED BY <1>1, <1>2 DEF Range

\* An element of a sequence.
LEMMA Element == ASSUME NEW T, NEW s \in Seq(T), NEW i \in DOMAIN s PROVE s[i] \in T
BY ElementOfSeq, LenProperties

LEMMA RangeFront ==
    ASSUME NEW T, NEW s \in Seq(T), s # <<>>
    PROVE  /\ SubSeq(s, 1, Len(s) - 1) \in Seq(T)
           /\ Len(s) \in DOMAIN s /\ s[Len(s)] \in T
           /\ \A i \in DOMAIN SubSeq(s, 1, Len(s) - 1) :
                 i \in DOMAIN s /\ i # Len(s) /\ SubSeq(s, 1, Len(s) - 1)[i] = s[i]
           /\ \A i \in DOMAIN s :
                 i = Len(s) \/ (i \in DOMAIN SubSeq(s, 1, Len(s) - 1)
                                /\ SubSeq(s, 1, Len(s) - 1)[i] = s[i])
<1>1. Len(s) \in Nat /\ Len(s) > 0 /\ DOMAIN s = 1 .. Len(s) /\ \A i \in 1 .. Len(s) : s[i] \in T
    BY EmptySeq, LenProperties, ElementOfSeq
<1>2. /\ SubSeq(s, 1, Len(s) - 1) \in Seq(T)
      /\ DOMAIN SubSeq(s, 1, Len(s) - 1) = 1 .. Len(s) - 1
      /\ \A i \in 1 .. Len(s) - 1 : SubSeq(s, 1, Len(s) - 1)[i] = s[i]
    BY <1>1
<1> QED BY <1>1, <1>2

\* The first task and the others.
LEMMA HeadTask ==
    ASSUME Types, todo # <<>>
    PROVE  /\ Head(todo) \in Task /\ Tail(todo) \in Seq(Task) /\ Head(todo) = todo[1]
           /\ 1 \in DOMAIN todo
           /\ Head(todo).do = "root" => Head(todo).path \in Seq(Dir)
           /\ Head(todo).do \in {"ensure", "list"} => Head(todo).node \in Dir
           /\ Head(todo).do = "entry" => Head(todo).node \in Dir \cup File
<1>1. todo \in Seq(Task)
    BY DEF Types
<1>2. Head(todo) \in Task /\ Tail(todo) \in Seq(Task) /\ Head(todo) = todo[1] /\ 1 \in DOMAIN todo
    BY <1>1, HeadTailProperties, EmptySeq, LenProperties
<1>3. /\ Head(todo).do = "root" => Head(todo).path \in Seq(Dir)
      /\ Head(todo).do \in {"ensure", "list"} => Head(todo).node \in Dir
      /\ Head(todo).do = "entry" => Head(todo).node \in Dir \cup File
    BY <1>2 DEF Task
<1> QED BY <1>2, <1>3

\* Creating, and failing to create, an object.
LEMMA CreateType ==
    ASSUME Types, NEW n \in Node, Create(n)
    PROVE  dst' \in [Node -> Object \cup {Nothing}] /\ created' \in Seq(Node)
<1>1. [owner |-> "ours", data |-> <<>>] \in Object
    BY EmptySeq DEF Object
<1> QED BY <1>1, RangeAppend DEF Create, Types

LEMMA CreateFailsType ==
    ASSUME Types, NEW n \in Node, CreateFails(n)
    PROVE  /\ dst' \in [Node -> Object \cup {Nothing}] /\ pc' = "rollback"
           /\ history' \in [touched : SUBSET File, orphan : SUBSET Node, auditLost : BOOLEAN,
                            inTime : BOOLEAN]
<1>1. [owner |-> "ours", data |-> <<>>] \in Object
    BY EmptySeq DEF Object
<1>2. dst' \in [Node -> Object \cup {Nothing}] /\ pc' = "rollback"
    BY <1>1 DEF CreateFails, Fail, Types
<1>3. history' \in [touched : SUBSET File, orphan : SUBSET Node, auditLost : BOOLEAN,
                    inTime : BOOLEAN]
  <2>1. CASE history' = history
      BY <2>1 DEF Types
  <2>2. CASE history' = [history EXCEPT !.orphan = @ \cup {n}]
    <3>1. history.orphan \cup {n} \in SUBSET Node
        BY DEF Types
    <3> QED BY <2>2, <3>1 DEF Types
  <2> QED BY <2>1, <2>2 DEF CreateFails
<1> QED BY <1>2, <1>3

\* A journal write, or a failed one.
LEMMA LogType ==
    ASSUME Types, NEW e \in Event, Log(e) \/ LogFails(e) \/ UNCHANGED trail
    PROVE  trail' \in Seq(Event)
<1>1. trail \in Seq(Event) /\ Append(trail, e) \in Seq(Event)
    BY RangeAppend DEF Types
<1> QED BY <1>1 DEF Log, LogFails

LEMMA LogFailsHistory ==
    ASSUME Types, NEW e, LogFails(e)
    PROVE  /\ history' \in [touched : SUBSET File, orphan : SUBSET Node, auditLost : BOOLEAN,
                            inTime : BOOLEAN]
           /\ history'.orphan = history.orphan /\ history'.inTime = history.inTime
           /\ history'.auditLost
BY DEF Types, LogFails

\* A list of tasks in front of the remaining ones.
LEMMA RestType ==
    ASSUME Types, todo # <<>>, NEW tasks \in Seq(Task), Rest(tasks)
    PROVE  todo' \in Seq(Task)
<1>1. Tail(todo) \in Seq(Task)
    BY HeadTask
<1> QED BY <1>1, ConcatProperties DEF Rest

\* A function on an interval from 1 is a sequence.
LEMMA FunctionSeq == ASSUME NEW T, NEW n \in Nat, NEW f \in [1 .. n -> T] PROVE f \in Seq(T)
OBVIOUS

\* The two parts of what an opened root pushes.
LEMMA PushParts ==
    ASSUME NEW path \in Seq(Dir), path # <<>>
    PROVE  /\ [i \in DOMAIN path |-> [do |-> "ensure", node |-> path[i]]] \in Seq(Task)
           /\ <<[do |-> "list", node |-> path[Len(path)]]>> \in Seq(Task)
<1>1. \A d \in Dir : [do |-> "ensure", node |-> d] \in Task /\ [do |-> "list", node |-> d] \in Task
    BY DEF Task
<1>2. \A x \in Task : <<x>> \in Seq(Task)
    OBVIOUS
<1>3. /\ DOMAIN path = 1 .. Len(path) /\ Len(path) \in Nat /\ Len(path) \in DOMAIN path
      /\ \A i \in DOMAIN path : path[i] \in Dir
    BY LenProperties, EmptySeq, ElementOfSeq
<1>4. [i \in DOMAIN path |-> [do |-> "ensure", node |-> path[i]]] \in Seq(Task)
  <2>1. \A i \in DOMAIN path : [do |-> "ensure", node |-> path[i]] \in Task
      BY <1>1, <1>3, Zenon
  <2>2. [i \in DOMAIN path |-> [do |-> "ensure", node |-> path[i]]] \in [1 .. Len(path) -> Task]
      BY <1>3, <2>1, Zenon
  <2> QED BY <1>3, <2>2, FunctionSeq
<1>5. [do |-> "list", node |-> path[Len(path)]] \in Task
    BY <1>1, <1>3, Zenon
<1> QED BY <1>2, <1>4, <1>5, Zenon

\* The tasks that the steps of the copy push.
LEMMA PushedTasks ==
    /\ <<>> \in Seq(Task)
    /\ \A d \in Dir : <<[do |-> "ensure", node |-> d], [do |-> "list", node |-> d]>> \in Seq(Task)
    /\ \A path \in Seq(Dir) : path # <<>> =>
          [i \in DOMAIN path |-> [do |-> "ensure", node |-> path[i]]]
             \o <<[do |-> "list", node |-> path[Len(path)]]>> \in Seq(Task)
    /\ \A entries \in Seq(Dir \cup File) : AsTasks(entries) \in Seq(Task)
<1>1. <<>> \in Seq(Task)
    BY EmptySeq
<1>2. \A d \in Dir : [do |-> "ensure", node |-> d] \in Task /\ [do |-> "list", node |-> d] \in Task
    BY DEF Task
<1>a. \A x, y \in Task : <<x, y>> \in Seq(Task)
    OBVIOUS
<1>3. \A d \in Dir : <<[do |-> "ensure", node |-> d], [do |-> "list", node |-> d]>> \in Seq(Task)
    BY <1>2, <1>a, Zenon
<1>4. ASSUME NEW path \in Seq(Dir), path # <<>>
      PROVE  [i \in DOMAIN path |-> [do |-> "ensure", node |-> path[i]]]
                \o <<[do |-> "list", node |-> path[Len(path)]]>> \in Seq(Task)
    BY <1>4, PushParts, ConcatProperties
<1>5. ASSUME NEW entries \in Seq(Dir \cup File) PROVE AsTasks(entries) \in Seq(Task)
  <2>1. /\ DOMAIN entries = 1 .. Len(entries) /\ Len(entries) \in Nat
        /\ \A i \in DOMAIN entries : entries[i] \in Dir \cup File
      BY LenProperties, ElementOfSeq
  <2>2. \A n \in Dir \cup File : [do |-> "entry", node |-> n] \in Task
      BY DEF Task
  <2>3. AsTasks(entries) \in [1 .. Len(entries) -> Task]
      BY <2>1, <2>2 DEF AsTasks
  <2> QED BY <2>1, <2>3, FunctionSeq
<1> QED BY <1>1, <1>3, <1>4, <1>5

\* A listing is a sequence of children.
LEMMA Listing ==
    ASSUME Types, NEW d \in Dir, NEW entries \in SetToSeqs(Entries(d))
    PROVE  /\ entries \in Seq(Dir \cup File) /\ Range(entries) \subseteq Range(Children[d])
           /\ IsFiniteSet(Entries(d))
<1>1. entries \in [1 .. Cardinality(Entries(d)) -> Entries(d)]
    BY DEF SetToSeqs
<1>2. Entries(d) \subseteq Range(Children[d]) /\ Range(Children[d]) \subseteq Dir \cup File
    BY Constants DEF Entries
<1>3. DOMAIN entries = 1 .. Cardinality(Entries(d)) /\ \A i \in DOMAIN entries : entries[i] \in Dir \cup File
    BY <1>1, <1>2
<1>4. IsFiniteSet(Entries(d))
  <2>1. Children[d] \in Seq(Dir \cup File)
      BY Constants
  <2>2. IsFiniteSet(DOMAIN Children[d])
      BY <2>1, FS_Interval, LenProperties
  <2>3. IsFiniteSet(Range(Children[d]))
    <3>1. Children[d] \in [DOMAIN Children[d] -> Range(Children[d])]
        BY <2>1 DEF Range
    <3>2. Children[d] \in Surjection(DOMAIN Children[d], Range(Children[d]))
        BY <3>1 DEF Surjection, Range
    <3> QED BY <2>2, <3>2, FS_Surjection
  <2> QED BY <1>2, <2>3, FS_Subset
<1>5. Cardinality(Entries(d)) \in Nat
    BY <1>4, FS_CardinalityType
<1> QED BY <1>1, <1>2, <1>3, <1>4, <1>5, FunctionSeq DEF Range

-----------------------------------------------------------------------------
(* Steps that create, remove and plan nothing. *)

\* The objects and what the transaction knows of them stay.
LEMMA SameObjects ==
    ASSUME ParentInv, CreatedInv, UNCHANGED <<dst, created, failures>>,
           history'.orphan = history.orphan
    PROVE  ParentInv' /\ CreatedInv'
BY DEF ParentInv, CreatedInv, Here

\* A plan stays ready when objects appear.
LEMMA PlanGrows ==
    ASSUME NEW plan \in Seq(Task), NEW old, NEW new, PlanReady(plan, old),
           \A n \in Node : old[n] # Nothing => new[n] # Nothing
    PROVE  PlanReady(plan, new)
<1>1. SUFFICES ASSUME NEW i \in 1 .. Len(plan) PROVE TaskReady(plan, new, i)
    BY DEF PlanReady
<1>2. TaskReady(plan, old, i) /\ plan[i] \in Task
    BY ElementOfSeq DEF PlanReady
<1>3. \A d \in Dir \cup {Target} : Ready(plan, old, i, d) => Ready(plan, new, i, d)
    BY Constants DEF Ready
<1>4. plan[i].do = "list" => plan[i].node \in Dir
    BY <1>2 DEF Task
<1> QED BY <1>2, <1>3, <1>4 DEF TaskReady

\* The plan stays and nothing disappears.
LEMMA SameTodo ==
    ASSUME Types, TodoInv, todo' = todo, \A n \in Node : Here(n) => Here(n)',
           pc' \in Before \cup Copying => pc \in Before \cup Copying
    PROVE  TodoInv'
<1>1. \A n \in Node : dst[n] # Nothing => dst'[n] # Nothing
    BY DEF Here
<1>2. PlanReady(todo, dst) => PlanReady(todo, dst')
    BY <1>1, PlanGrows DEF Types
<1> QED BY <1>2 DEF TodoInv

\* A step that only moves on, returns or gives up.
LEMMA MoveInv ==
    ASSUME MigrationInv,
           UNCHANGED <<src, dst, cancel, todo, created, manifest, current, hashed, failures, trail,
                       history>>,
           \/ pc = "guard" /\ pc' = "logStarted" /\ UNCHANGED result
           \/ pc = "guard" /\ pc' = "ended" /\ result' = "error"
           \/ pc \in {"copy", "verify"} /\ pc' = "verify" /\ UNCHANGED result
           \/ pc = "work" /\ pc' = "logSuccess" /\ ~cancel /\ UNCHANGED result
           \/ pc = "rollback" /\ created = <<>> /\ UNCHANGED result
              /\ pc' = IF failures THEN "logRollbackFailed" ELSE "logRolledBack"
           \/ pc \in Copying \cup {"createTarget"} /\ pc' = "rollback" /\ UNCHANGED result
    PROVE  MigrationInv'
<1> USE DEF MigrationInv
<1>1. Types'
    BY DEF Types, Labels
<1>2. ParentInv' /\ CreatedInv'
    BY SameObjects
<1>3. TodoInv'
  <2>1. pc' \in Before \cup Copying => pc \in Before \cup Copying
      BY DEF Before, Copying
  <2> QED BY <2>1, SameTodo DEF Here
<1>4. OrphanInv'
  <2>1. pc \in Undoing \cup {"ended"} => pc' \in Undoing \cup {"ended"}
      BY DEF Undoing, Copying
  <2> QED BY <2>1 DEF OrphanInv
<1>5. PhaseInv'
    BY DEF PhaseInv, Before, Copying, Types
<1>6. ManifestInv'
    BY DEF ManifestInv, ManifestIsTrue, Copying
<1>7. JournalInv'
    BY DEF JournalInv, JournalTellsOutcome, PhaseInv, Copying
<1>8. CancelInv'
    BY DEF CancelInv, Copying
<1> QED BY <1>1, <1>2, <1>3, <1>4, <1>5, <1>6, <1>7, <1>8

\* The last event after one more is that event.
LEMMA LastLogged ==
    ASSUME Types, NEW e \in Event, Log(e)
    PROVE  trail' # <<>> /\ trail'[Len(trail')] = e
<1>1. trail' = Append(trail, e) /\ trail \in Seq(Event)
    BY DEF Log, Types
<1> QED BY <1>1, AppendProperties

\* A step that logs.
LEMMA LogInv ==
    ASSUME MigrationInv,
           UNCHANGED <<src, dst, cancel, todo, created, manifest, current, hashed, failures>>,
           LogStarted \/ Warn \/ LogSuccess \/ LogRollback
    PROVE  MigrationInv'
<1> USE DEF MigrationInv
<1>1. /\ history' \in [touched : SUBSET File, orphan : SUBSET Node, auditLost : BOOLEAN,
                       inTime : BOOLEAN]
      /\ history'.orphan = history.orphan /\ history'.inTime = history.inTime
    BY LogFailsHistory DEF LogStarted, Warn, LogSuccess, LogRollback, Types
<1>2. trail' \in Seq(Event)
  <2>1. CASE LogStarted
      BY <2>1, LogType DEF LogStarted, Event
  <2>2. CASE Warn
      BY <2>2, LogType DEF Warn, Event
  <2>3. CASE LogSuccess
      BY <2>3, LogType DEF LogSuccess, Event
  <2>4. CASE LogRollback
      BY <2>4, LogType DEF LogRollback, Event
  <2> QED BY <2>1, <2>2, <2>3, <2>4
<1>3. \/ pc = "logStarted" /\ pc' = "createTarget" /\ result' = result
      \/ pc = "logStarted" /\ pc' = "ended" /\ result' = "error" /\ history'.auditLost
      \/ pc = "warn" /\ pc' \in {"work", "rollback"} /\ result' = result
      \/ pc = "logSuccess" /\ pc' = "ended" /\ result' = "ok" /\ Log("MigrationSuccess")
      \/ pc = "logSuccess" /\ pc' = "rollback" /\ result' = result
      \/ /\ pc \in {"logRolledBack", "logRollbackFailed"} /\ pc' = "ended"
         /\ result' = (IF failures THEN "rollbackError" ELSE "error")
         /\ \/ history'.auditLost
            \/ Log(IF failures THEN "MigrationRollbackFailed" ELSE "MigrationRolledBack")
    BY LogFailsHistory DEF LogStarted, Warn, LogSuccess, LogRollback, Return, Fail
<1>4. Types'
    BY <1>1, <1>2, <1>3 DEF Types, Labels
<1>5. ParentInv' /\ CreatedInv'
    BY <1>1, SameObjects
<1>6. TodoInv'
  <2>1. pc' \in Before \cup Copying => pc \in Before \cup Copying
      BY <1>3 DEF Before, Copying
  <2> QED BY <2>1, SameTodo DEF Here
<1>7. OrphanInv'
  <2>1. pc \in Undoing \cup {"ended"} => pc' \in Undoing \cup {"ended"}
      BY <1>3 DEF Undoing
  <2> QED BY <1>1, <2>1 DEF OrphanInv
<1>8. PhaseInv'
    BY <1>3 DEF PhaseInv, Before, Copying, Types
<1>9. ManifestInv'
    BY <1>3 DEF ManifestInv, ManifestIsTrue, Copying
<1>10. JournalInv'
  <2>1. pc' \notin {"guard", "logStarted"}
      BY <1>3
  <2>2. pc' # "ended" => result' = "none"
      BY <1>3 DEF PhaseInv
  <2>3. JournalTellsOutcome'
    <3>1. CASE result' = "none"
        BY <3>1 DEF JournalTellsOutcome
    <3>2. CASE history'.auditLost
        BY <3>2 DEF JournalTellsOutcome
    <3>3. CASE result' = "ok" /\ Log("MigrationSuccess")
        BY <3>3, LastLogged DEF JournalTellsOutcome, Outcome, Event
    <3>4. CASE /\ result' = (IF failures THEN "rollbackError" ELSE "error")
               /\ Log(IF failures THEN "MigrationRollbackFailed" ELSE "MigrationRolledBack")
        BY <3>4, LastLogged DEF JournalTellsOutcome, Outcome, Event
    <3> QED BY <1>3, <2>2, <3>1, <3>2, <3>3, <3>4
  <2> QED BY <2>1, <2>3 DEF JournalInv
<1>11. CancelInv'
    BY <1>1, <1>3 DEF CancelInv, PhaseInv
<1> QED BY <1>4, <1>5, <1>6, <1>7, <1>8, <1>9, <1>10, <1>11

-----------------------------------------------------------------------------
(* Steps that plan. *)

\* Tasks that are ready may be put in front of the plan in place of its first one, when what that
\* one ensures is there.
LEMMA PushPlan ==
    ASSUME NEW plan \in Seq(Task), plan # <<>>, NEW old, NEW new, PlanReady(plan, old),
           \A n \in Node : old[n] # Nothing => new[n] # Nothing,
           plan[1].do = "ensure" => new[plan[1].node] # Nothing,
           NEW tasks \in Seq(Task), PlanReady(tasks, new)
    PROVE  PlanReady(tasks \o Tail(plan), new)
<1> DEFINE n == Len(tasks)
           next == tasks \o Tail(plan)
<1>1. /\ Len(plan) \in Nat /\ Len(plan) >= 1 /\ Tail(plan) \in Seq(Task)
      /\ Len(Tail(plan)) = Len(plan) - 1
      /\ \A k \in 1 .. Len(plan) - 1 : Tail(plan)[k] = plan[k + 1]
    BY HeadTailProperties, LenProperties, EmptySeq
<1>2. /\ n \in Nat /\ Len(next) = n + (Len(plan) - 1)
      /\ \A i \in 1 .. n + (Len(plan) - 1) :
            next[i] = IF i <= n THEN tasks[i] ELSE Tail(plan)[i - n]
    BY <1>1, ConcatProperties, LenProperties
<1>3. \A i \in 1 .. n : next[i] = tasks[i]
    BY <1>1, <1>2
<1>4. ASSUME NEW k \in 2 .. Len(plan) PROVE next[n + k - 1] = plan[k]
  <2>1. /\ n + k - 1 \in 1 .. n + (Len(plan) - 1) /\ ~(n + k - 1 <= n)
        /\ (n + k - 1) - n = k - 1 /\ k - 1 \in 1 .. Len(plan) - 1 /\ (k - 1) + 1 = k
      BY <1>1, <1>2
  <2>2. next[n + k - 1] = Tail(plan)[k - 1]
      BY <1>2, <2>1
  <2>3. Tail(plan)[k - 1] = plan[(k - 1) + 1]
      BY <1>1, <2>1
  <2> QED BY <2>1, <2>2, <2>3
<1> HIDE DEF n, next
<1>5. ASSUME NEW i \in 1 .. n PROVE TaskReady(next, new, i)
  <2>1. TaskReady(tasks, new, i)
      BY DEF PlanReady, n
  <2>2. \A d : Ready(tasks, new, i, d) => Ready(next, new, i, d)
    <3>1. \A j \in 1 .. i - 1 : next[j] = tasks[j]
        BY <1>2, <1>3
    <3> QED BY <3>1 DEF Ready
  <2> QED BY <1>3, <2>1, <2>2 DEF TaskReady
<1>6. ASSUME NEW k \in 2 .. Len(plan) PROVE TaskReady(next, new, n + k - 1)
  <2>1. TaskReady(plan, old, k) /\ plan[k] \in Task /\ next[n + k - 1] = plan[k]
    <3>1. k \in 1 .. Len(plan)
        BY <1>1
    <3> QED BY <1>4, <3>1, ElementOfSeq DEF PlanReady
  <2>2. ASSUME NEW d \in Dir \cup {Target}, Ready(plan, old, k, d)
        PROVE  Ready(next, new, n + k - 1, d)
    <3>1. CASE old[d] # Nothing
        BY <3>1, Constants DEF Ready
    <3>2. ASSUME NEW j \in 1 .. k - 1, plan[j].do = "ensure", plan[j].node = d
          PROVE  Ready(next, new, n + k - 1, d)
      <4>1. CASE j = 1
          BY <3>2, <4>1 DEF Ready
      <4>2. CASE j # 1
        <5>1. j \in 2 .. Len(plan) /\ n + j - 1 \in 1 .. (n + k - 1) - 1
            BY <1>1, <1>2, <4>2
        <5>2. next[n + j - 1] = plan[j]
            BY <1>4, <5>1
        <5> QED BY <3>2, <5>1, <5>2 DEF Ready
      <4> QED BY <4>1, <4>2
    <3> QED BY <2>2, <3>1, <3>2 DEF Ready
  <2>3. plan[k].do = "list" => plan[k].node \in Dir
      BY <2>1 DEF Task
  <2> QED BY <2>1, <2>2, <2>3 DEF TaskReady
<1>7. ASSUME NEW i \in 1 .. Len(next) PROVE TaskReady(next, new, i)
  <2>1. CASE i \in 1 .. n
      BY <1>5, <2>1
  <2>2. CASE i \notin 1 .. n
    <3>1. i - n + 1 \in 2 .. Len(plan) /\ n + (i - n + 1) - 1 = i
        BY <1>1, <1>2, <2>2
    <3>2. TaskReady(next, new, n + (i - n + 1) - 1)
        BY <1>6, <3>1
    <3> QED BY <3>1, <3>2
  <2> QED BY <2>1, <2>2
<1> QED BY <1>7 DEF PlanReady, next

\* Nothing is ready at once.
LEMMA NoPlan == ASSUME NEW objects PROVE PlanReady(<<>>, objects)
<1>1. 1 .. Len(<<>>) = {}
    OBVIOUS
<1> QED BY <1>1 DEF PlanReady

\* A migration root that is there is ensured from the target down and listed.
LEMMA RootPlan ==
    ASSUME NEW path \in Seq(Dir), Rooted(path), NEW objects, objects[Target] # Nothing
    PROVE  PlanReady([i \in DOMAIN path |-> [do |-> "ensure", node |-> path[i]]]
                        \o <<[do |-> "list", node |-> path[Len(path)]]>>, objects)
<1> DEFINE ensures == [i \in DOMAIN path |-> [do |-> "ensure", node |-> path[i]]]
           lists == <<[do |-> "list", node |-> path[Len(path)]]>>
           plan == ensures \o lists
           m == Len(path)
<1>1. /\ m \in Nat /\ m >= 1 /\ DOMAIN path = 1 .. m /\ \A i \in 1 .. m : path[i] \in Dir
    BY LenProperties, EmptySeq, ElementOfSeq DEF Rooted
<1>2. ensures \in Seq(Task) /\ lists \in Seq(Task)
    BY PushParts DEF Rooted
<1>3. Len(ensures) = m /\ Len(lists) = 1
    BY <1>1, <1>2, LenProperties
<1>4. /\ Len(plan) = m + 1
      /\ \A i \in 1 .. m + 1 : plan[i] = IF i <= m THEN ensures[i] ELSE lists[i - m]
    BY <1>2, <1>3, ConcatProperties
<1>5. /\ \A i \in 1 .. m : i \in 1 .. m + 1 /\ i <= m
      /\ m + 1 \in 1 .. m + 1 /\ ~(m + 1 <= m) /\ m + 1 - m = 1
    BY <1>1
<1>6. /\ \A i \in 1 .. m : ensures[i] = [do |-> "ensure", node |-> path[i]]
      /\ lists[1] = [do |-> "list", node |-> path[m]]
    BY <1>1
<1>7. /\ \A i \in 1 .. m : plan[i] = [do |-> "ensure", node |-> path[i]]
      /\ plan[m + 1] = [do |-> "list", node |-> path[m]]
    BY <1>4, <1>5, <1>6
<1> HIDE DEF ensures, lists, plan, m
<1>8. /\ \A i \in 1 .. m : plan[i].do = "ensure" /\ plan[i].node = path[i]
      /\ plan[m + 1].do = "list" /\ plan[m + 1].node = path[m]
  <2>1. ASSUME NEW i \in 1 .. m PROVE plan[i].do = "ensure" /\ plan[i].node = path[i]
    <3>1. plan[i] = [do |-> "ensure", node |-> path[i]]
        BY <1>7
    <3> QED BY <3>1
  <2>2. plan[m + 1].do = "list" /\ plan[m + 1].node = path[m]
      BY <1>7
  <2> QED BY <2>1, <2>2
<1>9. ASSUME NEW i \in 1 .. m PROVE TaskReady(plan, objects, i)
  <2>1. CASE i = 1
    <3>1. plan[1].do = "ensure" /\ plan[1].node \in Range(Children[Target])
        BY <1>1, <1>8, <2>1 DEF Rooted
    <3> QED BY <2>1, <3>1 DEF TaskReady, Ready
  <2>2. CASE i # 1
    <3>1. i - 1 \in 1 .. m - 1 /\ i - 1 \in 1 .. m /\ (i - 1) + 1 = i
        BY <1>1, <2>2
    <3>2. path[i] \in Range(Children[path[i - 1]]) /\ path[i - 1] \in Dir
        BY <1>1, <3>1 DEF Rooted, m
    <3>3. Ready(plan, objects, i, path[i - 1])
        BY <1>8, <3>1 DEF Ready
    <3> QED BY <1>8, <3>2, <3>3 DEF TaskReady
  <2> QED BY <2>1, <2>2
<1>10. TaskReady(plan, objects, m + 1)
  <2>1. Ready(plan, objects, m + 1, path[m])
      BY <1>1, <1>8 DEF Ready
  <2> QED BY <1>8, <2>1 DEF TaskReady
<1>11. \A i \in 1 .. Len(plan) : i \in 1 .. m \/ i = m + 1
    BY <1>1, <1>4
<1>12. PlanReady(plan, objects)
    BY <1>9, <1>10, <1>11 DEF PlanReady
<1> QED BY <1>12 DEF plan, ensures, lists, m

\* The entries of a directory that is there are ready.
LEMMA EntriesPlan ==
    ASSUME NEW d \in Dir, NEW objects, objects[d] # Nothing, NEW entries \in Seq(Dir \cup File),
           Range(entries) \subseteq Range(Children[d])
    PROVE  PlanReady(AsTasks(entries), objects)
<1>1. AsTasks(entries) \in Seq(Task)
    BY PushedTasks
<1>2. 1 .. Len(AsTasks(entries)) = DOMAIN entries
    BY <1>1, LenProperties DEF AsTasks
<1>3. \A i \in DOMAIN entries : AsTasks(entries)[i] = [do |-> "entry", node |-> entries[i]]
    BY DEF AsTasks
<1>4. \A i \in DOMAIN entries : AsTasks(entries)[i].do = "entry"
                                /\ AsTasks(entries)[i].node \in Range(Children[d])
  <2>1. \A i \in DOMAIN entries : entries[i] \in Range(Children[d])
      BY DEF Range
  <2>2. ASSUME NEW i \in DOMAIN entries
        PROVE  AsTasks(entries)[i].do = "entry" /\ AsTasks(entries)[i].node = entries[i]
    <3>1. AsTasks(entries)[i] = [do |-> "entry", node |-> entries[i]]
        BY <1>3
    <3> QED BY <3>1
  <2> QED BY <2>1, <2>2
<1>5. \A i \in DOMAIN entries : TaskReady(AsTasks(entries), objects, i)
    BY <1>4 DEF TaskReady, Ready
<1> QED BY <1>2, <1>5 DEF PlanReady

\* A directory is ensured and then listed.
LEMMA EnterPlan ==
    ASSUME NEW n \in Dir, NEW d \in Dir \cup {Target}, n \in Range(Children[d]), NEW objects,
           objects[d] # Nothing
    PROVE  PlanReady(<<[do |-> "ensure", node |-> n], [do |-> "list", node |-> n]>>, objects)
<1> DEFINE plan == <<[do |-> "ensure", node |-> n], [do |-> "list", node |-> n]>>
<1>1. /\ plan[1].do = "ensure" /\ plan[1].node = n /\ plan[2].do = "list" /\ plan[2].node = n
      /\ \A i \in 1 .. Len(plan) : i = 1 \/ i = 2
    OBVIOUS
<1> HIDE DEF plan
<1>2. TaskReady(plan, objects, 1)
    BY <1>1 DEF TaskReady, Ready
<1>3. TaskReady(plan, objects, 2)
  <2>1. Ready(plan, objects, 2, n)
      BY <1>1 DEF Ready
  <2> QED BY <1>1, <2>1 DEF TaskReady
<1>4. PlanReady(plan, objects)
    BY <1>1, <1>2, <1>3 DEF PlanReady
<1> QED BY <1>4 DEF plan

-----------------------------------------------------------------------------
(* Steps that plan. *)

\* A step that replaces the first task and does nothing else.
LEMMA PlanInv ==
    ASSUME MigrationInv, pc = "work", todo # <<>>, Head(todo).do # "ensure",
           UNCHANGED <<src, dst, cancel, pc, created, manifest, current, hashed, failures, trail,
                       result, history>>,
           NEW tasks \in Seq(Task), Rest(tasks), PlanReady(tasks, dst)
    PROVE  MigrationInv'
<1> USE DEF MigrationInv
<1>1. Types'
    BY RestType DEF Types
<1>2. TodoInv'
  <2>1. todo \in Seq(Task) /\ PlanReady(todo, dst) /\ todo[1].do # "ensure"
      BY HeadTask DEF Types, TodoInv, Copying
  <2>2. PlanReady(tasks \o Tail(todo), dst)
      BY <2>1, PushPlan
  <2> QED BY <2>2 DEF TodoInv, Rest
<1>3. ParentInv' /\ CreatedInv' /\ OrphanInv'
    BY SameObjects DEF OrphanInv
<1>4. PhaseInv' /\ ManifestInv'
    BY DEF PhaseInv, ManifestInv, ManifestIsTrue
<1>5. JournalInv' /\ CancelInv'
    BY DEF JournalInv, JournalTellsOutcome, CancelInv
<1> QED BY <1>1, <1>2, <1>3, <1>4, <1>5

\* The first task of a running copy is ready.
LEMMA FirstTask ==
    ASSUME MigrationInv, pc = "work", todo # <<>>
    PROVE  /\ Head(todo).do \in {"ensure", "entry"} =>
                 \E d \in Dir \cup {Target} : Head(todo).node \in Range(Children[d]) /\ Here(d)
           /\ Head(todo).do = "list" => Here(Head(todo).node)
           /\ Head(todo).do = "root" => Rooted(Head(todo).path)
<1>1. Head(todo) = todo[1] /\ 1 \in 1 .. Len(todo)
    BY HeadTask, LenProperties DEF MigrationInv, Types
<1>2. TaskReady(todo, dst, 1)
    BY <1>1 DEF MigrationInv, TodoInv, PlanReady, Copying
<1>3. \A d : Ready(todo, dst, 1, d) => Here(d)
    BY DEF Ready, Here
<1> QED BY <1>1, <1>2, <1>3 DEF TaskReady

LEMMA OpenRootInv == ASSUME MigrationInv, OpenRoot PROVE MigrationInv'
<1>1. /\ pc = "work" /\ todo # <<>> /\ Head(todo).do = "root"
      /\ UNCHANGED <<src, dst, cancel, pc, created, manifest, current, hashed, failures, trail,
                     result, history>>
    BY DEF OpenRoot, Working, transaction, file
<1>2. PICK path : path = Head(todo).path
    OBVIOUS
<1>3. \/ Rest(<<>>)
      \/ Rest([i \in DOMAIN path |-> [do |-> "ensure", node |-> path[i]]]
                 \o <<[do |-> "list", node |-> path[Len(path)]]>>)
    BY <1>2 DEF OpenRoot
<1>4. path \in Seq(Dir) /\ Rooted(path)
    BY <1>1, <1>2, HeadTask, FirstTask DEF MigrationInv
<1>5. CASE Rest(<<>>)
    BY <1>1, <1>5, PushedTasks, NoPlan, PlanInv
<1>6. CASE Rest([i \in DOMAIN path |-> [do |-> "ensure", node |-> path[i]]]
                   \o <<[do |-> "list", node |-> path[Len(path)]]>>)
  <2>1. dst[Target] # Nothing
      BY <1>1 DEF MigrationInv, PhaseInv, CreatedInv, Copying, Range, Nothing
  <2>2. [i \in DOMAIN path |-> [do |-> "ensure", node |-> path[i]]]
           \o <<[do |-> "list", node |-> path[Len(path)]]>> \in Seq(Task)
      BY <1>4, PushedTasks DEF Rooted
  <2> QED BY <1>1, <1>4, <1>6, <2>1, <2>2, RootPlan, PlanInv
<1> QED BY <1>3, <1>5, <1>6

LEMMA ListInv == ASSUME MigrationInv, ListDirectory PROVE MigrationInv'
<1>1. /\ pc = "work" /\ todo # <<>> /\ Head(todo).do = "list"
      /\ UNCHANGED <<src, dst, cancel, pc, created, manifest, current, hashed, failures, trail,
                     result, history>>
    BY DEF ListDirectory, Working, transaction, file
<1>2. PICK d : d = Head(todo).node
    OBVIOUS
<1>3. PICK entries \in SetToSeqs(Entries(d)) : Rest(AsTasks(entries))
    BY <1>2 DEF ListDirectory
<1>4. d \in Dir /\ dst[d] # Nothing
    BY <1>1, <1>2, HeadTask, FirstTask DEF MigrationInv, Here
<1>5. entries \in Seq(Dir \cup File) /\ Range(entries) \subseteq Range(Children[d])
    BY <1>4, Listing DEF MigrationInv
<1>6. AsTasks(entries) \in Seq(Task) /\ PlanReady(AsTasks(entries), dst)
    BY <1>4, <1>5, PushedTasks, EntriesPlan
<1> QED BY <1>1, <1>3, <1>6, PlanInv

LEMMA EnterInv == ASSUME MigrationInv, EnterDirectory PROVE MigrationInv'
<1>1. /\ pc = "work" /\ todo # <<>> /\ Head(todo).do = "entry"
      /\ UNCHANGED <<src, dst, cancel, pc, created, manifest, current, hashed, failures, trail,
                     result, history>>
    BY DEF EnterDirectory, Working, transaction, file
<1>2. PICK n : n = Head(todo).node
    OBVIOUS
<1>3. n \in Dir /\ Rest(<<[do |-> "ensure", node |-> n], [do |-> "list", node |-> n]>>)
    BY <1>2 DEF EnterDirectory
<1>4. PICK d \in Dir \cup {Target} : n \in Range(Children[d]) /\ dst[d] # Nothing
    BY <1>1, <1>2, FirstTask DEF Here
<1>5. /\ <<[do |-> "ensure", node |-> n], [do |-> "list", node |-> n]>> \in Seq(Task)
      /\ PlanReady(<<[do |-> "ensure", node |-> n], [do |-> "list", node |-> n]>>, dst)
    BY <1>3, <1>4, PushedTasks, EnterPlan
<1> QED BY <1>1, <1>3, <1>5, PlanInv

-----------------------------------------------------------------------------
(* Steps that create. *)

\* A step that creates one object in a directory that is there, ours or not, keeps every other.
LEMMA NewObject ==
    ASSUME MigrationInv, NEW n \in Node, dst[n] = Nothing,
           NEW o \in Object, dst' = [dst EXCEPT ![n] = o],
           n = Target \/ \E d \in Dir \cup {Target} : n \in Range(Children[d]) /\ Here(d)
    PROVE  /\ dst' \in [Node -> Object \cup {Nothing}] /\ dst'[n] = o
           /\ \A m \in Node : Here(m) => Here(m)' /\ dst'[m] = dst[m]
           /\ \A m \in Node : dst[m].owner = "ours" => dst'[m] = dst[m]
           /\ \A m \in Node : m # n => dst'[m] = dst[m]
           /\ ParentInv'
           /\ ManifestIsTrue /\ manifest' = manifest =>
                 ManifestIsTrue' /\ \A i \in DOMAIN manifest : manifest[i].file # n
<1> USE DEF MigrationInv
<1>1. o # Nothing /\ Nothing.owner = "none"
    BY DEF Object, Nothing
<1>2. /\ dst' \in [Node -> Object \cup {Nothing}] /\ dst'[n] = o
      /\ \A m \in Node : m # n => dst'[m] = dst[m]
    BY DEF Types
<1>3. \A m \in Node : Here(m) => Here(m)' /\ dst'[m] = dst[m]
    BY <1>1, <1>2 DEF Here
<1>4. \A m \in Node : dst[m].owner = "ours" => dst'[m] = dst[m]
    BY <1>1, <1>2
<1>5. ParentInv'
  <2>1. SUFFICES ASSUME NEW m \in Dir \cup File, Here(m)'
                 PROVE  \E d \in Dir \cup {Target} : m \in Range(Children[d]) /\ Here(d)'
      BY DEF ParentInv
  <2>2. m \in Node /\ m # Target
      BY Constants
  <2>3. \E d \in Dir \cup {Target} : m \in Range(Children[d]) /\ Here(d)
    <3>1. CASE m = n
        BY <2>2, <3>1
    <3>2. CASE m # n
        BY <1>2, <2>1, <2>2, <3>2 DEF ParentInv, Here
    <3> QED BY <3>1, <3>2
  <2> QED BY <1>3, <2>3, Constants
<1>6. ManifestIsTrue /\ manifest' = manifest =>
          ManifestIsTrue' /\ \A i \in DOMAIN manifest : manifest[i].file # n
  <2>1. SUFFICES ASSUME ManifestIsTrue, manifest' = manifest, NEW i \in DOMAIN manifest
                 PROVE  /\ manifest[i].file # n
                        /\ dst'[manifest[i].file] = [owner |-> "ours", data |-> manifest[i].data]
      BY DEF ManifestIsTrue
  <2>2. dst[manifest[i].file] = [owner |-> "ours", data |-> manifest[i].data]
      BY <2>1 DEF ManifestIsTrue
  <2>3. manifest[i].file \in Node
    <3>1. manifest \in Seq([file : File, data : Seq(Chunk)])
        BY DEF Types
    <3>2. manifest[i] \in [file : File, data : Seq(Chunk)]
        BY <2>1, <3>1, Element
    <3> QED BY <3>2, Constants
  <2>4. dst[manifest[i].file].owner = "ours"
      BY <2>2
  <2> QED BY <1>1, <1>2, <2>2, <2>3, <2>4
<1> QED BY <1>2, <1>3, <1>4, <1>5, <1>6

\* A new empty object of ours.
LEMMA Empty == \A a \in {"ours", "foreign"} :
    [owner |-> a, data |-> <<>>] \in Object /\ [owner |-> a, data |-> <<>>].owner = a
BY EmptySeq DEF Object

\* The new object enters the transaction.
LEMMA CreateObject ==
    ASSUME MigrationInv, NEW n \in Node, Create(n), UNCHANGED <<failures, history>>,
           n = Target \/ \E d \in Dir \cup {Target} : n \in Range(Children[d]) /\ Here(d)
    PROVE  /\ CreatedInv' /\ Range(created') = Range(created) \cup {n}
           /\ dst'[n].owner = "ours"
<1> USE DEF MigrationInv
<1> DEFINE o == [owner |-> "ours", data |-> <<>>]
<1>1. o \in Object /\ o.owner = "ours"
    BY Empty
<1> HIDE DEF o
<1>2. dst[n] = Nothing /\ dst' = [dst EXCEPT ![n] = o] /\ created' = Append(created, n)
    BY DEF Create, o
<1>3. /\ dst'[n] = o /\ \A m \in Node : m # n => dst'[m] = dst[m]
      /\ \A m \in Node : dst[m].owner = "ours" => dst'[m] = dst[m]
    BY <1>1, <1>2, NewObject
<1>4. created \in Seq(Node) /\ Nothing.owner # "ours" /\ history.orphan \in SUBSET Node
    BY DEF Types, Nothing
<1>5. /\ Range(created') = Range(created) \cup {n}
      /\ \A i \in DOMAIN created' : \/ i \in DOMAIN created /\ created'[i] = created[i]
                                    \/ i = Len(created) + 1 /\ created'[i] = n
    BY <1>2, <1>4, RangeAppend
<1>6. \A i \in DOMAIN created : created[i] \in Node /\ created[i] # n
    BY <1>2, <1>4, ElementOfSeq, LenProperties DEF CreatedInv
<1>7. n \notin history.orphan
    BY <1>2, <1>4 DEF OrphanInv
<1>8. CreatedInv'
  <2>1. \A i \in DOMAIN created' : dst'[created'[i]].owner = "ours" /\ created'[i] \notin history'.orphan
      BY <1>1, <1>3, <1>5, <1>6, <1>7 DEF CreatedInv
  <2>2. \A i, j \in DOMAIN created' : created'[i] = created'[j] => i = j
      BY <1>5, <1>6 DEF CreatedInv
  <2>3. \A m \in Node : dst'[m].owner = "ours" =>
           m \in Range(created') \/ m \in history'.orphan \/ failures'
      BY <1>3, <1>5 DEF CreatedInv
  <2> QED BY <2>1, <2>2, <2>3 DEF CreatedInv
<1> QED BY <1>1, <1>3, <1>5, <1>8

\* While the copy may go on nothing was given up and no removal failed.
LEMMA NoLoss ==
    ASSUME MigrationInv, pc \in Before \cup Copying
    PROVE  history.orphan = {} /\ ~failures /\ result = "none"
BY DEF MigrationInv, OrphanInv, PhaseInv, Before, Copying, Undoing, Types, Labels

\* The target directory.
LEMMA CreateTargetInv == ASSUME MigrationInv, CreateTarget PROVE MigrationInv'
<1> USE DEF MigrationInv
<1>1. /\ pc = "createTarget" /\ pc' = "warn" /\ Create(Target)
      /\ UNCHANGED <<src, cancel, todo, manifest, current, hashed, failures, trail, result, history>>
    BY DEF CreateTarget, file
<1>2. Target \in Node /\ dst[Target] = Nothing /\ [owner |-> "ours", data |-> <<>>] \in Object
      /\ dst' = [dst EXCEPT ![Target] = [owner |-> "ours", data |-> <<>>]]
    BY <1>1, Constants, Empty DEF Create
<1>3. /\ \A m \in Node : Here(m) => Here(m)'
      /\ \A m \in Node : dst[m].owner = "ours" => dst'[m] = dst[m]
      /\ ParentInv'
    BY <1>1, <1>2, NewObject
<1>4. CreatedInv' /\ Target \in Range(created')
    BY <1>1, <1>2, CreateObject
<1>5. Types'
    BY <1>1, <1>2, CreateType DEF Types, Labels
<1>6. TodoInv'
    BY <1>1, <1>3, SameTodo DEF Before, Copying
<1>7. OrphanInv' /\ PhaseInv'
    BY <1>1, <1>4, NoLoss DEF OrphanInv, PhaseInv, Before, Copying
<1>8. ManifestInv'
    BY <1>1, EmptySeq, LenProperties DEF ManifestInv, ManifestIsTrue, PhaseInv, Before
<1>9. JournalInv' /\ CancelInv'
    BY <1>1 DEF JournalInv, JournalTellsOutcome, CancelInv
<1> QED BY <1>3, <1>4, <1>5, <1>6, <1>7, <1>8, <1>9

\* A directory or a file of the copy: the first task is done.
LEMMA CreateCopyInv ==
    ASSUME MigrationInv, pc = "work", todo # <<>>, Rest(<<>>), Head(todo).do \in {"ensure", "entry"},
           Create(Head(todo).node),
           UNCHANGED <<src, cancel, manifest, failures, trail, result, history>>,
           \/ UNCHANGED <<pc, current, hashed>>
           \/ /\ pc' = "copy" /\ current' = Head(todo).node /\ hashed' = <<>>
              /\ Head(todo).node \in File
    PROVE  MigrationInv'
<1> USE DEF MigrationInv
<1>1. PICK n : n = Head(todo).node
    OBVIOUS
<1>2. n \in Node /\ \E d \in Dir \cup {Target} : n \in Range(Children[d]) /\ Here(d)
    BY <1>1, HeadTask, FirstTask, Constants
<1>3. Create(n) /\ dst[n] = Nothing /\ [owner |-> "ours", data |-> <<>>] \in Object
      /\ dst' = [dst EXCEPT ![n] = [owner |-> "ours", data |-> <<>>]]
    BY <1>1, Empty DEF Create
<1>4. /\ \A m \in Node : Here(m) => Here(m)'
      /\ dst'[n] = [owner |-> "ours", data |-> <<>>]
      /\ ParentInv'
      /\ ManifestIsTrue => ManifestIsTrue' /\ \A i \in DOMAIN manifest : manifest[i].file # n
    BY <1>2, <1>3, NewObject
<1>5. CreatedInv' /\ Range(created') = Range(created) \cup {n} /\ dst'[n].owner = "ours"
    BY <1>2, <1>3, CreateObject
<1>6. \/ UNCHANGED <<pc, current, hashed>>
      \/ pc' = "copy" /\ current' = n /\ hashed' = <<>> /\ n \in File
    BY <1>1
<1>7. Types'
  <2>1. todo' \in Seq(Task)
      BY RestType, PushedTasks
  <2>2. <<>> \in Seq(Chunk)
      BY EmptySeq
  <2> QED BY <1>2, <1>3, <1>6, <2>1, <2>2, CreateType DEF Types, Labels
<1>8. TodoInv'
  <2>1. todo \in Seq(Task) /\ PlanReady(todo, dst) /\ todo[1].node = n
      BY <1>1, HeadTask DEF Types, TodoInv, Copying
  <2>2. dst'[n] # Nothing
      BY <1>5 DEF Nothing
  <2>3. PlanReady(<<>> \o Tail(todo), dst')
      BY <1>4, <2>1, <2>2, NoPlan, PushPlan, PushedTasks DEF Here
  <2> QED BY <2>3 DEF TodoInv, Rest
<1>9. OrphanInv'
    BY NoLoss DEF OrphanInv, Copying
<1>10. PhaseInv'
    BY <1>5, <1>6, NoLoss DEF PhaseInv, Before, Copying
<1>11. ManifestInv'
    BY <1>4, <1>6 DEF ManifestInv, Copying
<1>12. JournalInv' /\ CancelInv'
    BY <1>6 DEF JournalInv, JournalTellsOutcome, CancelInv
<1> QED BY <1>4, <1>5, <1>7, <1>8, <1>9, <1>10, <1>11, <1>12

LEMMA EnsureInv == ASSUME MigrationInv, EnsureDirectory PROVE MigrationInv'
<1>1. /\ pc = "work" /\ todo # <<>> /\ Head(todo).do = "ensure" /\ Rest(<<>>)
      /\ UNCHANGED <<src, cancel, pc, manifest, current, hashed, failures, trail, result, history>>
    BY DEF EnsureDirectory, Working, file
<1>2. CASE Create(Head(todo).node)
    BY <1>1, <1>2, CreateCopyInv
<1>3. CASE dst[Head(todo).node].owner = "foreign" /\ UNCHANGED <<dst, created>>
  <2> USE DEF MigrationInv
  <2>1. Types'
      BY <1>1, <1>3, RestType, PushedTasks DEF Types
  <2>2. TodoInv'
    <3>1. todo \in Seq(Task) /\ PlanReady(todo, dst) /\ Head(todo) = todo[1]
        BY <1>1, HeadTask DEF Types, TodoInv, Copying
    <3>2. dst[todo[1].node] # Nothing
        BY <1>3, <3>1 DEF Nothing
    <3>3. PlanReady(<<>> \o Tail(todo), dst)
        BY <1>1, <3>1, <3>2, NoPlan, PushPlan, PushedTasks
    <3> QED BY <1>1, <1>3, <3>3 DEF TodoInv, Rest
  <2>3. ParentInv' /\ CreatedInv' /\ OrphanInv'
      BY <1>1, <1>3, SameObjects DEF OrphanInv
  <2>4. PhaseInv' /\ ManifestInv'
      BY <1>1, <1>3 DEF PhaseInv, ManifestInv, ManifestIsTrue
  <2>5. JournalInv' /\ CancelInv'
      BY <1>1 DEF JournalInv, JournalTellsOutcome, CancelInv
  <2> QED BY <2>1, <2>2, <2>3, <2>4, <2>5
<1>4. Create(Head(todo).node)
      \/ (dst[Head(todo).node].owner = "foreign" /\ UNCHANGED <<dst, created>>)
    BY DEF EnsureDirectory
<1> QED BY <1>2, <1>3, <1>4

LEMMA OpenFileInv == ASSUME MigrationInv, OpenFile PROVE MigrationInv'
BY CreateCopyInv DEF OpenFile, Working

\* An object whose creation fails half way is given up, and the rollback begins.
LEMMA CreateFailsInv ==
    ASSUME MigrationInv, NEW n \in Node, CreateFails(n),
           UNCHANGED <<src, cancel, todo, created, manifest, current, hashed, failures, trail, result>>,
           \/ pc = "createTarget" /\ n = Target
           \/ /\ pc \in Copying
              /\ \E d \in Dir \cup {Target} : n \in Range(Children[d]) /\ Here(d)
    PROVE  MigrationInv'
<1>1. pc' = "rollback"
    BY DEF CreateFails, Fail
<1>2. CASE UNCHANGED <<dst, history>>
    BY <1>1, <1>2, MoveInv
<1>3. CASE /\ dst[n] = Nothing
           /\ dst' = [dst EXCEPT ![n] = [owner |-> "ours", data |-> <<>>]]
           /\ history' = [history EXCEPT !.orphan = @ \cup {n}]
  <2> USE DEF MigrationInv
  <2>1. [owner |-> "ours", data |-> <<>>] \in Object
        /\ [owner |-> "ours", data |-> <<>>].owner = "ours"
      BY Empty
  <2>2. /\ dst' \in [Node -> Object \cup {Nothing}]
        /\ dst'[n] = [owner |-> "ours", data |-> <<>>]
        /\ \A m \in Node : dst[m].owner = "ours" => dst'[m] = dst[m]
        /\ \A m \in Node : m # n => dst'[m] = dst[m]
        /\ ParentInv'
      BY <1>3, <2>1, NewObject
  <2>3. /\ history.orphan = {} /\ history'.orphan = {n} /\ ~failures /\ result = "none"
        /\ history'.inTime = history.inTime
      BY <1>3, NoLoss DEF Types, Before
  <2>4. Types'
      BY <1>1, CreateFailsType DEF Types, Labels
  <2>5. TodoInv' /\ ManifestInv' /\ JournalInv' /\ CancelInv'
      BY <1>1, <2>3 DEF TodoInv, ManifestInv, JournalInv, JournalTellsOutcome, CancelInv, Before,
                        Copying
  <2>6. CreatedInv'
    <3>1. \A i \in DOMAIN created : /\ created[i] \in Node /\ created[i] # n
                                    /\ dst[created[i]].owner = "ours"
        BY <1>3, Element DEF CreatedInv, Types, Nothing
    <3>2. \A m \in Node : dst'[m].owner = "ours" => m \in Range(created) \/ m = n
        BY <2>2, <2>3 DEF CreatedInv
    <3>3. \A i \in DOMAIN created : dst'[created[i]].owner = "ours" /\ created[i] \notin history'.orphan
        BY <2>2, <2>3, <3>1
    <3>4. \A m \in Node : dst'[m].owner = "ours" => m \in Range(created) \/ m \in history'.orphan
        BY <2>3, <3>2
    <3> QED BY <3>3, <3>4 DEF CreatedInv
  <2>7. OrphanInv'
    <3>1. n # Target => Target \in Range(created)
        BY DEF PhaseInv
    <3> QED BY <1>1, <2>1, <2>2, <2>3, <3>1 DEF OrphanInv, Undoing
  <2>8. PhaseInv'
      BY <1>1, <2>3 DEF PhaseInv, Before, Copying
  <2> QED BY <2>2, <2>4, <2>5, <2>6, <2>7, <2>8
<1> QED BY <1>2, <1>3 DEF CreateFails

LEMMA CreateTargetFailsInv == ASSUME MigrationInv, CreateTargetFails PROVE MigrationInv'
<1>1. /\ pc = "createTarget"
      /\ UNCHANGED <<src, cancel, todo, created, manifest, current, hashed, failures, trail, result>>
    BY DEF CreateTargetFails, transaction, file
<1>2. CASE CreateFails(Target)
    BY <1>1, <1>2, CreateFailsInv, Constants
<1>3. CASE pc' = "rollback" /\ UNCHANGED <<dst, history>>
    BY <1>1, <1>3, MoveInv
<1> QED BY <1>2, <1>3 DEF CreateTargetFails, Fail

LEMMA FaultInv == ASSUME MigrationInv, Fault PROVE MigrationInv'
<1>1. /\ pc \in Copying
      /\ UNCHANGED <<src, cancel, todo, created, manifest, current, hashed, failures, trail, result>>
    BY DEF Fault, transaction, file, Copying
<1>2. CASE pc' = "rollback" /\ UNCHANGED <<dst, history>>
    BY <1>1, <1>2, MoveInv
<1>3. CASE /\ Working("ensure") \/ (Working("entry") /\ Head(todo).node \in File)
           /\ CreateFails(Head(todo).node)
  <2>1. PICK n : n = Head(todo).node
      OBVIOUS
  <2>2. pc = "work" /\ todo # <<>> /\ Head(todo).do \in {"ensure", "entry"}
      BY <1>3 DEF Working
  <2>3. n \in Node /\ \E d \in Dir \cup {Target} : n \in Range(Children[d]) /\ Here(d)
      BY <2>1, <2>2, HeadTask, FirstTask, Constants DEF MigrationInv
  <2>4. CreateFails(n)
      BY <1>3, <2>1
  <2> QED BY <1>1, <2>3, <2>4, CreateFailsInv
<1> QED BY <1>2, <1>3 DEF Fault, Fail

-----------------------------------------------------------------------------
(* Steps that copy, verify and remove. *)

LEMMA CopyChunkInv == ASSUME MigrationInv, CopyChunk PROVE MigrationInv'
<1> USE DEF MigrationInv
<1>1. /\ pc = "copy" /\ current \in File /\ current \in Node /\ dst[current].owner = "ours"
      /\ UNCHANGED <<src, cancel, pc, todo, created, manifest, current, failures, trail, result,
                     history>>
    BY Constants DEF CopyChunk, PhaseInv
<1>2. Len(hashed) < Len(src[current].data) /\ hashed' = Append(hashed, src[current].data[Len(hashed) + 1])
    BY DEF CopyChunk
<1>3. src[current].data \in Seq(Chunk)
  <2>1. src[current] \in Source
      BY <1>1 DEF Types
  <2> QED BY <2>1, EmptySeq, MigrationConstants DEF Source
<1>4. src[current].data[Len(hashed) + 1] \in Chunk
  <2>1. Len(hashed) + 1 \in DOMAIN src[current].data
      BY <1>2, <1>3, LenProperties DEF Types
  <2> QED BY <1>3, <2>1, Element
<1>5. PICK x \in Chunk : dst' = [dst EXCEPT ![current].data = Append(@, x)]
    BY <1>4 DEF CopyChunk
<1>6. /\ dst[current] \in Object /\ dst'[current].owner = "ours" /\ dst'[current] \in Object
      /\ \A m \in Node : m # current => dst'[m] = dst[m]
  <2>1. dst[current] \in Object
      BY <1>1 DEF Types, Nothing
  <2>2. Append(dst[current].data, x) \in Seq(Chunk)
      BY <2>1, RangeAppend DEF Object
  <2>3. dst'[current] = [dst[current] EXCEPT !.data = Append(dst[current].data, x)]
      BY <1>1, <1>5 DEF Types
  <2>4. dst'[current] = [owner |-> "ours", data |-> Append(dst[current].data, x)]
      BY <1>1, <2>1, <2>3 DEF Object
  <2>5. dst'[current] \in Object /\ dst'[current].owner = "ours"
      BY <2>2, <2>4 DEF Object
  <2> QED BY <1>1, <1>5, <2>1, <2>5 DEF Types
<1>7. \A m \in Node : (Here(m) <=> Here(m)') /\ dst'[m].owner = dst[m].owner
    BY <1>1, <1>6 DEF Here, Nothing
<1>8. Types'
  <2>1. hashed' \in Seq(Chunk)
      BY <1>2, <1>4, RangeAppend DEF Types
  <2>2. dst' \in [Node -> Object \cup {Nothing}]
    <3>1. dst' = [m \in Node |-> dst'[m]]
        BY <1>5 DEF Types
    <3>2. \A m \in Node : dst'[m] \in Object \cup {Nothing}
        BY <1>6 DEF Types
    <3> QED BY <3>1, <3>2
  <2> QED BY <1>1, <2>1, <2>2 DEF Types
<1>9. TodoInv'
    BY <1>1, <1>7, SameTodo
<1>10. ParentInv'
    BY <1>7, Constants DEF ParentInv
<1>11. CreatedInv'
  <2>1. \A i \in DOMAIN created : created[i] \in Node
      BY Element DEF Types
  <2> QED BY <1>1, <1>7, <2>1 DEF CreatedInv
<1>12. OrphanInv'
    BY <1>1, NoLoss DEF OrphanInv, Copying
<1>13. PhaseInv'
    BY <1>1, <1>6 DEF PhaseInv
<1>14. ManifestInv'
  <2>1. ManifestIsTrue /\ \A i \in DOMAIN manifest : manifest[i].file # current /\ manifest[i].file \in Node
    <3>1. \A i \in DOMAIN manifest : manifest[i] \in [file : File, data : Seq(Chunk)]
        BY Element DEF Types
    <3> QED BY <1>1, <3>1, Constants DEF ManifestInv, Copying
  <2>2. ManifestIsTrue'
      BY <1>1, <1>6, <2>1 DEF ManifestIsTrue
  <2> QED BY <1>1, <2>1, <2>2 DEF ManifestInv
<1>15. JournalInv' /\ CancelInv'
    BY <1>1 DEF JournalInv, JournalTellsOutcome, CancelInv
<1> QED BY <1>8, <1>9, <1>10, <1>11, <1>12, <1>13, <1>14, <1>15

LEMMA VerifiedInv == ASSUME MigrationInv, Verified PROVE MigrationInv'
<1> USE DEF MigrationInv
<1>1. /\ pc = "verify" /\ pc' = "work" /\ current \in File /\ dst[current].owner = "ours"
      /\ dst[current].data = hashed
      /\ manifest' = Append(manifest, [file |-> current, data |-> hashed])
      /\ UNCHANGED <<src, dst, cancel, todo, created, current, hashed, failures, trail, result,
                     history>>
    BY DEF Verified, Matches, PhaseInv, file
<1>2. dst[current] = [owner |-> "ours", data |-> hashed]
  <2>1. dst[current] \in Object
      BY <1>1, Constants DEF Types, Nothing
  <2> QED BY <1>1, <2>1 DEF Object
<1>3. /\ manifest' \in Seq([file : File, data : Seq(Chunk)])
      /\ \A i \in DOMAIN manifest' :
            \/ i \in DOMAIN manifest /\ manifest'[i] = manifest[i]
            \/ manifest'[i] = [file |-> current, data |-> hashed]
  <2>1. [file |-> current, data |-> hashed] \in [file : File, data : Seq(Chunk)]
      BY <1>1 DEF Types
  <2> QED BY <1>1, <2>1, RangeAppend DEF Types
<1>4. Types'
    BY <1>1, <1>3 DEF Types, Labels
<1>5. ParentInv' /\ CreatedInv' /\ OrphanInv'
    BY <1>1, SameObjects, NoLoss DEF OrphanInv, Copying
<1>6. TodoInv'
    BY <1>1, SameTodo DEF Here, Copying
<1>7. PhaseInv'
    BY <1>1 DEF PhaseInv, Before, Copying
<1>8. ManifestInv'
  <2>1. ManifestIsTrue
      BY <1>1 DEF ManifestInv, Copying
  <2>2. ASSUME NEW i \in DOMAIN manifest'
        PROVE  dst[manifest'[i].file] = [owner |-> "ours", data |-> manifest'[i].data]
    <3>1. CASE i \in DOMAIN manifest /\ manifest'[i] = manifest[i]
        BY <2>1, <3>1 DEF ManifestIsTrue
    <3>2. CASE manifest'[i] = [file |-> current, data |-> hashed]
        BY <1>2, <3>2
    <3> QED BY <1>3, <3>1, <3>2
  <2> QED BY <1>1, <2>2 DEF ManifestInv, ManifestIsTrue
<1>9. JournalInv' /\ CancelInv'
    BY <1>1 DEF JournalInv, JournalTellsOutcome, CancelInv
<1> QED BY <1>4, <1>5, <1>6, <1>7, <1>8, <1>9

\* What is below the target keeps the target from being empty.
LEMMA TargetHolds ==
    ASSUME MigrationInv, NEW m \in Dir \cup File, Here(m)
    PROVE  NonEmpty(Target)
<1> DEFINE S == {n \in Dir \cup File : Here(n)}
<1>1. PICK n \in S : \A d \in S \cap Dir : n \notin Range(Children[d])
    BY MigrationConstants
<1>2. PICK d \in Dir \cup {Target} : n \in Range(Children[d]) /\ Here(d)
    BY DEF MigrationInv, ParentInv
<1>3. d = Target
    BY <1>1, <1>2
<1> QED BY <1>2, <1>3, Constants DEF NonEmpty, Here

LEMMA RemoveCreatedInv == ASSUME MigrationInv, RemoveCreated PROVE MigrationInv'
<1> USE DEF MigrationInv
<1>1. PICK n : n = created[Len(created)]
    OBVIOUS
<1>2. /\ pc = "rollback" /\ created # <<>> /\ created' = SubSeq(created, 1, Len(created) - 1)
      /\ \/ ~NonEmpty(n) /\ dst' = [dst EXCEPT ![n] = Nothing] /\ UNCHANGED failures
         \/ failures' = TRUE /\ UNCHANGED dst
      /\ UNCHANGED <<src, cancel, pc, todo, manifest, current, hashed, trail, result, history>>
    BY <1>1 DEF RemoveCreated, file
<1>3. /\ created' \in Seq(Node) /\ Len(created) \in DOMAIN created /\ n \in Node
      /\ \A i \in DOMAIN created' : i \in DOMAIN created /\ i # Len(created) /\ created'[i] = created[i]
      /\ \A i \in DOMAIN created : i = Len(created) \/ (i \in DOMAIN created' /\ created'[i] = created[i])
    BY <1>1, <1>2, RangeFront DEF Types
<1>4. \A i \in DOMAIN created' : created'[i] # n /\ created'[i] \in Node
    BY <1>1, <1>3, Element DEF CreatedInv
<1>5. \A m \in Range(created) : m = n \/ m \in Range(created')
    BY <1>1, <1>3 DEF Range
<1>6. Types' /\ TodoInv' /\ PhaseInv' /\ ManifestInv' /\ JournalInv' /\ CancelInv'
  <2>1. dst' \in [Node -> Object \cup {Nothing}] /\ failures' \in BOOLEAN
      BY <1>2 DEF Types
  <2>2. Types'
      BY <1>2, <1>3, <2>1 DEF Types
  <2>3. PhaseInv'
      BY <1>2 DEF PhaseInv, Before, Copying
  <2> QED BY <1>2, <2>2, <2>3 DEF TodoInv, ManifestInv, JournalInv, JournalTellsOutcome, CancelInv,
                                  PhaseInv, Before, Copying
<1>7. CASE ~NonEmpty(n) /\ dst' = [dst EXCEPT ![n] = Nothing] /\ UNCHANGED failures
  <2>1. dst'[n] = Nothing /\ \A m \in Node : m # n => dst'[m] = dst[m]
      BY <1>3, <1>7 DEF Types
  <2>2. n \notin history.orphan /\ history.orphan \in SUBSET Node
      BY <1>1, <1>3 DEF CreatedInv, Types
  <2>3. ParentInv'
    <3>1. SUFFICES ASSUME NEW m \in Dir \cup File, Here(m)'
                   PROVE  \E d \in Dir \cup {Target} : m \in Range(Children[d]) /\ Here(d)'
        BY DEF ParentInv
    <3>2. m # n /\ Here(m)
        BY <2>1, <3>1, Constants DEF Here
    <3>3. PICK d \in Dir \cup {Target} : m \in Range(Children[d]) /\ Here(d)
        BY <3>2 DEF ParentInv
    <3>4. d # n
        BY <1>7, <3>2, <3>3, Constants DEF NonEmpty, Here
    <3> QED BY <2>1, <3>3, <3>4, Constants DEF Here
  <2>4. CreatedInv'
    <3>1. \A i \in DOMAIN created' : dst'[created'[i]].owner = "ours" /\ created'[i] \notin history'.orphan
        BY <1>2, <1>3, <1>4, <2>1 DEF CreatedInv
    <3>2. \A i, j \in DOMAIN created' : created'[i] = created'[j] => i = j
        BY <1>3 DEF CreatedInv
    <3>3. \A m \in Node : dst'[m].owner = "ours" =>
             m \in Range(created') \/ m \in history'.orphan \/ failures'
        BY <1>2, <1>5, <1>7, <2>1 DEF CreatedInv, Nothing
    <3> QED BY <3>1, <3>2, <3>3 DEF CreatedInv
  <2>5. OrphanInv'
    <3>1. \A m \in history.orphan : dst'[m].owner = "ours"
        BY <2>1, <2>2 DEF OrphanInv
    <3>2. ASSUME history.orphan \ {Target} # {} PROVE Target \in Range(created') \/ failures'
      <4>1. PICK m \in history.orphan : m # Target
          BY <3>2
      <4>2. m \in Dir \cup File /\ Here(m)
          BY <2>2, <4>1, Constants DEF OrphanInv, Here, Nothing
      <4>3. n # Target
          BY <1>7, <4>2, TargetHolds
      <4> QED BY <1>5, <1>7, <3>2, <4>3 DEF OrphanInv
    <3> QED BY <1>2, <3>1, <3>2 DEF OrphanInv, Undoing
  <2> QED BY <1>6, <2>3, <2>4, <2>5
<1>8. CASE failures' = TRUE /\ UNCHANGED dst
  <2>1. ParentInv'
      BY <1>8 DEF ParentInv, Here
  <2>2. CreatedInv'
      BY <1>2, <1>3, <1>8 DEF CreatedInv
  <2>3. OrphanInv'
      BY <1>2, <1>8 DEF OrphanInv, Undoing
  <2> QED BY <1>6, <2>1, <2>2, <2>3
<1> QED BY <1>2, <1>7, <1>8

-----------------------------------------------------------------------------
(* The operator and other software. *)

LEMMA CancelInvariant == ASSUME MigrationInv, Cancel PROVE MigrationInv'
<1> USE DEF MigrationInv
<1>1. /\ pc # "ended" /\ cancel' = TRUE /\ history' = [history EXCEPT !.inTime = pc # "logSuccess"]
      /\ UNCHANGED <<src, dst, pc, todo, created, manifest, current, hashed, failures, trail, result>>
    BY DEF Cancel, transaction, file
<1>2. /\ history' \in [touched : SUBSET File, orphan : SUBSET Node, auditLost : BOOLEAN,
                       inTime : BOOLEAN]
      /\ history'.orphan = history.orphan /\ history'.auditLost = history.auditLost
      /\ history'.inTime = (pc # "logSuccess")
    BY <1>1 DEF Types
<1>3. Types'
    BY <1>1, <1>2 DEF Types
<1>4. ParentInv' /\ CreatedInv' /\ OrphanInv'
    BY <1>1, <1>2, SameObjects DEF OrphanInv
<1>5. TodoInv' /\ PhaseInv' /\ ManifestInv'
    BY <1>1 DEF TodoInv, PhaseInv, ManifestInv, ManifestIsTrue
<1>6. JournalInv' /\ CancelInv'
    BY <1>1, <1>2 DEF JournalInv, JournalTellsOutcome, CancelInv, PhaseInv
<1> QED BY <1>3, <1>4, <1>5, <1>6

LEMMA ForeignInv == ASSUME MigrationInv, Foreign PROVE MigrationInv'
<1> USE DEF MigrationInv
<1>1. UNCHANGED <<src, cancel, pc, todo, created, manifest, current, hashed, failures, trail, result,
                  history>>
    BY DEF Foreign, transaction, file
<1>2. PICK n \in Node :
         /\ dst[n] = Nothing
         /\ n = Target \/ \E d \in Dir \cup {Target} : n \in Range(Children[d]) /\ Here(d)
         /\ dst' = [dst EXCEPT ![n] = [owner |-> "foreign", data |-> <<>>]]
    BY Constants DEF Foreign, Here
<1>3. [owner |-> "foreign", data |-> <<>>] \in Object /\ [owner |-> "foreign", data |-> <<>>].owner = "foreign"
    BY Empty
<1>4. /\ dst' \in [Node -> Object \cup {Nothing}]
      /\ dst'[n] = [owner |-> "foreign", data |-> <<>>]
      /\ \A m \in Node : Here(m) => Here(m)'
      /\ \A m \in Node : dst[m].owner = "ours" => dst'[m] = dst[m]
      /\ \A m \in Node : m # n => dst'[m] = dst[m]
      /\ ParentInv'
      /\ ManifestIsTrue => ManifestIsTrue'
    BY <1>1, <1>2, <1>3, NewObject
<1>5. \A m \in Node : dst'[m].owner = "ours" <=> dst[m].owner = "ours"
    BY <1>2, <1>3, <1>4 DEF Nothing
<1>6. Types'
    BY <1>1, <1>4 DEF Types
<1>7. TodoInv'
    BY <1>1, <1>4, SameTodo
<1>8. CreatedInv' /\ OrphanInv'
  <2>1. \A i \in DOMAIN created : created[i] \in Node
      BY Element DEF Types
  <2>2. history.orphan \in SUBSET Node
      BY DEF Types
  <2>3. CreatedInv'
      BY <1>1, <1>5, <2>1 DEF CreatedInv
  <2> QED BY <1>1, <1>5, <2>2, <2>3 DEF OrphanInv
<1>9. PhaseInv'
    BY <1>1, <1>5, Constants DEF PhaseInv
<1>10. ManifestInv' /\ JournalInv' /\ CancelInv'
    BY <1>1, <1>4 DEF ManifestInv, JournalInv, JournalTellsOutcome, CancelInv
<1> QED BY <1>4, <1>6, <1>7, <1>8, <1>9, <1>10

LEMMA ChangeSourceInv == ASSUME MigrationInv, ChangeSource PROVE MigrationInv'
<1> USE DEF MigrationInv
<1>1. UNCHANGED <<dst, cancel, pc, todo, created, manifest, current, hashed, failures, trail, result>>
    BY DEF ChangeSource, transaction, file
<1>2. PICK f \in File, s \in Source : /\ src' = [src EXCEPT ![f] = s]
                                      /\ history' = [history EXCEPT !.touched = @ \cup {f}]
    BY DEF ChangeSource
<1>3. /\ history' \in [touched : SUBSET File, orphan : SUBSET Node, auditLost : BOOLEAN,
                       inTime : BOOLEAN]
      /\ history'.orphan = history.orphan /\ history'.auditLost = history.auditLost
      /\ history'.inTime = history.inTime
  <2>1. history.touched \cup {f} \in SUBSET File
      BY DEF Types
  <2> QED BY <1>2, <2>1 DEF Types
<1>4. Types'
  <2>1. src' \in [Dir \cup File -> Source]
      BY <1>2 DEF Types
  <2> QED BY <1>1, <1>3, <2>1 DEF Types
<1>5. ParentInv' /\ CreatedInv' /\ OrphanInv'
    BY <1>1, <1>3, SameObjects DEF OrphanInv
<1>6. TodoInv' /\ PhaseInv' /\ ManifestInv'
    BY <1>1 DEF TodoInv, PhaseInv, ManifestInv, ManifestIsTrue
<1>7. JournalInv' /\ CancelInv'
    BY <1>1, <1>3 DEF JournalInv, JournalTellsOutcome, CancelInv
<1> QED BY <1>4, <1>5, <1>6, <1>7

-----------------------------------------------------------------------------
(* The inductive invariant. *)

\* Every selected root is a path of directories from the target down.
LEMMA Scopes ==
    ASSUME NEW s \in {Roaming, Personal, Roaming \o Personal}
    PROVE  s \in Seq(Seq(Dir)) /\ \A i \in DOMAIN s : Rooted(s[i])
<1>1. /\ Roaming \in Seq(Seq(Dir)) /\ Personal \in Seq(Seq(Dir))
      /\ \A i \in DOMAIN Roaming : Rooted(Roaming[i])
      /\ \A i \in DOMAIN Personal : Rooted(Personal[i])
    BY MigrationConstants DEF Range
<1>2. /\ Roaming \o Personal \in Seq(Seq(Dir))
      /\ \A i \in DOMAIN (Roaming \o Personal) :
            \/ i \in DOMAIN Roaming /\ (Roaming \o Personal)[i] = Roaming[i]
            \/ i - Len(Roaming) \in DOMAIN Personal
               /\ (Roaming \o Personal)[i] = Personal[i - Len(Roaming)]
  <2>1. /\ Roaming \o Personal \in Seq(Seq(Dir))
        /\ Len(Roaming \o Personal) = Len(Roaming) + Len(Personal)
        /\ \A i \in 1 .. Len(Roaming) + Len(Personal) :
              (Roaming \o Personal)[i] = IF i <= Len(Roaming) THEN Roaming[i]
                                                              ELSE Personal[i - Len(Roaming)]
      BY <1>1, ConcatProperties
  <2>2. /\ DOMAIN Roaming = 1 .. Len(Roaming) /\ DOMAIN Personal = 1 .. Len(Personal)
        /\ DOMAIN (Roaming \o Personal) = 1 .. Len(Roaming) + Len(Personal)
        /\ Len(Roaming) \in Nat /\ Len(Personal) \in Nat
      BY <1>1, <2>1, LenProperties
  <2>3. ASSUME NEW i \in 1 .. Len(Roaming) + Len(Personal)
        PROVE  \/ i \in 1 .. Len(Roaming) /\ i <= Len(Roaming)
               \/ i - Len(Roaming) \in 1 .. Len(Personal) /\ ~(i <= Len(Roaming))
      BY <2>2
  <2> QED BY <2>1, <2>2, <2>3
<1>3. \A i \in DOMAIN (Roaming \o Personal) : Rooted((Roaming \o Personal)[i])
    BY <1>1, <1>2
<1> QED BY <1>1, <1>2, <1>3

LEMMA InitInv == Init => MigrationInv
<1> SUFFICES ASSUME Init PROVE MigrationInv
    OBVIOUS
<1>1. /\ DOMAIN scope = 1 .. Len(scope) /\ Len(scope) \in Nat
      /\ \A i \in DOMAIN scope : scope[i] \in Seq(Dir) /\ Rooted(scope[i])
    BY Scopes, LenProperties, Element DEF Init
<1>2. todo \in [1 .. Len(scope) -> Task]
  <2>1. \A path \in Seq(Dir) : [do |-> "root", path |-> path] \in Task
      BY DEF Task
  <2>2. todo = [i \in 1 .. Len(scope) |-> [do |-> "root", path |-> scope[i]]]
      BY <1>1 DEF Init
  <2>3. \A i \in 1 .. Len(scope) : [do |-> "root", path |-> scope[i]] \in Task
      BY <1>1, <2>1, Zenon
  <2> QED BY <2>2, <2>3, Zenon
<1>3. todo \in Seq(Task) /\ 1 .. Len(todo) = DOMAIN scope
    BY <1>1, <1>2, FunctionSeq, LenProperties
<1>4. ASSUME NEW i \in DOMAIN scope PROVE todo[i].do = "root" /\ Rooted(todo[i].path)
  <2>1. todo[i] = [do |-> "root", path |-> scope[i]]
      BY DEF Init
  <2>2. todo[i].do = "root" /\ todo[i].path = scope[i]
      BY <2>1
  <2> QED BY <1>1, <2>2
<1>5. TodoInv
    BY <1>3, <1>4 DEF TodoInv, PlanReady, TaskReady
<1>6. dst = [n \in Node |-> Nothing] /\ Nothing.owner = "none"
    BY DEF Init, Nothing
<1>7. Types
    BY <1>3, EmptySeq DEF Init, Types, Labels
<1>8. ParentInv /\ CreatedInv /\ OrphanInv
  <2>1. \A n \in Node : dst[n] = Nothing
      BY <1>6
  <2>2. created = <<>> /\ DOMAIN created = {} /\ history.orphan = {}
      BY EmptySeq, LenProperties DEF Init
  <2>3. ParentInv
      BY <2>1, Constants DEF ParentInv, Here
  <2>4. CreatedInv
      BY <1>6, <2>1, <2>2 DEF CreatedInv
  <2> QED BY <2>2, <2>3, <2>4 DEF OrphanInv
<1>9. PhaseInv /\ ManifestInv
    BY DEF Init, PhaseInv, ManifestInv, ManifestIsTrue, Before, Copying
<1>10. JournalInv /\ CancelInv
    BY DEF Init, JournalInv, JournalTellsOutcome, CancelInv
<1> QED BY <1>5, <1>7, <1>8, <1>9, <1>10 DEF MigrationInv

LEMMA StepInv == MigrationInv /\ [Next]_vars => MigrationInv'
<1> SUFFICES ASSUME MigrationInv, [Next]_vars PROVE MigrationInv'
    OBVIOUS
<1>1. CASE Validate \/ Refuse
    BY <1>1, MoveInv DEF Validate, Refuse, Return, transaction, file
<1>2. CASE LogStarted \/ Warn \/ LogSuccess \/ LogRollback
    BY <1>2, LogInv DEF LogStarted, Warn, LogSuccess, LogRollback, transaction, file
<1>3. CASE EndOfFile \/ ReadBack \/ Finalize
    BY <1>3, MoveInv DEF EndOfFile, ReadBack, Finalize, transaction, file
<1>4. CASE Stop
  <2>1. pc \in Copying
      BY <1>4 DEF Stop, Stopped, Working, Copying
  <2> QED BY <1>4, <2>1, MoveInv DEF Stop, Fail, transaction, file
<1>5. CASE RollbackEnds
    BY <1>5, MoveInv DEF RollbackEnds, transaction, file
<1>6. CASE UNCHANGED vars
    BY <1>6 DEF vars, transaction, file, MigrationInv, Types, TodoInv, ParentInv, CreatedInv,
                OrphanInv, PhaseInv, ManifestInv, ManifestIsTrue, JournalInv, JournalTellsOutcome,
                CancelInv, Here
<1> QED BY <1>1, <1>2, <1>3, <1>4, <1>5, <1>6, CreateTargetInv, CreateTargetFailsInv, OpenRootInv,
           EnsureInv, ListInv, EnterInv, OpenFileInv, CopyChunkInv, VerifiedInv, FaultInv,
           RemoveCreatedInv, CancelInvariant, ForeignInv, ChangeSourceInv DEF Next, Worker

-----------------------------------------------------------------------------
(* Completeness of a successful copy. *)

\* What the task still has to copy.
Remaining(source, task) ==
    CASE task.do = "root" -> IF Opens(source, task.path)
                             THEN Below(source, task.path[Len(task.path)])
                             ELSE {}
      [] task.do = "ensure" -> {}
      [] task.do \in {"list", "entry"} -> Below(source, task.node)

Covers(source, plan, f) == \E i \in 1 .. Len(plan) : f \in Remaining(source, plan[i])

\* The file is being copied; it has its copy.
Busy(f) == pc \in {"copy", "verify"} /\ f = current
Copied(f) == dst[f] = [owner |-> "ours", data |-> src[f].data]

\* The hasher has seen a prefix of the source file, then all of it.
HashInv ==
    /\ pc = "copy" => /\ Len(hashed) <= Len(src[current].data)
                      /\ \A i \in DOMAIN hashed : hashed[i] = src[current].data[i]
    /\ pc = "verify" => hashed = src[current].data

\* No selected file is forgotten: it is copied, being copied, or below a task.
CoverInv ==
    pc \in Before \cup Copying \/ result = "ok" =>
       \A f \in File \ history.touched :
          Selected(f) /\ src[f].kind = "file" => Busy(f) \/ Copied(f) \/ Covers(src, todo, f)

CompleteInv ==
    /\ scope \in {Roaming, Personal, Roaming \o Personal}
    /\ pc = "logSuccess" \/ result = "ok" => todo = <<>>
    /\ HashInv
    /\ CoverInv

\* What is below a node holds it and is closed.
LEMMA BelowClosed ==
    ASSUME NEW source, NEW n \in Dir \cup File
    PROVE  /\ n \in Below(source, n) /\ Below(source, n) \subseteq Dir \cup File
           /\ Closed(source, Below(source, n))
<1>1. n \in Below(source, n) /\ Below(source, n) \subseteq Dir \cup File
    BY DEF Below
<1>2. ASSUME NEW d \in Below(source, n) \cap Dir, source[d].kind = "directory",
             NEW k \in Range(Children[d])
      PROVE  k \in Below(source, n)
  <2>1. k \in Dir \cup File
      BY Constants
  <2>2. ASSUME NEW S \in SUBSET (Dir \cup File), n \in S, Closed(source, S) PROVE k \in S
    <3>1. d \in S
        BY <2>2 DEF Below
    <3> QED BY <1>2, <2>2, <3>1 DEF Closed
  <2> QED BY <2>1, <2>2 DEF Below
<1> QED BY <1>1, <1>2 DEF Closed

\* Nothing else is below what is not a directory.
LEMMA BelowLeaf ==
    ASSUME NEW source, NEW n \in Dir \cup File, n \in File \/ source[n].kind # "directory"
    PROVE  Below(source, n) \subseteq {n}
<1>1. {n} \in SUBSET (Dir \cup File) /\ Closed(source, {n})
    BY MigrationConstants DEF Closed
<1> QED BY <1>1 DEF Below

\* What is below a directory is the directory or below one of its children.
LEMMA BelowSplit ==
    ASSUME NEW source, NEW d \in Dir, NEW m \in Below(source, d), m # d
    PROVE  \E k \in Range(Children[d]) : m \in Below(source, k)
<1> DEFINE S == {d} \cup {x \in Dir \cup File : \E k \in Range(Children[d]) : x \in Below(source, k)}
<1>1. S \in SUBSET (Dir \cup File) /\ d \in S
    OBVIOUS
<1>2. ASSUME NEW x \in S \cap Dir, source[x].kind = "directory", NEW y \in Range(Children[x])
      PROVE  y \in S
  <2>1. y \in Dir \cup File
      BY Constants
  <2>2. CASE x = d
      BY <2>1, <2>2, BelowClosed
  <2>3. ASSUME NEW k \in Range(Children[d]), x \in Below(source, k) PROVE y \in S
    <3>1. k \in Dir \cup File
        BY Constants
    <3>2. y \in Below(source, k)
        BY <1>2, <2>3, <3>1, BelowClosed DEF Closed
    <3> QED BY <2>1, <3>2
  <2> QED BY <2>2, <2>3
<1>3. Closed(source, S)
  <2> HIDE DEF S
  <2> QED BY <1>2 DEF Closed
<1>4. m \in S
  <2> HIDE DEF S
  <2> QED BY <1>1, <1>3 DEF Below
<1> QED BY <1>4

\* Only the directories of the source matter.
LEMMA SameBelow ==
    ASSUME NEW s, NEW t, \A d \in Dir : t[d] = s[d]
    PROVE  /\ \A n : Below(t, n) = Below(s, n)
           /\ \A path \in Seq(Dir) : Opens(t, path) = Opens(s, path)
           /\ \A task \in Task : Remaining(t, task) = Remaining(s, task)
<1>1. \A S : Closed(t, S) = Closed(s, S)
    BY DEF Closed
<1>2. \A n : Below(t, n) = Below(s, n)
    BY <1>1 DEF Below
<1>3. ASSUME NEW path \in Seq(Dir) PROVE Opens(t, path) = Opens(s, path)
  <2>1. \A i \in DOMAIN path : t[path[i]] = s[path[i]]
      BY Element
  <2> QED BY <2>1 DEF Opens
<1>4. ASSUME NEW task \in Task PROVE Remaining(t, task) = Remaining(s, task)
  <2>1. task.do = "root" => task.path \in Seq(Dir)
      BY DEF Task
  <2>2. task.do \in {"root", "ensure", "list", "entry"}
      BY DEF Task
  <2>3. CASE task.do = "root"
    <3>1. Opens(t, task.path) <=> Opens(s, task.path)
        BY <1>3, <2>1, <2>3
    <3> QED BY <1>2, <2>3, <3>1 DEF Remaining
  <2>4. CASE task.do # "root"
      BY <1>2, <2>2, <2>4 DEF Remaining
  <2> QED BY <2>3, <2>4
<1> QED BY <1>2, <1>3, <1>4

\* A file that a plan covers stays covered when tasks that cover what the first one did are put in
\* its place.
LEMMA PushCovers ==
    ASSUME NEW source, NEW plan \in Seq(Task), plan # <<>>, NEW tasks \in Seq(Task), NEW f,
           Covers(source, plan, f),
           f \in Remaining(source, plan[1]) => Covers(source, tasks, f)
    PROVE  Covers(source, tasks \o Tail(plan), f)
<1> DEFINE n == Len(tasks)
           next == tasks \o Tail(plan)
<1>1. /\ Len(plan) \in Nat /\ Len(plan) >= 1 /\ Tail(plan) \in Seq(Task)
      /\ Len(Tail(plan)) = Len(plan) - 1
      /\ \A k \in 1 .. Len(plan) - 1 : Tail(plan)[k] = plan[k + 1]
    BY HeadTailProperties, LenProperties, EmptySeq
<1>2. /\ n \in Nat /\ Len(next) = n + (Len(plan) - 1)
      /\ \A i \in 1 .. n + (Len(plan) - 1) :
            next[i] = IF i <= n THEN tasks[i] ELSE Tail(plan)[i - n]
    BY <1>1, ConcatProperties, LenProperties
<1>3. PICK i \in 1 .. Len(plan) : f \in Remaining(source, plan[i])
    BY DEF Covers
<1> HIDE DEF next
<1>4. CASE i = 1
  <2>1. PICK j \in 1 .. n : f \in Remaining(source, tasks[j])
      BY <1>3, <1>4 DEF Covers
  <2>2. j \in 1 .. Len(next) /\ next[j] = tasks[j]
      BY <1>1, <1>2
  <2>3. f \in Remaining(source, next[j])
      BY <2>1, <2>2
  <2> QED BY <2>2, <2>3 DEF Covers, next
<1>5. CASE i # 1
  <2>1. /\ n + i - 1 \in 1 .. n + (Len(plan) - 1) /\ ~(n + i - 1 <= n)
        /\ (n + i - 1) - n = i - 1 /\ i - 1 \in 1 .. Len(plan) - 1 /\ (i - 1) + 1 = i
      BY <1>1, <1>2, <1>5
  <2>2. next[n + i - 1] = Tail(plan)[i - 1]
      BY <1>2, <2>1
  <2>3. Tail(plan)[i - 1] = plan[(i - 1) + 1]
      BY <1>1, <2>1
  <2>4. f \in Remaining(source, next[n + i - 1])
      BY <1>3, <2>1, <2>2, <2>3
  <2> QED BY <1>2, <2>1, <2>4 DEF Covers, next
<1> QED BY <1>4, <1>5

\* A list task, an entry task.
LEMMA RemainingBelow ==
    \A source, n : \A a \in {"list", "entry"} :
       Remaining(source, [do |-> a, node |-> n]) = Below(source, n)
BY DEF Remaining

\* An ensure task copies no file.
LEMMA RemainingEnsure == \A source, task : task.do = "ensure" => Remaining(source, task) = {}
BY DEF Remaining

\* The listing of a directory covers every file below it.
LEMMA EntriesCover ==
    ASSUME Types, NEW d \in Dir, NEW entries \in SetToSeqs(Entries(d)),
           NEW f \in File, f \in Below(src, d), src[f].kind = "file"
    PROVE  Covers(src, AsTasks(entries), f)
<1>1. f # d
    BY Constants
<1>2. PICK k \in Range(Children[d]) : f \in Below(src, k)
    BY <1>1, BelowSplit
<1>3. k \in Dir \cup File
    BY Constants
<1>4. k \in Entries(d)
  <2>1. CASE src[k].kind = "absent"
      BY <1>2, <1>3, <2>1, BelowLeaf
  <2> QED BY <1>2, <2>1 DEF Entries
<1>5. entries \in Seq(Dir \cup File) /\ IsFiniteSet(Entries(d))
    BY Listing
<1>6. PICK i \in DOMAIN entries : entries[i] = k
  <2> DEFINE D == 1 .. Cardinality(Entries(d))
  <2>1. entries \in Injection(D, Entries(d))
      BY DEF SetToSeqs, Injection, IsInjective
  <2>2. Cardinality(Entries(d)) \in Nat
      BY <1>5, FS_CardinalityType
  <2>3. Cardinality(D) = Cardinality(Entries(d))
    <3>1. \A c \in Nat : Cardinality(1 .. c) = c
        BY FS_Interval
    <3> QED BY <2>2, <3>1
  <2>4. entries \in Surjection(D, Entries(d))
      BY <1>5, <2>1, <2>3, FS_Injection
  <2> QED BY <1>4, <2>4 DEF Surjection
<1>7. i \in 1 .. Len(AsTasks(entries)) /\ AsTasks(entries)[i] = [do |-> "entry", node |-> k]
  <2>1. AsTasks(entries) \in Seq(Task)
      BY <1>5, PushedTasks
  <2>2. 1 .. Len(AsTasks(entries)) = DOMAIN entries
      BY <2>1, LenProperties DEF AsTasks
  <2> QED BY <1>6, <2>2 DEF AsTasks
<1>8. Remaining(src, AsTasks(entries)[i]) = Below(src, k)
    BY <1>7, RemainingBelow
<1> QED BY <1>2, <1>7, <1>8 DEF Covers

\* A selected file, and whether it is accounted for.
Wanted(f) == f \in File \ history.touched /\ Selected(f) /\ src[f].kind = "file"
Accounted(f) == Busy(f) \/ Copied(f) \/ Covers(src, todo, f)

LEMMA InitComplete == Init => CompleteInv
<1> SUFFICES ASSUME Init PROVE CompleteInv
    OBVIOUS
<1>1. scope \in {Roaming, Personal, Roaming \o Personal} /\ HashInv /\ result = "none" /\ pc = "guard"
    BY DEF Init, HashInv
<1>2. ASSUME NEW f, Selected(f) PROVE Covers(src, todo, f)
  <2>1. PICK i \in DOMAIN scope : Opens(src, scope[i]) /\ f \in Below(src, scope[i][Len(scope[i])])
      BY <1>2 DEF Selected
  <2>2. todo[i] = [do |-> "root", path |-> scope[i]]
      BY DEF Init
  <2>3. todo[i].do = "root" /\ todo[i].path = scope[i]
      BY <2>2
  <2>4. f \in Remaining(src, todo[i])
      BY <2>1, <2>3 DEF Remaining
  <2>5. i \in 1 .. Len(todo)
    <3>1. todo \in Seq(Task)
        BY InitInv DEF MigrationInv, Types
    <3>2. DOMAIN todo = DOMAIN scope
        BY DEF Init
    <3> QED BY <3>1, <3>2, LenProperties
  <2> QED BY <2>4, <2>5 DEF Covers
<1> QED BY <1>1, <1>2 DEF CompleteInv, CoverInv

\* A step that leaves the source, the selection and the touched files alone, and keeps every file
\* accounted for.
LEMMA KeepCover ==
    ASSUME CompleteInv, UNCHANGED <<src, scope>>, history'.touched = history.touched,
           pc' \in Before \cup Copying \/ result' = "ok" => pc \in Before \cup Copying \/ result = "ok",
           \A f \in File : Wanted(f) /\ Accounted(f) => Accounted(f)'
    PROVE  CoverInv'
<1>1. \A f : Selected(f)' = Selected(f)
    BY DEF Selected
<1>2. \A f \in File : Wanted(f)' = Wanted(f)
    BY <1>1 DEF Wanted
<1>3. pc \in Before \cup Copying \/ result = "ok" => \A f \in File : Wanted(f) => Accounted(f)
    BY DEF CompleteInv, CoverInv, Wanted, Accounted
<1>4. pc' \in Before \cup Copying \/ result' = "ok" => \A f \in File : Wanted(f)' => Accounted(f)'
    BY <1>2, <1>3
<1> QED BY <1>4 DEF CoverInv, Wanted, Accounted

\* The step ends the copy.
LEMMA GiveUpComplete ==
    ASSUME CompleteInv, scope' = scope, pc' \in Undoing \cup {"ended"}, result' # "ok"
    PROVE  CompleteInv'
BY DEF CompleteInv, HashInv, CoverInv, Undoing, Before, Copying

\* The step neither copies nor plans.
LEMMA MoveComplete ==
    ASSUME MigrationInv, CompleteInv, UNCHANGED <<src, dst, scope, todo, current, hashed>>,
           history'.touched = history.touched,
           \/ pc' = pc /\ result' = result
           \/ pc' \in {"logStarted", "createTarget", "work"} /\ result' = result
              /\ pc \in Before \cup {"warn"}
           \/ pc = "copy" /\ pc' = "verify" /\ result' = result /\ Len(hashed) = Len(src[current].data)
           \/ pc = "work" /\ pc' = "logSuccess" /\ result' = result /\ todo = <<>>
           \/ pc = "logSuccess" /\ pc' = "ended" /\ result' = "ok"
    PROVE  CompleteInv'
<1>1. HashInv'
  <2>1. CASE pc = "copy" /\ pc' = "verify" /\ Len(hashed) = Len(src[current].data)
    <3>1. hashed \in Seq(Chunk) /\ src[current].data \in Seq(Chunk)
      <4>1. src[current] \in Source
          BY <2>1 DEF MigrationInv, Types, PhaseInv
      <4>2. src[current].data \in Seq(Chunk)
          BY <4>1, EmptySeq, MigrationConstants DEF Source
      <4> QED BY <4>2 DEF MigrationInv, Types
    <3>2. \A i \in 1 .. Len(hashed) : hashed[i] = src[current].data[i]
        BY <2>1, <3>1, LenProperties DEF CompleteInv, HashInv
    <3>3. hashed = src[current].data
        BY <2>1, <3>1, <3>2, SeqEqual
    <3> QED BY <2>1, <3>3 DEF HashInv
  <2>2. CASE pc' = pc
      BY <2>2 DEF HashInv, CompleteInv
  <2>3. CASE pc' \notin {"copy", "verify"}
      BY <2>3 DEF HashInv
  <2> QED BY <2>1, <2>2, <2>3
<1>2. CoverInv'
  <2>1. pc' \in Before \cup Copying \/ result' = "ok" => pc \in Before \cup Copying \/ result = "ok"
      BY DEF Before, Copying
  <2>2. pc \in {"copy", "verify"} => pc' \in {"copy", "verify"}
      BY DEF Before
  <2>3. \A f \in File : Accounted(f) => Accounted(f)'
      BY <2>2 DEF Accounted, Busy, Copied
  <2> QED BY <2>1, <2>3, KeepCover
<1>3. pc' = "logSuccess" \/ result' = "ok" => todo' = <<>>
    BY DEF CompleteInv, MigrationInv, PhaseInv
<1> QED BY <1>1, <1>2, <1>3 DEF CompleteInv

\* A step that appends, removes or creates objects but leaves the plan alone.
LEMMA ObjectsComplete ==
    ASSUME MigrationInv, CompleteInv, UNCHANGED <<src, scope, todo, current, hashed, result>>,
           history'.touched = history.touched,
           pc' = pc \/ (pc = "createTarget" /\ pc' = "warn"),
           \A n \in Node : dst[n].owner = "ours" => dst'[n] = dst[n]
    PROVE  CompleteInv'
<1>1. \A f \in File : Accounted(f) => Accounted(f)'
  <2>1. \A f \in File : Copied(f) => Copied(f)'
    <3>1. \A f \in File : Copied(f) => dst[f].owner = "ours" /\ f \in Node
        BY Constants DEF Copied
    <3> QED BY <3>1 DEF Copied
  <2>2. \A f : Busy(f) => Busy(f)'
      BY DEF Busy
  <2> QED BY <2>1, <2>2 DEF Accounted
<1>2. CoverInv'
    BY <1>1, KeepCover DEF Before, Copying
<1> QED BY <1>2 DEF CompleteInv, HashInv

\* A step that only replaces the first task by others that cover the same files.
LEMMA PlanComplete ==
    ASSUME MigrationInv, CompleteInv, pc = "work", todo # <<>>,
           UNCHANGED <<src, scope, pc, current, hashed, result>>, history'.touched = history.touched,
           \A n \in Node : dst[n].owner = "ours" => dst'[n] = dst[n],
           NEW tasks \in Seq(Task), Rest(tasks),
           \A f \in File : Wanted(f) /\ f \in Remaining(src, Head(todo)) => Covers(src, tasks, f)
    PROVE  CompleteInv'
<1>1. todo \in Seq(Task) /\ Head(todo) = todo[1] /\ todo' = tasks \o Tail(todo)
    BY HeadTask DEF MigrationInv, Types, Rest
<1>2. \A f \in File : Wanted(f) /\ Covers(src, todo, f) => Covers(src, tasks \o Tail(todo), f)
    BY <1>1, PushCovers
<1>3. \A f \in File : Wanted(f) /\ Covers(src, todo, f) => Covers(src, todo, f)'
    BY <1>1, <1>2
<1>4. \A f \in File : Copied(f) => Copied(f)'
  <2>1. \A f \in File : Copied(f) => dst[f].owner = "ours" /\ f \in Node
      BY Constants DEF Copied
  <2> QED BY <2>1 DEF Copied
<1>5. \A f \in File : Wanted(f) /\ Accounted(f) => Accounted(f)'
    BY <1>3, <1>4 DEF Accounted, Busy
<1>6. CoverInv'
    BY <1>5, KeepCover
<1>7. result = "none"
    BY NoLoss DEF Copying
<1> QED BY <1>6, <1>7 DEF CompleteInv, HashInv

\* The last element of a sequence that another one extends.
LEMMA LastOf ==
    ASSUME NEW T, NEW s \in Seq(T), NEW x \in T
    PROVE  Len(s) + 1 \in 1 .. Len(s \o <<x>>) /\ (s \o <<x>>)[Len(s) + 1] = x
<1> DEFINE t == <<x>>
<1>1. t \in Seq(T) /\ Len(t) = 1 /\ t[1] = x
    OBVIOUS
<1> HIDE DEF t
<1>2. /\ Len(s) \in Nat /\ Len(s \o t) = Len(s) + 1
      /\ \A i \in 1 .. Len(s) + 1 : (s \o t)[i] = IF i <= Len(s) THEN s[i] ELSE t[i - Len(s)]
  <2>1. /\ Len(s \o t) = Len(s) + Len(t)
        /\ \A i \in 1 .. Len(s) + Len(t) :
              (s \o t)[i] = IF i <= Len(s) THEN s[i] ELSE t[i - Len(s)]
      BY <1>1, ConcatProperties
  <2>2. Len(s) \in Nat /\ Len(s) + Len(t) = Len(s) + 1
      BY <1>1, LenProperties
  <2> QED BY <2>1, <2>2
<1>3. /\ Len(s) + 1 \in 1 .. Len(s) + 1 /\ ~(Len(s) + 1 <= Len(s)) /\ (Len(s) + 1) - Len(s) = 1
    BY <1>2
<1>4. Len(s) + 1 \in 1 .. Len(s \o t) /\ (s \o t)[Len(s) + 1] = x
    BY <1>1, <1>2, <1>3
<1> QED BY <1>4 DEF t

LEMMA OpenRootComplete == ASSUME MigrationInv, CompleteInv, OpenRoot PROVE CompleteInv'
<1>1. /\ pc = "work" /\ todo # <<>> /\ Head(todo).do = "root"
      /\ UNCHANGED <<src, dst, scope, pc, current, hashed, result, history>>
    BY DEF OpenRoot, Working, file
<1>2. PICK path : path = Head(todo).path
    OBVIOUS
<1>3. path \in Seq(Dir) /\ path # <<>> /\ Len(path) \in DOMAIN path
    BY <1>1, <1>2, HeadTask, FirstTask, RangeFront DEF MigrationInv, Rooted
<1>4. \A f : f \in Remaining(src, Head(todo)) <=> Opens(src, path) /\ f \in Below(src, path[Len(path)])
    BY <1>1, <1>2 DEF Remaining
<1>5. CASE Rest(<<>>) /\ \E i \in DOMAIN path : src[path[i]].kind = "absent"
  <2>1. ~Opens(src, path)
      BY <1>5 DEF Opens
  <2> QED BY <1>1, <1>4, <1>5, <2>1, PushedTasks, PlanComplete
<1>6. CASE Rest([i \in DOMAIN path |-> [do |-> "ensure", node |-> path[i]]]
                   \o <<[do |-> "list", node |-> path[Len(path)]]>>)
  <2> DEFINE ensures == [i \in DOMAIN path |-> [do |-> "ensure", node |-> path[i]]]
             lists == <<[do |-> "list", node |-> path[Len(path)]]>>
  <2>1. ensures \o lists \in Seq(Task) /\ ensures \in Seq(Task) /\ lists \in Seq(Task)
      BY <1>3, PushedTasks, PushParts
  <2>2. /\ Len(ensures) + 1 \in 1 .. Len(ensures \o lists)
        /\ (ensures \o lists)[Len(ensures) + 1] = [do |-> "list", node |-> path[Len(path)]]
    <3>1. [do |-> "list", node |-> path[Len(path)]] \in Task
        BY <1>3, Element DEF Task
    <3> HIDE DEF ensures
    <3> QED BY <2>1, <3>1, LastOf
  <2>3. Remaining(src, (ensures \o lists)[Len(ensures) + 1]) = Below(src, path[Len(path)])
      BY <2>2, RemainingBelow
  <2> HIDE DEF ensures, lists
  <2>4. \A f : f \in Below(src, path[Len(path)]) => Covers(src, ensures \o lists, f)
      BY <2>2, <2>3 DEF Covers
  <2>5. Rest(ensures \o lists)
      BY <1>6 DEF ensures, lists
  <2> QED BY <1>1, <1>4, <2>1, <2>4, <2>5, PlanComplete
<1>7. \/ Rest(<<>>) /\ \E i \in DOMAIN path : src[path[i]].kind = "absent"
      \/ Rest([i \in DOMAIN path |-> [do |-> "ensure", node |-> path[i]]]
                 \o <<[do |-> "list", node |-> path[Len(path)]]>>)
    BY <1>2 DEF OpenRoot
<1> QED BY <1>5, <1>6, <1>7

LEMMA EnsureComplete == ASSUME MigrationInv, CompleteInv, EnsureDirectory PROVE CompleteInv'
<1>1. /\ pc = "work" /\ todo # <<>> /\ Head(todo).do = "ensure" /\ Rest(<<>>)
      /\ UNCHANGED <<src, scope, pc, current, hashed, result, history>>
    BY DEF EnsureDirectory, Working, file
<1>2. \A n \in Node : dst[n].owner = "ours" => dst'[n] = dst[n]
    BY DEF EnsureDirectory, Create, MigrationInv, Types, Nothing
<1>3. Remaining(src, Head(todo)) = {}
    BY <1>1, RemainingEnsure
<1> QED BY <1>1, <1>2, <1>3, PushedTasks, PlanComplete

LEMMA ListComplete == ASSUME MigrationInv, CompleteInv, ListDirectory PROVE CompleteInv'
<1>1. /\ pc = "work" /\ todo # <<>> /\ Head(todo).do = "list"
      /\ UNCHANGED <<src, dst, scope, pc, current, hashed, result, history>>
    BY DEF ListDirectory, Working, file
<1>2. PICK d : d = Head(todo).node
    OBVIOUS
<1>3. PICK entries \in SetToSeqs(Entries(d)) : Rest(AsTasks(entries))
    BY <1>2 DEF ListDirectory
<1>4. d \in Dir
    BY <1>1, <1>2, HeadTask DEF MigrationInv
<1>5. Remaining(src, Head(todo)) = Below(src, d)
    BY <1>1, <1>2 DEF Remaining
<1>6. AsTasks(entries) \in Seq(Task)
    BY <1>4, Listing, PushedTasks DEF MigrationInv
<1>7. \A f \in File : Wanted(f) /\ f \in Remaining(src, Head(todo)) => Covers(src, AsTasks(entries), f)
    BY <1>4, <1>5, EntriesCover DEF MigrationInv, Wanted
<1> QED BY <1>1, <1>3, <1>6, <1>7, PlanComplete

LEMMA EnterComplete == ASSUME MigrationInv, CompleteInv, EnterDirectory PROVE CompleteInv'
<1>1. /\ pc = "work" /\ todo # <<>> /\ Head(todo).do = "entry"
      /\ UNCHANGED <<src, dst, scope, pc, current, hashed, result, history>>
    BY DEF EnterDirectory, Working, file
<1>2. PICK n : n = Head(todo).node
    OBVIOUS
<1> DEFINE tasks == <<[do |-> "ensure", node |-> n], [do |-> "list", node |-> n]>>
<1>3. n \in Dir /\ Rest(tasks) /\ tasks \in Seq(Task)
    BY <1>2, PushedTasks DEF EnterDirectory
<1>4. Remaining(src, Head(todo)) = Below(src, n)
    BY <1>1, <1>2 DEF Remaining
<1>5. 2 \in 1 .. Len(tasks) /\ Remaining(src, tasks[2]) = Below(src, n)
  <2>1. 2 \in 1 .. Len(tasks) /\ tasks[2] = [do |-> "list", node |-> n]
      OBVIOUS
  <2> QED BY <2>1, RemainingBelow
<1> HIDE DEF tasks
<1>6. \A f \in File : Wanted(f) /\ f \in Remaining(src, Head(todo)) => Covers(src, tasks, f)
    BY <1>4, <1>5 DEF Covers
<1> QED BY <1>1, <1>3, <1>6, PlanComplete

LEMMA OpenFileComplete == ASSUME MigrationInv, CompleteInv, OpenFile PROVE CompleteInv'
<1>1. /\ pc = "work" /\ todo # <<>> /\ Head(todo).do = "entry" /\ Rest(<<>>) /\ pc' = "copy"
      /\ current' = Head(todo).node /\ hashed' = <<>> /\ Head(todo).node \in File
      /\ src[Head(todo).node].kind = "file" /\ Create(Head(todo).node)
      /\ UNCHANGED <<src, scope, result, history>>
    BY DEF OpenFile, Working
<1>2. PICK n : n = Head(todo).node
    OBVIOUS
<1>3. todo \in Seq(Task) /\ Head(todo) = todo[1] /\ todo' = <<>> \o Tail(todo)
    BY <1>1, HeadTask DEF MigrationInv, Types, Rest
<1>4. Remaining(src, Head(todo)) \subseteq {n}
  <2>1. Remaining(src, Head(todo)) = Below(src, n)
      BY <1>1, <1>2 DEF Remaining
  <2> QED BY <1>1, <1>2, <2>1, BelowLeaf
<1>5. \A f \in File : f # n /\ Covers(src, todo, f) => Covers(src, <<>> \o Tail(todo), f)
    BY <1>1, <1>3, <1>4, PushCovers, PushedTasks
<1>6. \A f \in File : f # n /\ Covers(src, todo, f) => Covers(src, todo, f)'
    BY <1>1, <1>3, <1>5
<1>7. \A f \in File : f # n /\ Copied(f) => Copied(f)'
    BY <1>1, <1>2, Constants DEF Copied, Create, MigrationInv, Types
<1>8. Busy(n)'
    BY <1>1, <1>2 DEF Busy
<1>9. \A f \in File : Accounted(f) => Accounted(f)'
    BY <1>1, <1>6, <1>7, <1>8 DEF Accounted, Busy
<1>10. CoverInv'
    BY <1>1, <1>9, KeepCover DEF Copying
<1>11. HashInv'
  <2>1. src[n].data \in Seq(Chunk)
    <3>1. src[n] \in Source
        BY <1>1, <1>2 DEF MigrationInv, Types
    <3> QED BY <3>1, EmptySeq, MigrationConstants DEF Source
  <2>2. Len(src'[current'].data) >= 0 /\ Len(hashed') = 0 /\ DOMAIN hashed' = {}
      BY <1>1, <1>2, <2>1, LenProperties
  <2>3. Len(src'[current'].data) \in Nat
      BY <1>1, <1>2, <2>1, LenProperties
  <2> QED BY <1>1, <2>2, <2>3 DEF HashInv
<1>12. result = "none"
    BY <1>1, NoLoss DEF Copying
<1> QED BY <1>1, <1>10, <1>11, <1>12 DEF CompleteInv

LEMMA CopyChunkComplete == ASSUME MigrationInv, CompleteInv, CopyChunk PROVE CompleteInv'
<1>1. /\ pc = "copy" /\ current \in File
      /\ Len(hashed) < Len(src[current].data)
      /\ hashed' = Append(hashed, src[current].data[Len(hashed) + 1])
      /\ UNCHANGED <<src, scope, pc, todo, current, result, history>>
    BY DEF CopyChunk, MigrationInv, PhaseInv
<1>2. hashed \in Seq(Chunk) /\ src[current].data \in Seq(Chunk)
  <2>1. src[current] \in Source
      BY <1>1 DEF MigrationInv, Types
  <2>2. src[current].data \in Seq(Chunk)
      BY <2>1, EmptySeq, MigrationConstants DEF Source
  <2> QED BY <2>2 DEF MigrationInv, Types
<1>3. HashInv'
  <2> DEFINE data == src[current].data
             n == Len(hashed)
  <2>1. n \in Nat /\ Len(data) \in Nat /\ n + 1 <= Len(data) /\ n + 1 \in DOMAIN data
      BY <1>1, <1>2, LenProperties
  <2>2. data[n + 1] \in Chunk
      BY <1>2, <2>1, Element
  <2>3. /\ Len(hashed') = n + 1
        /\ \A i \in DOMAIN hashed' : \/ i \in DOMAIN hashed /\ hashed'[i] = hashed[i]
                                     \/ i = n + 1 /\ hashed'[i] = data[n + 1]
      BY <1>1, <1>2, <2>2, RangeAppend, AppendProperties
  <2>4. \A i \in DOMAIN hashed : hashed[i] = data[i]
      BY <1>1 DEF CompleteInv, HashInv
  <2>5. \A i \in DOMAIN hashed' : hashed'[i] = data[i]
      BY <2>3, <2>4
  <2> QED BY <1>1, <2>1, <2>3, <2>5 DEF HashInv
<1>4. \A m \in Node : m # current => dst'[m] = dst[m]
    BY DEF CopyChunk, MigrationInv, Types
<1>5. \A f \in File : Accounted(f) => Accounted(f)'
  <2>1. Busy(current)'
      BY <1>1 DEF Busy
  <2>2. \A f \in File : f # current /\ Copied(f) => Copied(f)'
      BY <1>1, <1>4, Constants DEF Copied
  <2> QED BY <1>1, <2>1, <2>2 DEF Accounted, Busy
<1>6. CoverInv'
    BY <1>1, <1>5, KeepCover
<1> QED BY <1>1, <1>3, <1>6 DEF CompleteInv

LEMMA VerifiedComplete == ASSUME MigrationInv, CompleteInv, Verified PROVE CompleteInv'
<1>1. /\ pc = "verify" /\ pc' = "work" /\ current \in File /\ dst[current].owner = "ours"
      /\ dst[current].data = hashed /\ hashed = src[current].data
      /\ UNCHANGED <<src, dst, scope, todo, current, hashed, result, history>>
    BY DEF Verified, Matches, MigrationInv, PhaseInv, CompleteInv, HashInv, file
<1>2. Copied(current)
  <2>1. dst[current] \in Object
      BY <1>1, Constants DEF MigrationInv, Types, Nothing
  <2> QED BY <1>1, <2>1 DEF Object, Copied
<1>3. \A f \in File : Copied(f) => Copied(f)'
    BY <1>1 DEF Copied
<1>4. \A f \in File : Accounted(f) => Accounted(f)'
    BY <1>1, <1>2, <1>3 DEF Accounted, Busy
<1>5. CoverInv'
    BY <1>1, <1>4, KeepCover DEF Copying
<1>6. result = "none"
    BY <1>1, NoLoss DEF Copying
<1> QED BY <1>1, <1>5, <1>6 DEF CompleteInv, HashInv

LEMMA ChangeSourceComplete == ASSUME MigrationInv, CompleteInv, ChangeSource PROVE CompleteInv'
<1>1. UNCHANGED <<dst, pc, scope, todo, current, hashed, result>>
    BY DEF ChangeSource, file
<1>2. PICK g \in File : /\ ~(g = current /\ pc \in {"copy", "verify"})
                        /\ \E s \in Source : src' = [src EXCEPT ![g] = s]
                        /\ history' = [history EXCEPT !.touched = @ \cup {g}]
    BY DEF ChangeSource
<1>3. /\ history'.touched = history.touched \cup {g}
      /\ \A n \in Dir \cup File : n # g => src'[n] = src[n]
    BY <1>2 DEF MigrationInv, Types
<1>4. /\ \A n : Below(src', n) = Below(src, n)
      /\ \A path \in Seq(Dir) : Opens(src', path) = Opens(src, path)
      /\ \A task \in Task : Remaining(src', task) = Remaining(src, task)
  <2>1. \A d \in Dir : src'[d] = src[d]
      BY <1>3, Constants
  <2> QED BY <2>1, SameBelow
<1>5. \A f : Selected(f)' => Selected(f)
  <2>1. \A i \in DOMAIN scope : scope[i] \in Seq(Dir)
      BY Scopes, Element DEF CompleteInv
  <2> QED BY <1>1, <1>4, <2>1 DEF Selected
<1>6. \A f : Covers(src, todo, f) => Covers(src', todo, f)
  <2>1. \A i \in 1 .. Len(todo) : todo[i] \in Task
      BY ElementOfSeq DEF MigrationInv, Types
  <2> QED BY <1>4, <2>1 DEF Covers
<1>7. \A f : Covers(src, todo, f) => Covers(src, todo, f)'
    BY <1>1, <1>6
<1>8. \A f \in File : Wanted(f)' => Wanted(f) /\ f # g
    BY <1>3, <1>5 DEF Wanted
<1>9. \A f \in File : f # g /\ Accounted(f) => Accounted(f)'
  <2>1. \A f \in File : f # g /\ Copied(f) => Copied(f)'
      BY <1>1, <1>3 DEF Copied
  <2> QED BY <1>1, <1>7, <2>1 DEF Accounted, Busy
<1>10. CoverInv'
  <2>1. pc \in Before \cup Copying \/ result = "ok" => \A f \in File : Wanted(f) => Accounted(f)
      BY DEF CompleteInv, CoverInv, Wanted, Accounted
  <2>2. pc' \in Before \cup Copying \/ result' = "ok" => \A f \in File : Wanted(f)' => Accounted(f)'
      BY <1>1, <1>8, <1>9, <2>1
  <2> QED BY <2>2 DEF CoverInv, Wanted, Accounted
<1>11. HashInv'
  <2>1. pc \in {"copy", "verify"} => current \in File /\ src'[current] = src[current]
      BY <1>2, <1>3 DEF MigrationInv, PhaseInv
  <2> QED BY <1>1, <2>1 DEF HashInv, CompleteInv
<1> QED BY <1>1, <1>10, <1>11 DEF CompleteInv

LEMMA ForeignComplete == ASSUME MigrationInv, CompleteInv, Foreign PROVE CompleteInv'
<1>1. \A n \in Node : dst[n].owner = "ours" => dst'[n] = dst[n]
    BY DEF Foreign, MigrationInv, Types, Nothing
<1> QED BY <1>1, ObjectsComplete DEF Foreign, file

LEMMA CreateTargetComplete == ASSUME MigrationInv, CompleteInv, CreateTarget PROVE CompleteInv'
<1>1. \A n \in Node : dst[n].owner = "ours" => dst'[n] = dst[n]
    BY DEF CreateTarget, Create, MigrationInv, Types, Nothing
<1> QED BY <1>1, ObjectsComplete DEF CreateTarget, file

LEMMA CancelComplete == ASSUME MigrationInv, CompleteInv, Cancel PROVE CompleteInv'
<1>1. history'.touched = history.touched
    BY DEF Cancel, MigrationInv, Types
<1> QED BY <1>1, MoveComplete DEF Cancel, file

\* Logging is moving on, or giving up.
LEMMA LogComplete ==
    ASSUME MigrationInv, CompleteInv, LogStarted \/ Warn \/ LogSuccess \/ LogRollback
    PROVE  CompleteInv'
<1>1. UNCHANGED <<src, dst, scope, todo, current, hashed>>
    BY DEF LogStarted, Warn, LogSuccess, LogRollback, file
<1>2. history'.touched = history.touched
    BY DEF LogStarted, Warn, LogSuccess, LogRollback, LogFails, MigrationInv, Types
<1>3. \/ pc' \in {"createTarget", "work"} /\ result' = result /\ pc \in Before \cup {"warn"}
      \/ pc = "logSuccess" /\ pc' = "ended" /\ result' = "ok"
      \/ pc' \in {"rollback", "ended"} /\ result' # "ok"
  <2>1. pc \in {"warn", "logSuccess"} => result = "none"
      BY NoLoss DEF Copying
  <2> QED BY <2>1 DEF LogStarted, Warn, LogSuccess, LogRollback, Return, Fail, Before
<1> QED BY <1>1, <1>2, <1>3, MoveComplete, GiveUpComplete DEF Undoing

LEMMA StepComplete == MigrationInv /\ CompleteInv /\ [Next]_vars => CompleteInv'
<1> SUFFICES ASSUME MigrationInv, CompleteInv, [Next]_vars PROVE CompleteInv'
    OBVIOUS
<1>1. CASE Validate \/ EndOfFile \/ ReadBack \/ Finalize
    BY <1>1, MoveComplete DEF Validate, EndOfFile, ReadBack, Finalize, file, Before
<1>2. CASE Refuse
    BY <1>2, GiveUpComplete DEF Refuse, Return
<1>3. CASE Stop \/ Fault \/ CreateTargetFails
  <2>1. pc \in Before \cup Copying
      BY <1>3 DEF Stop, Stopped, Working, Fault, CreateTargetFails, Before, Copying
  <2>2. result = "none"
      BY <2>1, NoLoss
  <2>3. pc' = "rollback" /\ UNCHANGED <<scope, result>>
      BY <1>3 DEF Stop, Fault, CreateTargetFails, CreateFails, Fail
  <2> QED BY <2>2, <2>3, GiveUpComplete DEF Undoing
<1>4. CASE RemoveCreated \/ RollbackEnds
  <2>1. result = "none"
      BY <1>4 DEF RemoveCreated, RollbackEnds, MigrationInv, PhaseInv
  <2>2. pc' \in Undoing /\ UNCHANGED <<scope, result>>
      BY <1>4 DEF RemoveCreated, RollbackEnds, Undoing
  <2> QED BY <2>1, <2>2, GiveUpComplete
<1>5. CASE UNCHANGED vars
    BY <1>5, MoveComplete DEF vars, file
<1> QED BY <1>1, <1>2, <1>3, <1>4, <1>5, LogComplete, CreateTargetComplete, OpenRootComplete,
           EnsureComplete, ListComplete, EnterComplete, OpenFileComplete, CopyChunkComplete,
           VerifiedComplete, CancelComplete, ForeignComplete, ChangeSourceComplete
           DEF Next, Worker

-----------------------------------------------------------------------------
(* Progress. *)

Line == [file : File, data : Seq(Chunk)]

\* A set of naturals that is not empty has a least element.
LEMMA LeastNatural ==
    ASSUME NEW T, T \subseteq Nat, T # {}
    PROVE  \E x \in T : x \in Nat /\ \A y \in T : x <= y
<1>1. IsWellFoundedOn(OpToRel(<, Nat), Nat)
    BY NatLessThanWellFounded
<1>2. PICK x \in T : \A y \in T : ~ (<<y, x>> \in OpToRel(<, Nat))
    BY <1>1, WFMin
<1>3. x \in Nat /\ \A y \in T : y \in Nat
    OBVIOUS
<1>4. \A y \in T : ~ (y < x)
    BY <1>2, <1>3, Zenon DEF OpToRel
<1>5. ASSUME NEW y \in T PROVE x <= y
  <2>1. ~ (y < x) /\ y \in Nat
      BY <1>3, <1>4
  <2> QED BY <1>3, <2>1
<1> QED BY <1>3, <1>5

\* A set that holds 0, and each k up to n with k - 1, holds them all.
LEMMA UpTo ==
    ASSUME NEW n \in Nat, NEW G, 0 \in G, \A k \in 1 .. n : k - 1 \in G => k \in G
    PROVE  \A k \in 0 .. n : k \in G
<1> SUFFICES ASSUME NEW k \in 0 .. n, k \notin G PROVE FALSE
    OBVIOUS
<1> DEFINE T == {i \in 0 .. n : i \notin G}
<1>1. T \subseteq Nat /\ T # {}
    OBVIOUS
<1>2. PICK x \in T : x \in Nat /\ \A y \in T : x <= y
    BY <1>1, LeastNatural
<1>3. x \in 1 .. n /\ x \notin G
    BY <1>2
<1>4. x - 1 \in G
  <2>1. x - 1 \in 0 .. n /\ ~ (x <= x - 1)
      BY <1>3
  <2> QED BY <1>2, <2>1
<1> QED BY <1>3, <1>4

\* f holds the bytes of each of the manifest's first n beginnings.
Sums(f, s, n) == f[0] = 0 /\ \A k \in 1 .. n : f[k] = f[k - 1] + Len(s[k].data)

LEMMA SumsUnique ==
    ASSUME NEW n \in Nat, NEW s, NEW f, NEW g, Sums(f, s, n), Sums(g, s, n)
    PROVE  \A k \in 0 .. n : f[k] = g[k]
<1> DEFINE G == {k \in 0 .. n : f[k] = g[k]}
<1>1. 0 \in G
    BY DEF Sums
<1>2. \A k \in 1 .. n : k - 1 \in G => k \in G
    BY DEF Sums
<1> HIDE DEF G
<1>3. \A k \in 0 .. n : k \in G
    BY <1>1, <1>2, UpTo
<1> QED BY <1>3 DEF G

LEMMA SumsExist ==
    ASSUME NEW s \in Seq(Line)
    PROVE  \E f \in [0 .. Len(s) -> Nat] : Sums(f, s, Len(s))
<1>1. Len(s) \in Nat /\ \A k \in 1 .. Len(s) : Len(s[k].data) \in Nat
  <2>1. Len(s) \in Nat /\ \A k \in 1 .. Len(s) : s[k] \in Line
      BY LenProperties, ElementOfSeq
  <2>2. \A x \in Line : x.data \in Seq(Chunk)
      BY DEF Line
  <2> QED BY <2>1, <2>2, LenProperties
<1> DEFINE G == {n \in 0 .. Len(s) : \E f \in [0 .. n -> Nat] : Sums(f, s, n)}
<1>2. 0 \in G
  <2> DEFINE f == [k \in 0 .. 0 |-> 0]
  <2>1. f \in [0 .. 0 -> Nat] /\ Sums(f, s, 0)
      BY DEF Sums
  <2> QED BY <1>1, <2>1
<1>3. ASSUME NEW n \in 1 .. Len(s), n - 1 \in G PROVE n \in G
  <2>1. PICK f \in [0 .. n - 1 -> Nat] : Sums(f, s, n - 1)
      BY <1>3
  <2>2. PICK size : size = Len(s[n].data)
      OBVIOUS
  <2>3. n \in Nat /\ n - 1 \in 0 .. n - 1 /\ f[n - 1] + size \in Nat
      BY <1>1, <2>1, <2>2
  <2> DEFINE g == [k \in 0 .. n |-> IF k = n THEN f[n - 1] + size ELSE f[k]]
  <2>4. g \in [0 .. n -> Nat]
      BY <2>1, <2>3
  <2>5. g[0] = 0 /\ g[n] = f[n - 1] + size /\ \A k \in 0 .. n - 1 : g[k] = f[k]
      BY <2>1, <2>3 DEF Sums
  <2> HIDE DEF g
  <2>6. ASSUME NEW k \in 1 .. n PROVE g[k] = g[k - 1] + Len(s[k].data)
    <3>1. CASE k = n
        BY <2>2, <2>3, <2>5, <3>1
    <3>2. CASE k # n
      <4>1. k \in 1 .. n - 1 /\ k \in 0 .. n - 1 /\ k - 1 \in 0 .. n - 1
          BY <2>3, <3>2
      <4> QED BY <2>1, <2>5, <4>1 DEF Sums
    <3> QED BY <3>1, <3>2
  <2>7. Sums(g, s, n)
      BY <2>5, <2>6 DEF Sums
  <2>8. n \in 0 .. Len(s)
      BY <1>1
  <2> QED BY <2>4, <2>7, <2>8
<1> HIDE DEF G
<1>4. Len(s) \in G
  <2>1. \A n \in 1 .. Len(s) : n - 1 \in G => n \in G
      BY <1>3
  <2>2. Len(s) \in Nat /\ Len(s) \in 0 .. Len(s)
      BY <1>1
  <2> QED BY <1>2, <2>1, <2>2, UpTo
<1> QED BY <1>4 DEF G

\* TotalBytes is the last of the sums.
LEMMA TotalMeaning ==
    ASSUME NEW s \in Seq(Line), NEW f, Sums(f, s, Len(s))
    PROVE  TotalBytes(s) = f[Len(s)] /\ TotalBytes(s) \in Nat
<1>1. Len(s) \in Nat
    BY LenProperties
<1> DEFINE Is(h) == h = [n \in 0 .. Len(s) |-> IF n = 0 THEN 0 ELSE h[n - 1] + Len(s[n].data)]
           total == CHOOSE h : Is(h)
<1>2. PICK g \in [0 .. Len(s) -> Nat] : Sums(g, s, Len(s))
    BY SumsExist
<1>3. Is(g)
    BY <1>1, <1>2 DEF Sums
<1>4. Is(total)
  <2> HIDE DEF Is
  <2> QED BY <1>3
<1>5. TotalBytes(s) = total[Len(s)]
    BY DEF TotalBytes
<1> HIDE DEF total
<1>6. Sums(total, s, Len(s))
    BY <1>1, <1>4 DEF Sums
<1> HIDE DEF Is
<1>7. total[Len(s)] = g[Len(s)] /\ f[Len(s)] = g[Len(s)]
    BY <1>1, <1>2, <1>6, SumsUnique
<1> QED BY <1>1, <1>2, <1>5, <1>7

LEMMA TotalAppend ==
    ASSUME NEW s \in Seq(Line), NEW x \in Line
    PROVE  TotalBytes(Append(s, x)) = TotalBytes(s) + Len(x.data) /\ TotalBytes(s) \in Nat
<1> DEFINE t == Append(s, x)
<1>1. /\ t \in Seq(Line) /\ Len(s) \in Nat /\ Len(t) = Len(s) + 1
      /\ \A i \in 1 .. Len(s) : t[i] = s[i]
      /\ t[Len(s) + 1] = x
    BY AppendProperties, LenProperties
<1> HIDE DEF t
<1>2. PICK f : Sums(f, t, Len(t))
    BY <1>1, SumsExist
<1>3. Sums(f, s, Len(s))
    BY <1>1, <1>2 DEF Sums
<1>4. TotalBytes(t) = f[Len(t)] /\ TotalBytes(s) = f[Len(s)] /\ TotalBytes(s) \in Nat
    BY <1>1, <1>2, <1>3, TotalMeaning
<1>5. f[Len(s) + 1] = f[Len(s)] + Len(x.data)
    BY <1>1, <1>2 DEF Sums
<1> QED BY <1>1, <1>4, <1>5 DEF t

\* The total is a natural number.
LEMMA TotalType == ASSUME NEW s \in Seq(Line) PROVE TotalBytes(s) \in Nat
<1>1. PICK f : Sums(f, s, Len(s))
    BY SumsExist
<1> QED BY <1>1, TotalMeaning

\* What was reported so far is covered by the manifest and the file being copied; between two files
\* the manifest alone covers it.
ProgressInv ==
    LET total == TotalBytes(manifest) IN
    /\ observed \in Nat /\ base \in Nat /\ report \in [files : Nat, bytes : Nat]
    /\ report.files <= Len(manifest)
    /\ report.bytes <= total \/ report.bytes <= observed
    /\ pc \in Before \cup {"warn"} => observed = 0 /\ report.bytes = 0
    /\ pc \in {"work", "logSuccess"} => observed <= total /\ report.bytes <= total
    /\ pc \in {"copy", "verify"} =>
          /\ base = total
          /\ observed <= base + Len(hashed) /\ report.bytes <= base + Len(hashed)

Grows == report'.files >= report.files /\ report'.bytes >= report.bytes

\* Reports and counters that stay as they are, at the same place or at one that asks for less.
LEMMA QuietProgress ==
    ASSUME ProgressInv, UNCHANGED <<manifest, observed, base, hashed, report>>,
           \/ UNCHANGED pc
           \/ pc \in Before /\ pc' \in Before \cup {"warn"}
           \/ pc' \in Undoing \cup {"ended"}
    PROVE  ProgressInv' /\ Grows
<1>1. Grows
    BY DEF ProgressInv, Grows
<1>2. PICK t : t = TotalBytes(manifest)
    OBVIOUS
<1>3. /\ t = TotalBytes(manifest') /\ manifest' = manifest /\ observed' = observed /\ base' = base
      /\ hashed' = hashed /\ report' = report
    BY <1>2
<1>4. CASE pc' = pc
    BY <1>1, <1>2, <1>3, <1>4 DEF ProgressInv
<1>5. CASE pc \in Before /\ pc' \in Before \cup {"warn"}
    BY <1>1, <1>2, <1>3, <1>5 DEF ProgressInv, Before
<1>6. CASE pc' \in Undoing \cup {"ended"}
    BY <1>1, <1>2, <1>3, <1>6 DEF ProgressInv, Before, Undoing
<1> QED BY <1>1, <1>4, <1>5, <1>6

\* A report of the manifest with these bytes.
LEMMA Reports ==
    ASSUME MigrationInv, ProgressInv, NEW bytes \in Nat, Report(bytes), report.bytes <= bytes
    PROVE  /\ report'.files = Len(manifest) /\ report'.bytes = bytes /\ report' \in [files : Nat, bytes : Nat]
           /\ Grows
<1>1. Len(manifest) \in Nat
    BY LenProperties DEF MigrationInv, Types
<1> QED BY <1>1 DEF Report, ProgressInv, Grows

\* The bytes copied are no less than what was reported.
LEMMA CopiedCovers ==
    ASSUME MigrationInv, ProgressInv
    PROVE  /\ TotalBytes(manifest) \in Nat /\ CopiedBytes \in Nat /\ report.bytes <= CopiedBytes
           /\ CopiedBytes \in {observed, TotalBytes(manifest)}
<1>1. TotalBytes(manifest) \in Nat
    BY TotalType DEF MigrationInv, Types, Line
<1> QED BY <1>1 DEF ProgressInv, CopiedBytes

\* Giving up reports what was copied.
LEMMA FailProgress ==
    ASSUME MigrationInv, ProgressInv, Fail, UNCHANGED <<manifest, observed, base, hashed>>
    PROVE  ProgressInv' /\ Grows
<1>1. /\ report'.files = Len(manifest) /\ report'.bytes = CopiedBytes
      /\ report' \in [files : Nat, bytes : Nat] /\ Grows
    BY CopiedCovers, Reports DEF Fail
<1>2. Len(manifest) \in Nat
    BY LenProperties DEF MigrationInv, Types
<1>3. pc' = "rollback"
    BY DEF Fail
<1> QED BY <1>1, <1>2, <1>3, CopiedCovers DEF ProgressInv, Before

LEMMA WarnProgress == ASSUME MigrationInv, ProgressInv, Warn PROVE ProgressInv' /\ Grows
<1>1. pc = "warn" /\ UNCHANGED <<manifest, observed, base, hashed>>
    BY DEF Warn, transaction, file
<1>2. CASE Fail
    BY <1>1, <1>2, FailProgress
<1>3. CASE pc' = "work" /\ Report(0)
  <2>1. report.bytes = 0 /\ observed = 0
      BY <1>1 DEF ProgressInv
  <2>2. report'.files = Len(manifest) /\ report'.bytes = 0 /\ report' \in [files : Nat, bytes : Nat] /\ Grows
      BY <1>3, <2>1, Reports
  <2>3. Len(manifest) \in Nat /\ TotalBytes(manifest) \in Nat
      BY CopiedCovers, LenProperties DEF MigrationInv, Types
  <2> QED BY <1>1, <1>3, <2>1, <2>2, <2>3 DEF ProgressInv, Before
<1> QED BY <1>2, <1>3 DEF Warn

LEMMA OpenFileProgress == ASSUME MigrationInv, ProgressInv, OpenFile PROVE ProgressInv' /\ Grows
<1>1. /\ pc = "work" /\ pc' = "copy" /\ hashed' = <<>> /\ base' = CopiedBytes
      /\ UNCHANGED <<manifest, observed, report>>
    BY DEF OpenFile, Working
<1>2. observed <= TotalBytes(manifest) /\ report.bytes <= TotalBytes(manifest) /\ observed \in Nat
    BY <1>1 DEF ProgressInv
<1>3. TotalBytes(manifest) \in Nat /\ base' = TotalBytes(manifest) /\ Len(hashed') = 0
    BY <1>1, <1>2, CopiedCovers DEF CopiedBytes
<1> QED BY <1>1, <1>2, <1>3 DEF ProgressInv, Before, Grows

LEMMA CopyChunkProgress == ASSUME MigrationInv, ProgressInv, CopyChunk PROVE ProgressInv' /\ Grows
<1>1. PICK bytes : bytes = base + Len(hashed) + 1
    OBVIOUS
<1>2. /\ pc = "copy" /\ observed' = bytes /\ Report(bytes)
      /\ UNCHANGED <<pc, manifest, base>>
      /\ hashed' = Append(hashed, src[current].data[Len(hashed) + 1])
    BY <1>1 DEF CopyChunk
<1>3. /\ hashed \in Seq(Chunk) /\ Len(hashed) \in Nat /\ Len(manifest) \in Nat /\ base \in Nat
      /\ hashed' \in Seq(Chunk)
  <2>1. hashed \in Seq(Chunk) /\ manifest \in Seq([file : File, data : Seq(Chunk)])
      BY DEF MigrationInv, Types
  <2>2. hashed' \in Seq(Chunk)
      BY CopyChunkInv DEF MigrationInv, Types
  <2> QED BY <2>1, <2>2, LenProperties DEF ProgressInv
<1>4. Len(hashed') = Len(hashed) + 1
    BY <1>2, <1>3
<1>5. /\ base = TotalBytes(manifest) /\ report.bytes <= base + Len(hashed) /\ report.bytes \in Nat
      /\ bytes \in Nat /\ report.bytes <= bytes
    BY <1>1, <1>2, <1>3 DEF ProgressInv
<1>6. report'.files = Len(manifest) /\ report'.bytes = bytes /\ report' \in [files : Nat, bytes : Nat] /\ Grows
    BY <1>2, <1>5, Reports
<1> QED BY <1>1, <1>2, <1>3, <1>4, <1>5, <1>6 DEF ProgressInv, Before

LEMMA EndOfFileProgress == ASSUME MigrationInv, ProgressInv, EndOfFile PROVE ProgressInv' /\ Grows
<1>1. /\ pc = "copy" /\ pc' = "verify" /\ Report(CopiedBytes)
      /\ UNCHANGED <<manifest, observed, base, hashed>>
    BY DEF EndOfFile, transaction, file
<1>2. report'.files = Len(manifest) /\ report'.bytes = CopiedBytes /\ report' \in [files : Nat, bytes : Nat] /\ Grows
    BY <1>1, CopiedCovers, Reports
<1>3. Len(manifest) \in Nat /\ Len(hashed) \in Nat
    BY LenProperties DEF MigrationInv, Types
<1> QED BY <1>1, <1>2, <1>3, CopiedCovers DEF ProgressInv, Before

LEMMA VerifiedProgress == ASSUME MigrationInv, ProgressInv, Verified PROVE ProgressInv' /\ Grows
<1>1. PICK x : x = [file |-> current, data |-> hashed]
    OBVIOUS
<1>2. /\ pc = "verify" /\ pc' = "work" /\ manifest' = Append(manifest, x)
      /\ UNCHANGED <<observed, base, hashed, report>>
    BY <1>1 DEF Verified, file
<1>3. x \in Line /\ x.data = hashed /\ manifest \in Seq(Line) /\ hashed \in Seq(Chunk)
    BY <1>1, <1>2 DEF MigrationInv, Types, PhaseInv, Line
<1>4. TotalBytes(manifest') = TotalBytes(manifest) + Len(hashed) /\ TotalBytes(manifest) \in Nat
    BY <1>2, <1>3, TotalAppend
<1>5. Len(manifest') = Len(manifest) + 1 /\ Len(manifest) \in Nat /\ Len(hashed) \in Nat
    BY <1>2, <1>3, AppendProperties, LenProperties
<1> QED BY <1>2, <1>4, <1>5 DEF ProgressInv, Before, Grows

LEMMA FinalizeProgress == ASSUME MigrationInv, ProgressInv, Finalize PROVE ProgressInv' /\ Grows
<1>1. /\ pc = "work" /\ pc' = "logSuccess" /\ Report(TotalBytes(manifest))
      /\ UNCHANGED <<manifest, observed, base, hashed>>
    BY DEF Finalize, transaction, file
<1>2. TotalBytes(manifest) \in Nat /\ report.bytes <= TotalBytes(manifest) /\ observed <= TotalBytes(manifest)
    BY <1>1, CopiedCovers DEF ProgressInv
<1>3. report'.files = Len(manifest) /\ report'.bytes = TotalBytes(manifest)
      /\ report' \in [files : Nat, bytes : Nat] /\ Grows
    BY <1>1, <1>2, Reports
<1>4. Len(manifest) \in Nat
    BY LenProperties DEF MigrationInv, Types
<1> QED BY <1>1, <1>2, <1>3, <1>4 DEF ProgressInv, Before

LEMMA StepProgress == MigrationInv /\ ProgressInv /\ [Next]_vars => ProgressInv' /\ Grows
<1> SUFFICES ASSUME MigrationInv, ProgressInv, [Next]_vars PROVE ProgressInv' /\ Grows
    OBVIOUS
<1>1. CASE Stop \/ Fault \/ CreateTargetFails
  <2>1. UNCHANGED <<manifest, observed, base, hashed>>
      BY <1>1 DEF Stop, Fault, CreateTargetFails, transaction, file
  <2>2. Fail
      BY <1>1 DEF Stop, Fault, CreateTargetFails, CreateFails
  <2> QED BY <2>1, <2>2, FailProgress
<1>2. CASE LogSuccess
  <2>1. UNCHANGED <<manifest, observed, base, hashed>>
      BY <1>2 DEF LogSuccess, transaction, file
  <2>2. CASE Fail
      BY <2>1, <2>2, FailProgress
  <2>3. CASE pc' = "ended" /\ UNCHANGED report
      BY <2>1, <2>3, QuietProgress
  <2> QED BY <1>2, <2>2, <2>3 DEF LogSuccess, Return
<1>3. CASE Validate \/ Refuse \/ LogStarted \/ CreateTarget
    BY <1>3, QuietProgress DEF Validate, Refuse, LogStarted, CreateTarget, Return, transaction, file,
                               Before, Undoing
<1>4. CASE OpenRoot \/ EnsureDirectory \/ ListDirectory \/ EnterDirectory \/ ReadBack \/ Cancel
           \/ Foreign \/ ChangeSource \/ UNCHANGED vars
    BY <1>4, QuietProgress DEF OpenRoot, EnsureDirectory, ListDirectory, EnterDirectory, ReadBack,
                               Cancel, Foreign, ChangeSource, vars, transaction, file
<1>5. CASE RemoveCreated \/ RollbackEnds \/ LogRollback
    BY <1>5, QuietProgress DEF RemoveCreated, RollbackEnds, LogRollback, Return, transaction, file, Undoing
<1> QED BY <1>1, <1>2, <1>3, <1>4, <1>5, WarnProgress, OpenFileProgress, CopyChunkProgress,
           EndOfFileProgress, VerifiedProgress, FinalizeProgress DEF Next, Worker

LEMMA InitProgress == Init => ProgressInv
<1> SUFFICES ASSUME Init PROVE ProgressInv
    OBVIOUS
<1>1. /\ manifest = <<>> /\ observed = 0 /\ base = 0 /\ pc = "guard" /\ report = [files |-> 0, bytes |-> 0]
    BY DEF Init
<1>2. TotalBytes(manifest) \in Nat /\ Len(manifest) = 0
    BY <1>1, TotalType, EmptySeq
<1> QED BY <1>1, <1>2 DEF ProgressInv, Before

-----------------------------------------------------------------------------
(* The theorems. *)

\* In every reachable state of a migration the plan, the two trees, the transaction and the
\* journal fit together.
THEOREM Invariance == Spec => []MigrationInv
BY InitInv, StepInv, PTL DEF Spec

\* Whatever the tree and wherever it fails or is cancelled, a migration that returns an ordinary
\* error leaves nothing it created (CopyTransaction::rollback), but for a target directory whose
\* own creation was half done.
THEOREM RollbackRemovesOurs == Spec => []RolledBackIsGone
<1>1. MigrationInv => RolledBackIsGone
  <2>1. SUFFICES ASSUME MigrationInv, result = "error", NEW n \in Node, dst[n].owner = "ours"
                 PROVE  n = Target /\ Target \in history.orphan
      BY DEF RolledBackIsGone
  <2>2. created = <<>> /\ Range(created) = {} /\ ~failures
      BY <2>1 DEF MigrationInv, PhaseInv, Range
  <2> QED BY <2>1, <2>2 DEF MigrationInv, CreatedInv, OrphanInv
<1> QED BY <1>1, Invariance, PTL

\* A cancellation that arrives before the last check of the token is never answered by success.
THEOREM CancelIsHonoured == Spec => []CancelHonoured
<1>1. MigrationInv => CancelHonoured
    BY DEF MigrationInv, CancelInv, CancelHonoured
<1> QED BY <1>1, Invariance, PTL

\* The last event of the journal names what the migration returned, unless a journal write failed.
THEOREM JournalNamesOutcome == Spec => []JournalTellsOutcome
<1>1. MigrationInv => JournalTellsOutcome
    BY DEF MigrationInv, JournalInv
<1> QED BY <1>1, Invariance, PTL

\* A successful migration is complete and verified, whatever the tree and its changes: every
\* selected file that nobody changed has an exact copy of our own, and every line of the manifest
\* is true of the copy it names (copy_tree_verified, copy_file_verified).
THEOREM SuccessComplete == Spec => []SuccessIsComplete
<1>1. MigrationInv /\ CompleteInv => SuccessIsComplete
  <2>1. SUFFICES ASSUME MigrationInv, CompleteInv, result = "ok"
                 PROVE  /\ \A f \in File : Wanted(f) => Copied(f)
                        /\ ManifestIsTrue
      BY DEF SuccessIsComplete, ManifestIsTrue, Wanted, Copied
  <2>2. pc = "ended" /\ todo = <<>>
      BY <2>1 DEF MigrationInv, PhaseInv, CompleteInv
  <2>3. \A f : ~Covers(src, todo, f)
    <3>1. 1 .. Len(todo) = {}
        BY <2>2
    <3> QED BY <3>1 DEF Covers
  <2>4. \A f \in File : Wanted(f) => Copied(f)
      BY <2>1, <2>2, <2>3 DEF CompleteInv, CoverInv, Wanted, Busy
  <2> QED BY <2>1, <2>4 DEF MigrationInv, ManifestInv
<1>2. Spec => []CompleteInv
    BY InitComplete, StepComplete, Invariance, PTL DEF Spec
<1> QED BY <1>1, <1>2, Invariance, PTL

\* No step of a migration, its rollback included, changes or removes an object of other software.
THEOREM ForeignObjectsKept == Spec => ForeignKept
<1>1. MigrationInv /\ [Next]_vars => [\A n \in Node : dst[n].owner = "foreign" => dst'[n] = dst[n]]_vars
  <2>1. SUFFICES ASSUME MigrationInv, Next, NEW n \in Node, dst[n].owner = "foreign", dst'[n] # dst[n]
                 PROVE  FALSE
      OBVIOUS
  <2>2. dst \in [Node -> Object \cup {Nothing}] /\ Nothing.owner = "none" /\ dst[n] # Nothing
      BY <2>1 DEF MigrationInv, Types, Nothing
  <2>3. CASE \E m : dst[m] = Nothing /\ \E o : dst' = [dst EXCEPT ![m] = o]
      BY <2>1, <2>2, <2>3
  <2>4. CASE CopyChunk
    <3>1. dst[current].owner = "ours" /\ \E o : dst' = [dst EXCEPT ![current] = o]
        BY <2>1, <2>4 DEF CopyChunk, MigrationInv, PhaseInv
    <3> QED BY <2>1, <2>2, <3>1
  <2>5. CASE RemoveCreated
    <3>1. created # <<>> => Len(created) \in DOMAIN created
        BY <2>1, RangeFront DEF MigrationInv, Types
    <3>2. dst[created[Len(created)]].owner = "ours"
        BY <2>1, <2>5, <3>1 DEF RemoveCreated, MigrationInv, CreatedInv
    <3>3. \E o : dst' = [dst EXCEPT ![created[Len(created)]] = o]
        BY <2>1, <2>5 DEF RemoveCreated
    <3> QED BY <2>1, <2>2, <3>2, <3>3
  <2>6. CASE Validate \/ Refuse \/ LogStarted \/ Warn \/ OpenRoot \/ ListDirectory
             \/ EnterDirectory \/ EndOfFile \/ ReadBack \/ Verified \/ Finalize \/ LogSuccess
             \/ Stop \/ RollbackEnds \/ LogRollback \/ Cancel \/ ChangeSource
      BY <2>1, <2>6 DEF Validate, Refuse, LogStarted, Warn, OpenRoot, ListDirectory, EnterDirectory,
                        EndOfFile, ReadBack, Verified, Finalize, LogSuccess, Stop, RollbackEnds,
                        LogRollback, Cancel, ChangeSource
  <2>7. CASE CreateTarget \/ EnsureDirectory \/ OpenFile
      BY <2>1, <2>3, <2>7 DEF CreateTarget, EnsureDirectory, OpenFile, Create
  <2>8. CASE CreateTargetFails \/ Fault
      BY <2>1, <2>3, <2>8 DEF CreateTargetFails, Fault, CreateFails
  <2>9. CASE Foreign
      BY <2>1, <2>3, <2>9 DEF Foreign
  <2> QED BY <2>1, <2>4, <2>5, <2>6, <2>7, <2>8, <2>9 DEF Next, Worker
<1> QED BY <1>1, Invariance, PTL DEF Spec, ForeignKept

\* The progress a migration reports never goes back, in files or in bytes: not from one buffer to
\* the next, not from one file to the next, and not when the copy is given up or rolled back
\* (on_progress, CopyTransaction::copied_bytes).
THEOREM ProgressNeverGoesBack == Spec => ProgressMonotone
<1>1. MigrationInv /\ ProgressInv /\ [Next]_vars =>
        [report'.files >= report.files /\ report'.bytes >= report.bytes]_vars
    BY StepProgress DEF Grows
<1>2. Spec => []ProgressInv
    BY InitProgress, StepProgress, Invariance, PTL DEF Spec
<1> QED BY <1>1, <1>2, Invariance, PTL DEF Spec, ProgressMonotone
=============================================================================
