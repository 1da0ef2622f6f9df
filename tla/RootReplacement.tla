-------------------------- MODULE RootReplacement --------------------------
(***************************************************************************)
(* What the recovery of a permissive production root promises, without     *)
(* processes, handles, locks, phase markers or failures: one replacement   *)
(* at a time, each of its effects exactly once and in this order, and      *)
(* nothing else ever moves a detached object or a finished replacement.    *)
(***************************************************************************)

CONSTANTS
    Id,         \* identifiers of replacements
    Object,     \* directory objects
    Protected,  \* ... those that satisfy the production-storage contract
    None

VARIABLES
    root,       \* the object at the production name, or None
    kept,       \* kept[i]: the object detached by replacement i, or None
    jobs,       \* the replacement that is under way, a set of at most one
    audited,    \* terminal events: <<journal's root, replacement>>
    done,       \* finished replacements
    consented   \* objects an operator agreed to detach

vars == <<root, kept, jobs, audited, done, consented>>

Stage == {"recorded", "detached", "replaced"}

Init ==
    /\ root \in Object \cup {None}
    /\ kept = [i \in Id |-> None]
    /\ jobs = {} /\ audited = {} /\ done = {} /\ consented = {}

Consent(o) ==
    /\ consented' = consented \cup {o}
    /\ UNCHANGED <<root, kept, jobs, audited, done>>

\* The intent is durable before anything moves; it names the object now at the production
\* name, and an operator consented to that very object.
Record(i, n) ==
    /\ jobs = {}
    /\ i \notin done /\ kept[i] = None
    /\ root \in consented /\ n \in Protected
    /\ jobs' = {[id |-> i, source |-> root, next |-> n, stage |-> "recorded"]}
    /\ UNCHANGED <<root, kept, audited, done, consented>>

Reach(j, stage) == jobs' = {[j EXCEPT !.stage = stage]}

Detach(j) ==
    /\ j.stage = "recorded"
    /\ root = j.source
    /\ kept' = [kept EXCEPT ![j.id] = root]
    /\ root' = None
    /\ Reach(j, "detached")
    /\ UNCHANGED <<audited, done, consented>>

Replace(j) ==
    /\ j.stage = "detached"
    /\ root = None
    /\ root' = j.next
    /\ Reach(j, "replaced")
    /\ UNCHANGED <<kept, audited, done, consented>>

\* The terminal event goes to the journal of the replacement.
Audit(j) ==
    /\ j.stage = "replaced"
    /\ root = j.next
    /\ audited' = audited \cup {<<root, j.id>>}
    /\ UNCHANGED <<root, kept, jobs, done, consented>>

Finish(j) ==
    /\ j.stage = "replaced"
    /\ <<j.next, j.id>> \in audited
    /\ jobs' = {}
    /\ done' = done \cup {j.id}
    /\ UNCHANGED <<root, kept, audited, consented>>

\* Outside of a replacement only a production name without a protected root changes: other
\* software acts on it, or an instance creates the first root; a detached object never comes
\* back, and the replacement comes only by Replace.
Elsewhere ==
    /\ root \notin Protected
    /\ root' = None \/ root' \in Object \ ({kept[i] : i \in Id} \cup {j.next : j \in jobs})
    /\ UNCHANGED <<kept, jobs, audited, done, consented>>

Next ==
    \/ \E o \in Object : Consent(o)
    \/ \E i \in Id, n \in Protected : Record(i, n)
    \/ \E j \in jobs : Detach(j) \/ Replace(j) \/ Audit(j) \/ Finish(j)
    \/ Elsewhere

Spec == Init /\ [][Next]_vars
=============================================================================
