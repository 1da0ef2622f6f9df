-------------------------- MODULE LegacyRefinement --------------------------
(***************************************************************************)
(* LegacyRecovery implements RootReplacement.  The stage of a replacement  *)
(* is read off the names, not off the markers: a marker is published after *)
(* the rename it records, and the rename is the step that counts.          *)
(***************************************************************************)
EXTENDS LegacyRecovery

StageOf(m) ==
    IF legacy[m.id] = None THEN "recorded" ELSE IF next[m.id] # None THEN "detached" ELSE "replaced"

Replacement == INSTANCE RootReplacement WITH
    root <- active,
    kept <- legacy,
    jobs <- {[id |-> m.id, source |-> m.source, next |-> m.next, stage |-> StageOf(m)] : m \in PendingSet},
    audited <- events,
    done <- {m.id : m \in {n \in markers : n.phase = Done}}

\* Whatever crashes, failing calls and other instances do to a recovery, what is left in the
\* namespace, the markers and the journal is an uninterrupted replacement: the consented
\* object is detached once and stays detached, its replacement takes the name once, the event
\* follows in the replacement's journal and Done comes last.
ReplacesOnce == Replacement!Spec
=============================================================================
