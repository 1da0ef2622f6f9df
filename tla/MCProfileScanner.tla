-------------------------- MODULE MCProfileScanner --------------------------
(***************************************************************************)
(* Bounds for the profile scan: a system SID, one user with a canonical    *)
(* and a .bak key (and, once repaired, a .pre-repair-* key), another whose *)
(* account is gone with a canonical key, two directories of which one is   *)
(* spelled in two ways; 15 machines to start on.                           *)
(***************************************************************************)
EXTENDS ProfileScanner, TLC

CONSTANTS system, alice, bob, home, other

MCNames ==
    <<[sid |-> system, kind |-> "system"], [sid |-> alice, kind |-> "canonical"],
      [sid |-> alice, kind |-> "bak"], [sid |-> alice, kind |-> "preserved"],
      [sid |-> bob, kind |-> "canonical"]>>

MCKey(dir, slash, temp, dirty) ==
    [path |-> [dir |-> dir, slash |-> slash], temp |-> temp, dirty |-> dirty]

MCKeyChoices ==
    (MCNames[1] :> {MCKey(None, FALSE, FALSE, FALSE)}) @@
    (MCNames[2] :> {MCKey(home, FALSE, FALSE, TRUE), MCKey(other, FALSE, TRUE, TRUE)}) @@
    (MCNames[3] :> {MCKey(home, TRUE, FALSE, FALSE)}) @@
    (MCNames[4] :> {}) @@
    (MCNames[5] :> {MCKey(other, FALSE, FALSE, FALSE), MCKey(None, FALSE, FALSE, FALSE)})

MCRegistry(alices, bak, bobs) ==
    (MCNames[1] :> MCKey(None, FALSE, FALSE, FALSE)) @@ (MCNames[2] :> alices) @@ (MCNames[5] :> bobs) @@
    IF bak THEN MCNames[3] :> MCKey(home, TRUE, FALSE, FALSE) ELSE << >>

MCRegistries ==
    {MCRegistry(MCKey(home, FALSE, FALSE, TRUE), TRUE, MCKey(other, FALSE, FALSE, FALSE)),
     MCRegistry(MCKey(home, FALSE, FALSE, TRUE), FALSE, MCKey(None, FALSE, FALSE, FALSE)),
     MCRegistry(MCKey(other, FALSE, TRUE, TRUE), FALSE, MCKey(other, FALSE, FALSE, FALSE))}

MCContents ==
    {(home :> "profile") @@ (other :> "profile"), (home :> "bare") @@ (other :> "junction"),
     (home :> "profile") @@ (other :> "missing")}

\* The directory of the user who is logged on is a profile and its hive is open; a hive that is
\* open is there.
MCStart ==
    {m \in [registry : MCRegistries, loaded : {{}, {alice}}, content : MCContents,
            lockers : {(home :> n) @@ (other :> 0) : n \in 0 .. 1}] :
        /\ m.loaded # {} => m.lockers[home] = 1 /\ \A d \in Dir : m.content[d] = "profile"
        /\ m.lockers[home] = 1 => m.content[home] = "profile"
        /\ m.content[other] = "missing" => m.lockers[home] = 1}
=============================================================================
