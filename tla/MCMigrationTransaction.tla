----------------------- MODULE MCMigrationTransaction -----------------------
(* A small profile: AppData\Roaming with a subdirectory, and Documents. *)
EXTENDS MigrationTransaction, TLC

CONSTANTS appdata, roaming, sub, documents,   \* directories
          note, photo,                        \* files
          a, b                                \* buffers

MCChildren == (Target :> <<appdata, documents>>) @@ (appdata :> <<roaming>>)
              @@ (roaming :> <<sub, photo>>) @@ (sub :> <<>>) @@ (documents :> <<note>>)
MCRoaming == <<<<appdata, roaming>>>>
MCPersonal == <<<<documents>>>>
MCContent == {<<>>, <<a, b>>}

\* Both scopes are selected (one alone is the case in which the other's root is missing), files
\* start with two buffers, and at most one entry is missing or a reparse point at the start.
Plain(n) == src[n].kind \in {"file", "directory"}
MCInit == /\ Init
          /\ scope = Roaming \o Personal
          /\ \A f \in File : src[f].kind = "file" => src[f].data = <<a, b>>
          /\ \A m, n \in Dir \cup File : Plain(m) \/ Plain(n) \/ m = n

MCSpec == MCInit /\ [][Next]_vars /\ WF_vars(Worker)
=============================================================================
