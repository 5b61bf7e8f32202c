----------------------------- MODULE ServerTable -----------------------------
(***************************************************************************)
(* The servers table (internal/store/servers.go), reduced to the status    *)
(* column. The poller, the uploads and the connection attempts write it    *)
(* with an id they read earlier, when the row may be gone.                 *)
(***************************************************************************)
CONSTANT Servers   \* ids; a deleted one is not used again
VARIABLE row       \* status; "none" before CreateServer, "deleted" after DeleteServer

Status == {"unknown", "reachable", "unreachable", "key_mismatch"}
Rows == {s \in Servers : row[s] \in Status}

\* Mutant: an upsert.
UpsertServerStatus(s, status) == row' = [row EXCEPT ![s] = status]

\* UPDATE servers SET status ... WHERE id: no row, no effect.
UpdateServerStatus(s, status) ==
  row' = [row EXCEPT ![s] = IF @ \in Status THEN status ELSE @]

\* Deletion is final: the poller and the upload handlers still hold the id and write its
\* status afterwards, but never bring the row back (manager.go:176, 185; server.go:502,
\* 510; servers.go:98).
DeletedStaysDeleted ==
  [][\A s \in Servers : row[s] = "deleted" => row'[s] = "deleted"]_row
=============================================================================
