--------------------------- MODULE MCEngineWorker ---------------------------
(***************************************************************************)
(* Instances of EngineWorker for TLC.                                      *)
(***************************************************************************)
EXTENDS EngineWorker

CONSTANTS c1, c2

(* Every client has an id of its own, as the server's default gives it.     *)
OwnIds == [c \in Clients |-> c]

(* All clients choose the same id.                                          *)
SameId == [c \in Clients |-> c1]
=============================================================================
