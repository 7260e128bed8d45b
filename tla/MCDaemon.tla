------------------------------ MODULE MCDaemon ------------------------------
(***************************************************************************)
(* A proxy of the old build and a deployment of the new one.               *)
(***************************************************************************)
EXTENDS Daemon

CONSTANTS proxy, deploy, p1, p2, p3

OldAndNew == [c \in Client |-> IF c = deploy THEN "new" ELSE "old"]
=============================================================================
