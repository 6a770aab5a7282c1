-------------------------- MODULE MCRuntimeDaemon --------------------------
(* Bounded instance of RuntimeDaemon for TLC. *)
EXTENDS RuntimeDaemon

CONSTANTS a, b

MCOrder == <<a, b>>
=============================================================================
