------------------------ MODULE MCServiceLifecycle -------------------------
(***************************************************************************)
(* An instance of ServiceLifecycle for TLC: two slots, since a process     *)
(* that ended can come back as a third one, and one worker beside the      *)
(* daemon's thread, since workers do not see each other.                   *)
(***************************************************************************)
EXTENDS ServiceLifecycle

MCSlots == {"first", "second"}
MCInodes == 1 .. 3
MCNoInode == 0
MCWorkers == {"subscribers"}
MCHosts == {"local", "routable"}
=============================================================================
