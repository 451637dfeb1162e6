------------------------ MODULE MCPresenceBroadcast ------------------------
(***************************************************************************)
(* One user with two devices and two panels.  Three connections let two    *)
(* loops share a device while a third connection comes and goes.           *)
(***************************************************************************)
EXTENDS PresenceBroadcast, TLC

CONSTANTS u1, d1, d2

MCUsers == {u1}
MCDevices == {d1, d2}
MCOwner == d1 :> u1 @@ d2 :> u1

\* The properties say nothing once a connection has logged in twice, and
\* relogged never shrinks: those states need no successors.
OneLoginEach == relogged = {}

MCSymmetry ==
  Permutations(SubClients) \cup Permutations(Panels) \cup Permutations(MCDevices)
=============================================================================
