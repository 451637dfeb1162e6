----------------------- MODULE MCSubscribersRegistry -----------------------
(***************************************************************************)
(* Two users, the first with two devices: a second login of one connection *)
(* can change the device only, or the user too.                            *)
(***************************************************************************)
EXTENDS SubscribersRegistry, TLC

CONSTANTS u1, u2, d1, d2, d3

MCUsers == {u1, u2}
MCDevices == {d1, d2, d3}
MCOwner == d1 :> u1 @@ d2 :> u1 @@ d3 :> u2

\* Connections of one kind are interchangeable, and so are the devices of u1.
MCSymmetry ==
  Permutations(SubClients) \cup Permutations(HttpClients) \cup Permutations({d1, d2})
=============================================================================
