----------------------------- MODULE MCCatchups -----------------------------
(***************************************************************************)
(* Two users of one channel that shows two programs.  Three object ids let *)
(* a document that a fault left behind exist beside two catchups.          *)
(***************************************************************************)
EXTENDS Catchups, TLC

CONSTANTS u1, u2, ch1

MCUsers == {u1, u2}
MCChannels == {ch1}
MCSubscribed == {<<u1, ch1>>, <<u2, ch1>>}

MCSymmetry == Permutations(Ids) \cup Permutations(Programs)
=============================================================================
