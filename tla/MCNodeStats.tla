---------------------------- MODULE MCNodeStats ----------------------------
(* Three binary digits are read of counters of up to five, which are about *)
(* to outgrow the reading or the word; two instants in a second and three  *)
(* changes of the machine between and around the reports.                  *)
EXTENDS NodeStats
=============================================================================
