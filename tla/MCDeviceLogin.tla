--------------------------- MODULE MCDeviceLogin ---------------------------
(***************************************************************************)
(* An instance of DeviceLogin for TLC.  Two loops make the race of an      *)
(* activation with a ban and of two logins for one device possible; three  *)
(* writes of the panel are enough to take a right away and give another.   *)
(***************************************************************************)
EXTENDS DeviceLogin, TLC

CONSTANTS subs, http, d1, p1, p2, e1, e2, undated

MCLoops == {subs, http}
MCDevices == {d1}
MCPasswords == {p1, p2}
MCEmails == {e1, e2}

\* Nothing distinguishes two emails or two passwords.
Symmetry == Permutations(MCPasswords) \cup Permutations(MCEmails)
=============================================================================
