----------------------------- MODULE Sessions ------------------------------
(***************************************************************************)
(* What the registry of connections promises, without handlers, mutex or   *)
(* map: a connection has a session for one device or none, a loop has at   *)
(* most one session per device, and every session that begins or ends is   *)
(* reported once and in order.                                             *)
(*                                                                         *)
(* One thing escapes the reports: a connection that logs in a second time  *)
(* drops its first session without a word.                                 *)
(***************************************************************************)
EXTENDS Sequences

CONSTANTS
  Clients,
  Devices,
  NoDevice,
  Rivals(_)  \* the connections that may not have a device a client has

VARIABLES
  session,  \* the device a client has a session for, or NoDevice
  reports,  \* events not yet taken by the daemon loop, oldest first
  dropped   \* clients that dropped a session without a report

sessionVars == <<session, reports, dropped>>

Init ==
  /\ session = [c \in Clients |-> NoDevice]
  /\ reports = <<>>
  /\ dropped = {}

Begin(c, d) ==
  /\ session[c] = NoDevice
  /\ \A e \in Rivals(c) : session[e] # d
  /\ session' = [session EXCEPT ![c] = d]
  /\ reports' = Append(reports, [event |-> "connected", device |-> d])
  /\ UNCHANGED dropped

End(c) ==
  /\ session[c] # NoDevice
  /\ session' = [session EXCEPT ![c] = NoDevice]
  /\ reports' = Append(reports, [event |-> "disconnected", device |-> session[c]])
  /\ UNCHANGED dropped

\* The second login of a connection takes effect.
Drop(c) ==
  /\ session[c] # NoDevice
  /\ session' = [session EXCEPT ![c] = NoDevice]
  /\ dropped' = dropped \cup {c}
  /\ UNCHANGED reports

Take ==
  /\ reports # <<>>
  /\ reports' = Tail(reports)
  /\ UNCHANGED <<session, dropped>>

Next ==
  \/ \E c \in Clients, d \in Devices : Begin(c, d)
  \/ \E c \in Clients : End(c) \/ Drop(c)
  \/ Take

Spec == Init /\ [][Next]_sessionVars
=============================================================================
