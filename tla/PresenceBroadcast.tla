------------------------- MODULE PresenceBroadcast -------------------------
(***************************************************************************)
(* The daemon loop of ProcessSlaveWrapper composed with the registry: what *)
(* the admin panels connected to the daemon port believe about which       *)
(* devices are online.                                                     *)
(*                                                                         *)
(* A panel learns presence in two ways.  prepare_service answers with the  *)
(* online subscribers read from the map at that moment, and every          *)
(* registration and unregistration posts a callback that broadcasts an     *)
(* event later.  Callbacks posted before the snapshot can run after it.    *)
(*                                                                         *)
(* Abstractions.                                                           *)
(*  - The panel is not part of this repository; view is what a reader of   *)
(*    its connection who stores the snapshot and applies each event in     *)
(*    order holds once it has read everything written so far.              *)
(*  - Daemon commands without an effect on presence are left out: ping,    *)
(*    sync_service, get_log, node statistics.                              *)
(*  - A write that fails is logged and not repeated.  A panel that did not *)
(*    get an event is in missed until it prepares again.                   *)
(***************************************************************************)
EXTENDS SubscribersRegistry

CONSTANTS Panels  \* connections to the daemon port

VARIABLES
  link,      \* state of a daemon connection; "verified" is IsVerified()
  prepared,  \* panels that got a prepare_service answer on this connection
  view,      \* the devices each panel believes online
  missed,    \* history: panels to which an event could not be written
  shared     \* history: devices that two connections registered at one time,
             \* until the last of them is gone

daemonVars == <<link, prepared, view, missed>>
systemVars == <<vars, daemonVars, shared>>

Verified == {p \in Panels : link[p] = "verified"}

\* The clients that are registered as d.
Holders(d) == {c \in Clients : Registered(c) /\ login[c] = d}

\* Faulty variant of OnlineSubscribers: http connections are left out.
OnlineSubscribersOfSubs ==
  {d \in Devices : \E u \in Users, c \in SubClients :
                     connections[u][c] > 0 /\ login[c] = d}

\* GetOnlineSubscribers: the login of every client in the map.
OnlineSubscribers ==
  {d \in Devices : \E u \in Users, c \in Clients : connections[u][c] > 0 /\ login[c] = d}

SystemInit ==
  /\ Init
  /\ link = [p \in Panels |-> "closed"]
  /\ prepared = {}
  /\ view = [p \in Panels |-> {}]
  /\ missed = {}
  /\ shared = {}

-----------------------------------------------------------------------------
DaemonAccept(p) ==
  /\ link[p] = "closed"
  /\ link' = [link EXCEPT ![p] = "connected"]
  /\ UNCHANGED <<vars, prepared, view, missed, shared>>

\* activate_request with the license of the config: verified only once the
\* answer was written.
Activate(p) ==
  /\ link[p] = "connected"
  /\ link' = [link EXCEPT ![p] = "verified"]
  /\ UNCHANGED <<vars, prepared, view, missed, shared>>

\* prepare_service, answered.
PrepareService(p) ==
  /\ link[p] = "verified"
  /\ view' = [view EXCEPT ![p] = OnlineSubscribers]
  /\ prepared' = prepared \cup {p}
  /\ missed' = missed \ {p}
  /\ UNCHANGED <<vars, link, shared>>

\* Faulty variant of DaemonClose: what the connection was told outlives it.
DaemonCloseForgetful(p) ==
  /\ link[p] # "closed"
  /\ link' = [link EXCEPT ![p] = "closed"]
  /\ UNCHANGED <<vars, prepared, view, missed, shared>>

\* Closed by the panel, after a read error, or after a ping that failed.
DaemonClose(p) ==
  /\ link[p] # "closed"
  /\ link' = [link EXCEPT ![p] = "closed"]
  /\ view' = [view EXCEPT ![p] = {}]
  /\ prepared' = prepared \ {p}
  /\ missed' = missed \ {p}
  /\ UNCHANGED <<vars, shared>>

Apply(e, devices) ==
  IF e.event = "connected" THEN devices \cup {e.device} ELSE devices \ {e.device}

\* Faulty variant of Broadcast: the newest event is sent in place of the oldest.
BroadcastNewest ==
  /\ Deliver
  /\ \E lost \in SUBSET Verified :
       /\ view' = [p \in Panels |-> IF p \in Verified \ lost
                                    THEN Apply(tasks[Len(tasks)], view[p]) ELSE view[p]]
       /\ missed' = missed \cup lost
  /\ UNCHANGED <<link, prepared, shared>>

\* Faulty variant of Broadcast: the loop is only woken by a second callback.
BroadcastLate ==
  /\ Deliver
  /\ Len(tasks) > 1
  /\ \E lost \in SUBSET Verified :
       /\ view' = [p \in Panels |-> IF p \in Verified \ lost
                                    THEN Apply(Head(tasks), view[p]) ELSE view[p]]
       /\ missed' = missed \cup lost
  /\ UNCHANGED <<link, prepared, shared>>

\* The oldest callback runs: BroadcastClients writes its event to every
\* verified client; to those in lost the write fails.
Broadcast ==
  /\ Deliver
  /\ \E lost \in SUBSET Verified :
       /\ view' = [p \in Panels |-> IF p \in Verified \ lost
                                    THEN Apply(Head(tasks), view[p]) ELSE view[p]]
       /\ missed' = missed \cup lost
  /\ UNCHANGED <<link, prepared, shared>>

\* A step of the two subscriber loops.
RegistryStep(c) ==
  /\ ClientStep(c)
  /\ shared' = {d \in Devices :
                  \/ \E e, f \in Holders(d)' : e # f
                  \/ d \in shared /\ Holders(d)' # {}}
  /\ UNCHANGED daemonVars

PanelStep(p) ==
  \/ DaemonAccept(p)
  \/ Activate(p)
  \/ PrepareService(p)
  \/ DaemonClose(p)

SystemNext ==
  \/ \E c \in Clients : RegistryStep(c)
  \/ \E p \in Panels : PanelStep(p)
  \/ Broadcast

SystemSpec == SystemInit /\ [][SystemNext]_systemVars

\* The daemon loop runs posted callbacks as long as there are any.
FairSystemSpec == SystemSpec /\ WF_systemVars(Broadcast)

-----------------------------------------------------------------------------
(***************************************************************************)
(* Properties.                                                             *)
(***************************************************************************)

SystemTypeOK ==
  /\ TypeOK
  /\ link \in [Panels -> {"closed", "connected", "verified"}]
  /\ prepared \subseteq Verified
  /\ view \in [Panels -> SUBSET Devices]
  /\ missed \subseteq Panels
  /\ shared \subseteq Devices

\* The last waiting event about d, if any, is of kind k.
LastPosted(d, k) ==
  \E i \in 1 .. Len(tasks) :
    /\ tasks[i] = [event |-> k, device |-> d]
    /\ \A j \in (i + 1) .. Len(tasks) : tasks[j].device # d

NothingPosted(d) == \A i \in 1 .. Len(tasks) : tasks[i].device # d

\* What p will believe about d once the callbacks waiting now have run.
WillBelieve(p, d) ==
  LastPosted(d, "connected") \/ (NothingPosted(d) /\ d \in view[p])

\* The panel got a snapshot and every event since.
UpToDate(p) == p \in prepared \ missed

\* Snapshot and events, however they overlap, leave no wrong belief once the
\* waiting callbacks have run: a device the panel takes for online is online,
\* and a device that is online is taken for online, unless two connections
\* hold or held it together and the first to leave announced it offline.
\* Assumes that no connection logged in twice.
PanelsConverge ==
  relogged = {} =>
    \A p \in Panels, d \in Devices : UpToDate(p) =>
      /\ WillBelieve(p, d) => Holders(d) # {}
      /\ Holders(d) # {} /\ d \notin shared => WillBelieve(p, d)

\* The snapshot that prepare_service reads is the set of registered devices.
SnapshotExact ==
  relogged = {} => OnlineSubscribers = {d \in Devices : Holders(d) # {}}

Settled(p, d) == UpToDate(p) /\ relogged = {} /\ d \notin shared

\* A device that stays online is believed online for good by a panel that
\* stays up to date; one that stays offline is believed offline.
PanelsLearn ==
  \A p \in Panels, d \in Devices :
    /\ <>[](Settled(p, d) /\ Holders(d) # {}) => <>[](d \in view[p])
    /\ <>[](Settled(p, d) /\ Holders(d) = {}) => <>[](d \notin view[p])
=============================================================================
