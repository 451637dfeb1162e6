---------------------- MODULE PresenceBroadcastProofs ----------------------
(***************************************************************************)
(* The daemon loop composed with the registry, for any number of users,    *)
(* devices, connections and panels: the composition implements the         *)
(* registry's specification, so what is proved of the registry holds of    *)
(* it; and every panel that missed nothing will believe the truth.         *)
(*                                                                         *)
(* The second result needs to know what the queue of callbacks says even   *)
(* where no panel listens, since a panel may take its snapshot with any    *)
(* queue still waiting: QueueTells.                                        *)
(***************************************************************************)
EXTENDS PresenceBroadcast, SubscribersRegistryProofs

Kinds == {"connected", "disconnected"}

\* The last waiting event about a device is the truth about it, except that
\* a shared device may have been announced offline.
QueueTells ==
  \A d \in Devices :
    /\ NothingPosted(d) \/ \E k \in Kinds : LastPosted(d, k)
    /\ relogged = {} /\ LastPosted(d, "connected") => Holders(d) # {}
    /\ relogged = {} /\ LastPosted(d, "disconnected") => Holders(d) = {} \/ d \in shared

\* A device that is not shared has at most one holder.
SharedExact == \A d \in Devices \ shared : \A c, e \in Holders(d) : c = e

SystemInv ==
  /\ IInv
  /\ SystemTypeOK
  /\ SharedExact
  /\ QueueTells
  /\ PanelsConverge

-----------------------------------------------------------------------------
(***************************************************************************)
(* The composition implements the registry.                                *)
(***************************************************************************)

LEMMA StepImplements == [SystemNext]_systemVars => [Next]_vars
BY DEF SystemNext, RegistryStep, PanelStep, DaemonAccept, Activate, PrepareService, DaemonClose,
       Broadcast, Next, systemVars

\* Every behaviour of the composed system is one of the registry.
THEOREM SystemImplementsRegistry == SystemSpec => Spec
<1>1. SystemInit => Init
  BY DEF SystemInit
<1> QED
  BY <1>1, StepImplements, PTL DEF SystemSpec, Spec

-----------------------------------------------------------------------------
(***************************************************************************)
(* Posting at the end of the queue, delivering from its front.             *)
(***************************************************************************)

LEMMA PostedAppend ==
  ASSUME TypeOK, NEW k \in Kinds, NEW x \in Devices,
         tasks' = Append(tasks, [event |-> k, device |-> x]),
         NEW d \in Devices, NEW q \in Kinds
  PROVE  /\ LastPosted(d, q)' <=> IF d = x THEN q = k ELSE LastPosted(d, q)
         /\ NothingPosted(d)' <=> d # x /\ NothingPosted(d)
<1> DEFINE e == [event |-> k, device |-> x]
<1>1. /\ Len(tasks) \in Nat
      /\ Len(tasks') = Len(tasks) + 1
      /\ tasks'[Len(tasks) + 1] = e
      /\ \A i \in 1 .. Len(tasks) : tasks'[i] = tasks[i]
  BY DEF TypeOK
<1>2. NothingPosted(d)' <=> d # x /\ NothingPosted(d)
  BY <1>1 DEF NothingPosted
<1>3. CASE d = x
  <2>1. ASSUME LastPosted(d, q)' PROVE q = k
    BY <1>1, <1>3, <2>1 DEF LastPosted
  <2>2. LastPosted(d, k)'
    BY <1>1, <1>3 DEF LastPosted
  <2> QED
    BY <1>2, <1>3, <2>1, <2>2
<1>4. CASE d # x
  BY <1>1, <1>2, <1>4 DEF LastPosted
<1> QED
  BY <1>3, <1>4

LEMMA PostedTail ==
  ASSUME TypeOK, tasks # <<>>, tasks' = Tail(tasks),
         NEW d \in Devices, NEW q \in Kinds
  PROVE  /\ LastPosted(d, q) <=>
              LastPosted(d, q)' \/ (NothingPosted(d)' /\ Head(tasks) = [event |-> q, device |-> d])
         /\ NothingPosted(d) <=> NothingPosted(d)' /\ Head(tasks).device # d
<1>1. /\ Len(tasks) \in Nat \ {0}
      /\ Len(tasks') = Len(tasks) - 1
      /\ Head(tasks) = tasks[1]
      /\ \A i \in 1 .. Len(tasks') : tasks'[i] = tasks[i + 1]
  BY DEF TypeOK
<1>2. \A i \in 2 .. Len(tasks) : i - 1 \in 1 .. Len(tasks') /\ tasks[i] = tasks'[i - 1]
  BY <1>1
<1>3. NothingPosted(d) <=> NothingPosted(d)' /\ Head(tasks).device # d
  BY <1>1, <1>2 DEF NothingPosted
<1>4. ASSUME LastPosted(d, q)' PROVE LastPosted(d, q)
  <2>1. PICK i \in 1 .. Len(tasks') :
          /\ tasks'[i] = [event |-> q, device |-> d]
          /\ \A j \in (i + 1) .. Len(tasks') : tasks'[j].device # d
    BY <1>4 DEF LastPosted
  <2>2. i + 1 \in 1 .. Len(tasks) /\ tasks[i + 1] = [event |-> q, device |-> d]
    BY <1>1, <2>1
  <2>3. ASSUME NEW j \in (i + 2) .. Len(tasks) PROVE tasks[j].device # d
    <3>1. j \in 2 .. Len(tasks) /\ j - 1 \in (i + 1) .. Len(tasks')
      BY <1>1, <2>1, <2>3
    <3> QED
      BY <1>2, <2>1, <3>1
  <2>4. (i + 1) + 1 = i + 2
    BY <2>1
  <2> QED
    BY <2>2, <2>3, <2>4 DEF LastPosted
<1>5. ASSUME NothingPosted(d)', Head(tasks) = [event |-> q, device |-> d]
      PROVE  LastPosted(d, q)
  <2>1. 1 \in 1 .. Len(tasks) /\ tasks[1] = [event |-> q, device |-> d]
    BY <1>1, <1>5
  <2>2. ASSUME NEW j \in (1 + 1) .. Len(tasks) PROVE tasks[j].device # d
    <3>1. j \in 2 .. Len(tasks)
      BY <1>1, <2>2
    <3>2. j - 1 \in 1 .. Len(tasks') /\ tasks[j] = tasks'[j - 1]
      BY <1>2, <3>1
    <3> QED
      BY <1>5, <3>2 DEF NothingPosted
  <2> QED
    BY <2>1, <2>2 DEF LastPosted
<1>6. ASSUME LastPosted(d, q)
      PROVE  LastPosted(d, q)' \/ (NothingPosted(d)' /\ Head(tasks) = [event |-> q, device |-> d])
  <2>1. PICK i \in 1 .. Len(tasks) :
          /\ tasks[i] = [event |-> q, device |-> d]
          /\ \A j \in (i + 1) .. Len(tasks) : tasks[j].device # d
    BY <1>6 DEF LastPosted
  <2>2. CASE i = 1
    BY <1>1, <2>1, <2>2 DEF NothingPosted
  <2>3. CASE i # 1
    BY <1>1, <1>2, <2>1, <2>3 DEF LastPosted
  <2> QED
    BY <2>2, <2>3
<1> QED
  BY <1>3, <1>4, <1>5, <1>6

-----------------------------------------------------------------------------
(***************************************************************************)
(* What one step of a subscriber loop does to the queue and to the set of  *)
(* holders of each device.                                                 *)
(***************************************************************************)

\* A step posts nothing, or one event.
LEMMA StepPosts ==
  ASSUME IInv, NEW c \in Clients, ClientStep(c)
  PROVE  \/ tasks' = tasks
         \/ \E k \in Kinds, x \in Devices : tasks' = Append(tasks, [event |-> k, device |-> x])
<1>1. CASE Register(c)
  <2>1. login[c] \in Devices
    BY <1>1 DEF Register, Goes, IInv, TypeOK, LoginMatchesPc
  <2> QED
    BY <1>1, <2>1 DEF Register, Post, Online, Kinds
<1>2. CASE Unregister(c)
  <2>1. CASE login[c] = NoDevice
    BY <1>2, <2>1 DEF Unregister
  <2>2. CASE login[c] # NoDevice
    <3>1. login[c] \in Devices
      BY <2>2 DEF IInv, TypeOK
    <3> QED
      BY <1>2, <2>2, <3>1 DEF Unregister, Post, Offline, Kinds
  <2> QED
    BY <2>1, <2>2
<1> QED
  BY <1>1, <1>2 DEF ClientStep, Accept, CheckDevice, ReplyFailed, AssignLogin, WatchStream,
                    HttpRequest, FinishRequest, Release

\* A step that leaves the queue alone leaves alone what it says.
LEMMA PostedSame ==
  ASSUME tasks' = tasks, NEW d \in Devices
  PROVE  /\ NothingPosted(d)' <=> NothingPosted(d)
         /\ \A k \in Kinds : LastPosted(d, k)' <=> LastPosted(d, k)
BY DEF NothingPosted, LastPosted

\* A step that leaves the registry alone leaves alone who holds what.
LEMMA HoldersSame == UNCHANGED <<pc, login>> => \A d \in Devices : Holders(d)' = Holders(d)
BY DEF Holders, Registered

Same(x) == \A d \in Devices \ {x} : Holders(d)' = Holders(d)

\* Registering adds the holder in the step that posts "connected".
LEMMA RegisterHolds ==
  ASSUME IInv, NEW c \in Clients, Register(c)
  PROVE  \E x \in Devices : /\ tasks' = Append(tasks, Online(x))
                            /\ Holders(x)' = Holders(x) \cup {c}
                            /\ Same(x)
<1>1. login[c] \in Devices
  BY DEF Register, Goes, IInv, TypeOK, LoginMatchesPc
<1>2. login' = login /\ tasks' = Append(tasks, Online(login[c]))
  BY DEF Register, Post
<1>3. \A e \in Clients : Registered(e)' <=> Registered(e) \/ e = c
  BY <1>1, RegistryAssumption DEF Register, Goes, Registered, IInv, TypeOK
<1>4. Holders(login[c])' = Holders(login[c]) \cup {c} /\ Same(login[c])
  BY <1>2, <1>3 DEF Holders, Same
<1> QED
  BY <1>1, <1>2, <1>4

\* Unregistering removes it in the step that posts "disconnected".
LEMMA UnregisterHolds ==
  ASSUME IInv, NEW c \in Clients, Unregister(c), login[c] # NoDevice
  PROVE  \E x \in Devices : /\ tasks' = Append(tasks, Offline(x))
                            /\ c \in Holders(x)
                            /\ Holders(x)' = Holders(x) \ {c}
                            /\ Same(x)
<1>1. login[c] \in Devices
  BY DEF IInv, TypeOK
<1>2. login' = login /\ tasks' = Append(tasks, Offline(login[c]))
  BY DEF Unregister, Post
<1>3. Registered(c) /\ \A e \in Clients : Registered(e)' <=> Registered(e) /\ e # c
  BY <1>1, RegistryAssumption DEF Unregister, Goes, Registered, IInv, TypeOK
<1>4. c \in Holders(login[c]) /\ Holders(login[c])' = Holders(login[c]) \ {c} /\ Same(login[c])
  BY <1>2, <1>3 DEF Holders, Same
<1> QED
  BY <1>1, <1>2, <1>4

\* No other step changes who is registered as what, as long as it does not
\* log a connection in for the second time.
LEMMA OthersHold ==
  ASSUME IInv, NEW c \in Clients, ClientStep(c), relogged' = {},
         ~Register(c), ~(Unregister(c) /\ login[c] # NoDevice)
  PROVE  tasks' = tasks /\ \A d \in Devices : Holders(d)' = Holders(d)
<1> USE RegistryAssumption DEF IInv, TypeOK, Goes
<1>1. tasks' = tasks
  BY DEF ClientStep, Accept, CheckDevice, ReplyFailed, AssignLogin, WatchStream,
         HttpRequest, FinishRequest, Unregister, Release
<1>2. SUFFICES \A e \in Clients : \A d \in Devices :
                 (Registered(e)' /\ login'[e] = d) <=> (Registered(e) /\ login[e] = d)
  BY <1>1 DEF Holders
<1>3. CASE \/ Accept(c) \/ AssignLogin(c) \/ Release(c)
  BY <1>3 DEF Accept, AssignLogin, Release, Registered
<1>4. CASE \/ ReplyFailed(c) \/ HttpRequest(c)
           \/ \E d \in Devices : CheckDevice(c, d)
           \/ \E sid \in Streams : WatchStream(c, sid)
  BY <1>4 DEF ReplyFailed, HttpRequest, CheckDevice, WatchStream, Registered
<1>5. CASE Unregister(c) /\ login[c] = NoDevice
  BY <1>5 DEF Unregister, Registered
<1>6. CASE \E sid \in Streams \cup {NoStream}, k \in BOOLEAN : FinishRequest(c, sid, k)
  BY <1>6 DEF FinishRequest, Registered
<1> QED
  BY <1>3, <1>4, <1>5, <1>6 DEF ClientStep

-----------------------------------------------------------------------------
(***************************************************************************)
(* Every step preserves the invariant.                                     *)
(***************************************************************************)

LEMMA RegistryStepInv ==
  ASSUME SystemInv, NEW c \in Clients, RegistryStep(c)
  PROVE  SystemInv'
<1>1. ClientStep(c) /\ UNCHANGED daemonVars
  BY DEF RegistryStep
<1>2. /\ shared' \subseteq Devices
      /\ \A d \in Devices : d \in shared' <=> \/ \E e, f \in Holders(d)' : e # f
                                              \/ d \in shared /\ Holders(d)' # {}
  BY DEF RegistryStep
<1>3. IInv'
  BY <1>1, NextIInv DEF Next, SystemInv
<1>4. SystemTypeOK'
  BY <1>1, <1>2, <1>3 DEF SystemInv, SystemTypeOK, IInv, daemonVars, Verified
<1>5. SharedExact'
  BY <1>2 DEF SharedExact
<1>6. relogged \subseteq relogged'
  BY <1>1 DEF ClientStep, Accept, CheckDevice, ReplyFailed, AssignLogin, Register, WatchStream,
              HttpRequest, FinishRequest, Unregister, Release
<1>7. ASSUME NEW d \in Devices
      PROVE  NothingPosted(d)' \/ \E k \in Kinds : LastPosted(d, k)'
  <2>1. CASE tasks' = tasks
    BY <2>1, PostedSame DEF SystemInv, QueueTells
  <2>2. CASE \E k \in Kinds, x \in Devices : tasks' = Append(tasks, [event |-> k, device |-> x])
    <3>1. PICK k \in Kinds, x \in Devices : tasks' = Append(tasks, [event |-> k, device |-> x])
      BY <2>2
    <3> QED
      BY <3>1, PostedAppend DEF SystemInv, QueueTells, IInv
  <2> QED
    BY <1>1, <2>1, <2>2, StepPosts DEF SystemInv
<1>8. CASE relogged' # {}
  BY <1>3, <1>4, <1>5, <1>7, <1>8 DEF SystemInv, QueueTells, PanelsConverge
<1>9. CASE relogged' = {}
  <2>0. relogged = {} /\ view' = view /\ (\A p \in Panels : UpToDate(p)' <=> UpToDate(p))
    BY <1>1, <1>6, <1>9 DEF daemonVars, UpToDate
  <2>1. CASE Register(c)
    <3>1. PICK x \in Devices : /\ tasks' = Append(tasks, Online(x))
                               /\ Holders(x)' = Holders(x) \cup {c}
                               /\ Same(x)
      BY <2>1, RegisterHolds DEF SystemInv
    <3>2. \A d \in Devices, k \in Kinds :
            /\ LastPosted(d, k)' <=> IF d = x THEN k = "connected" ELSE LastPosted(d, k)
            /\ NothingPosted(d)' <=> d # x /\ NothingPosted(d)
      BY <3>1, PostedAppend DEF Online, Kinds, SystemInv, IInv
    <3>3. QueueTells'
      BY <1>2, <1>7, <2>0, <3>1, <3>2 DEF QueueTells, Kinds, Same, SystemInv
    <3>4. PanelsConverge'
      BY <1>2, <2>0, <3>1, <3>2 DEF PanelsConverge, WillBelieve, Kinds, Same, SystemInv
    <3> QED
      BY <1>3, <1>4, <1>5, <3>3, <3>4 DEF SystemInv
  <2>2. CASE Unregister(c) /\ login[c] # NoDevice
    <3>1. PICK x \in Devices : /\ tasks' = Append(tasks, Offline(x))
                               /\ c \in Holders(x)
                               /\ Holders(x)' = Holders(x) \ {c}
                               /\ Same(x)
      BY <2>2, UnregisterHolds DEF SystemInv
    <3>2. \A d \in Devices, k \in Kinds :
            /\ LastPosted(d, k)' <=> IF d = x THEN k = "disconnected" ELSE LastPosted(d, k)
            /\ NothingPosted(d)' <=> d # x /\ NothingPosted(d)
      BY <3>1, PostedAppend DEF Offline, Kinds, SystemInv, IInv
    <3>3. Holders(x)' # {} => x \in shared'
      BY <1>2, <3>1 DEF SharedExact, SystemInv
    <3>4. QueueTells'
      BY <1>2, <1>7, <2>0, <3>1, <3>2, <3>3 DEF QueueTells, Kinds, Same, SystemInv
    <3>5. PanelsConverge'
      BY <1>2, <2>0, <3>1, <3>2, <3>3 DEF PanelsConverge, WillBelieve, Kinds, Same, SystemInv
    <3> QED
      BY <1>3, <1>4, <1>5, <3>4, <3>5 DEF SystemInv
  <2>3. CASE ~Register(c) /\ ~(Unregister(c) /\ login[c] # NoDevice)
    <3>1. tasks' = tasks /\ \A d \in Devices : Holders(d)' = Holders(d)
      BY <1>1, <1>9, <2>3, OthersHold DEF SystemInv
    <3>2. \A d \in Devices : /\ NothingPosted(d)' <=> NothingPosted(d)
                             /\ \A k \in Kinds : LastPosted(d, k)' <=> LastPosted(d, k)
      BY <3>1, PostedSame
    <3>3. QueueTells'
      BY <1>2, <1>7, <2>0, <3>1, <3>2 DEF QueueTells, Kinds, SystemInv
    <3>4. PanelsConverge'
      BY <1>2, <2>0, <3>1, <3>2 DEF PanelsConverge, WillBelieve, Kinds, SystemInv
    <3> QED
      BY <1>3, <1>4, <1>5, <3>3, <3>4 DEF SystemInv
  <2> QED
    BY <2>1, <2>2, <2>3
<1> QED
  BY <1>8, <1>9

\* While nobody logged in twice, the snapshot is the set of held devices.
LEMMA SnapshotFromInv == IInv => SnapshotExact
<1> SUFFICES ASSUME IInv, relogged = {}, NEW d \in Devices
             PROVE  d \in OnlineSubscribers <=> Holders(d) # {}
  BY DEF SnapshotExact, OnlineSubscribers
<1>1. ASSUME NEW c \in Holders(d) PROVE d \in OnlineSubscribers
  BY <1>1, RegistryAssumption
     DEF Holders, OnlineSubscribers, IInv, ListedWhileRegistered, TypeOK
<1>2. ASSUME NEW u \in Users, NEW c \in Clients, connections[u][c] > 0, login[c] = d
      PROVE  c \in Holders(d)
  BY <1>2 DEF Holders, IInv, NoStrayEntry, TypeOK
<1> QED
  BY <1>1, <1>2 DEF OnlineSubscribers

LEMMA PanelStepInv ==
  ASSUME SystemInv, NEW p \in Panels, PanelStep(p)
  PROVE  SystemInv'
<1>1. UNCHANGED <<vars, shared>>
  BY DEF PanelStep, DaemonAccept, Activate, PrepareService, DaemonClose
<1>2. IInv'
  BY <1>1, NextIInv DEF SystemInv
<1>3. SystemTypeOK'
  BY <1>1, <1>2 DEF PanelStep, DaemonAccept, Activate, PrepareService, DaemonClose,
       SystemInv, SystemTypeOK, IInv, Verified, OnlineSubscribers
<1>4. relogged' = relogged /\ \A d \in Devices :
        /\ Holders(d)' = Holders(d)
        /\ NothingPosted(d)' <=> NothingPosted(d)
        /\ \A k \in Kinds : LastPosted(d, k)' <=> LastPosted(d, k)
  BY <1>1, HoldersSame, PostedSame DEF vars
<1>5. SharedExact' /\ QueueTells'
  BY <1>1, <1>4 DEF SystemInv, SharedExact, QueueTells, Kinds
<1>6. CASE PrepareService(p)
  <2>1. \A q \in Panels : view'[q] = IF q = p THEN OnlineSubscribers ELSE view[q]
    BY <1>6 DEF PrepareService, SystemInv, SystemTypeOK
  <2>2. \A q \in Panels : UpToDate(q)' => q = p \/ UpToDate(q)
    BY <1>6 DEF PrepareService, UpToDate
  <2>3. relogged = {} => \A d \in Devices : d \in OnlineSubscribers <=> Holders(d) # {}
    BY SnapshotFromInv DEF SystemInv, SnapshotExact
  <2>4. PanelsConverge'
    <3> SUFFICES ASSUME relogged = {}, NEW q \in Panels, NEW d \in Devices, UpToDate(q)'
                 PROVE  /\ WillBelieve(q, d)' => Holders(d) # {}
                        /\ Holders(d) # {} /\ d \notin shared => WillBelieve(q, d)'
      BY <1>1, <1>4 DEF PanelsConverge
    <3>1. CASE q = p
      BY <1>4, <2>1, <2>3, <3>1 DEF WillBelieve, SystemInv, QueueTells, Kinds
    <3>2. CASE q # p
      BY <1>4, <2>1, <2>2, <3>2 DEF WillBelieve, SystemInv, PanelsConverge, Kinds
    <3> QED
      BY <3>1, <3>2
  <2> QED
    BY <1>2, <1>3, <1>5, <2>4 DEF SystemInv
<1>7. CASE DaemonAccept(p) \/ Activate(p) \/ DaemonClose(p)
  <2>1. \A q \in Panels : UpToDate(q)' => UpToDate(q) /\ view'[q] = view[q]
    BY <1>7 DEF DaemonAccept, Activate, DaemonClose, UpToDate, SystemInv, SystemTypeOK
  <2>2. PanelsConverge'
    BY <1>1, <1>4, <2>1 DEF WillBelieve, SystemInv, PanelsConverge, Kinds
  <2> QED
    BY <1>2, <1>3, <1>5, <2>2 DEF SystemInv
<1> QED
  BY <1>6, <1>7 DEF PanelStep

LEMMA BroadcastInv == ASSUME SystemInv, Broadcast PROVE SystemInv'
<1>1. Deliver /\ UNCHANGED <<link, prepared, shared>>
  BY DEF Broadcast
<1>2. PICK lost \in SUBSET Verified :
        /\ view' = [p \in Panels |-> IF p \in Verified \ lost
                                     THEN Apply(Head(tasks), view[p]) ELSE view[p]]
        /\ missed' = missed \cup lost
  BY DEF Broadcast
<1>3. IInv'
  BY <1>1, DeliverIInv DEF SystemInv
<1>4. Head(tasks) \in Events /\ tasks # <<>> /\ tasks' = Tail(tasks)
  BY <1>1 DEF Deliver, SystemInv, IInv, TypeOK
<1>5. SystemTypeOK'
  BY <1>1, <1>2, <1>3, <1>4
     DEF SystemInv, SystemTypeOK, IInv, Verified, Apply, Events
<1>6. relogged' = relogged /\ \A d \in Devices : Holders(d)' = Holders(d)
  BY <1>1 DEF Deliver, Holders, Registered
<1>7. SharedExact'
  BY <1>1, <1>6 DEF SharedExact, SystemInv
<1>8. \A d \in Devices :
        /\ \A q \in Kinds : LastPosted(d, q) <=>
              LastPosted(d, q)' \/ (NothingPosted(d)' /\ Head(tasks) = [event |-> q, device |-> d])
        /\ NothingPosted(d) <=> NothingPosted(d)' /\ Head(tasks).device # d
  <2>1. TypeOK
    BY DEF SystemInv, IInv
  <2>2. ASSUME NEW d \in Devices, NEW q \in Kinds
        PROVE  /\ LastPosted(d, q) <=>
                    \/ LastPosted(d, q)'
                    \/ NothingPosted(d)' /\ Head(tasks) = [event |-> q, device |-> d]
               /\ NothingPosted(d) <=> NothingPosted(d)' /\ Head(tasks).device # d
    BY <1>4, <2>1, PostedTail
  <2>3. "connected" \in Kinds
    BY DEF Kinds
  <2> QED
    BY <2>2, <2>3
<1>9. \A d \in Devices :
         Head(tasks).device = d => \E q \in Kinds : Head(tasks) = [event |-> q, device |-> d]
  BY <1>4 DEF Events, Kinds
<1>10. QueueTells'
  BY <1>1, <1>6, <1>8, <1>9 DEF QueueTells, SystemInv, Kinds
<1>11. PanelsConverge'
  <2> SUFFICES ASSUME NEW p \in Panels, NEW d \in Devices, UpToDate(p)'
               PROVE  UpToDate(p) /\ (WillBelieve(p, d)' <=> WillBelieve(p, d))
    BY <1>1, <1>6 DEF PanelsConverge, SystemInv
  <2>1. UpToDate(p) /\ view'[p] = Apply(Head(tasks), view[p])
    BY <1>1, <1>2 DEF UpToDate, SystemInv, SystemTypeOK
  <2>2. CASE Head(tasks).device = d
    BY <1>4, <1>8, <2>1, <2>2 DEF WillBelieve, Apply, Events, Kinds
  <2>3. CASE Head(tasks).device # d
    BY <1>8, <2>1, <2>3 DEF WillBelieve, Apply, Kinds
  <2> QED
    BY <2>1, <2>2, <2>3
<1> QED
  BY <1>3, <1>5, <1>7, <1>10, <1>11 DEF SystemInv

LEMMA SystemInitInv == SystemInit => SystemInv
<1> SUFFICES ASSUME SystemInit PROVE SystemInv
  OBVIOUS
<1>1. IInv
  BY InitIInv DEF SystemInit
<1>2. Len(tasks) = 0 /\ \A d \in Devices : Holders(d) = {}
  BY DEF SystemInit, Init, Holders, Registered
<1>3. SystemTypeOK /\ SharedExact
  BY <1>1, <1>2 DEF SystemInit, IInv, SystemTypeOK, SharedExact
<1>4. QueueTells /\ PanelsConverge
  BY <1>2 DEF SystemInit, QueueTells, PanelsConverge, UpToDate, NothingPosted, LastPosted
<1> QED
  BY <1>1, <1>3, <1>4 DEF SystemInv

LEMMA SystemNextInv == SystemInv /\ [SystemNext]_systemVars => SystemInv'
<1> SUFFICES ASSUME SystemInv, [SystemNext]_systemVars PROVE SystemInv'
  OBVIOUS
<1>1. CASE SystemNext
  BY <1>1, RegistryStepInv, PanelStepInv, BroadcastInv DEF SystemNext
<1>2. CASE UNCHANGED systemVars
  <2>1. IInv'
    BY <1>2, NextIInv DEF SystemInv, systemVars
  <2>2. /\ UNCHANGED <<link, prepared, view, missed, shared, relogged, tasks>>
        /\ \A d \in Devices : /\ Holders(d)' = Holders(d)
                              /\ NothingPosted(d)' <=> NothingPosted(d)
                              /\ \A k \in Kinds : LastPosted(d, k)' <=> LastPosted(d, k)
    BY <1>2, HoldersSame, PostedSame DEF systemVars, daemonVars, vars
  <2>3. SystemTypeOK'
    BY <2>1, <2>2 DEF SystemInv, SystemTypeOK, IInv, Verified
  <2>4. SharedExact' /\ QueueTells'
    BY <2>2 DEF SystemInv, SharedExact, QueueTells, Kinds
  <2>5. PanelsConverge'
    BY <2>2 DEF SystemInv, PanelsConverge, UpToDate, WillBelieve, Kinds
  <2> QED
    BY <2>1, <2>3, <2>4, <2>5 DEF SystemInv
<1> QED
  BY <1>1, <1>2

-----------------------------------------------------------------------------
\* The variables of registry and daemon loop stay in their types, and only a
\* connection that is verified now holds the answer of prepare_service.
THEOREM SystemTypeCorrect == SystemSpec => []SystemTypeOK
<1>1. SystemInv => SystemTypeOK
  BY DEF SystemInv
<1> QED
  BY <1>1, SystemInitInv, SystemNextInv, PTL DEF SystemSpec

\* Every panel that missed no event will believe the truth about every device
\* that is not shared, and never takes an offline device for online, once the
\* callbacks posted by OnSubscriberConnected and OnSubscriberDisConnected ran.
THEOREM PanelsAlwaysConverge == SystemSpec => []PanelsConverge
<1>1. SystemInv => PanelsConverge
  BY DEF SystemInv
<1> QED
  BY <1>1, SystemInitInv, SystemNextInv, PTL DEF SystemSpec

\* prepare_service answers with exactly the registered devices.
THEOREM SnapshotAlwaysExact == SystemSpec => []SnapshotExact
<1>1. SystemInv => SnapshotExact
  BY SnapshotFromInv DEF SystemInv
<1> QED
  BY <1>1, SystemInitInv, SystemNextInv, PTL DEF SystemSpec

\* With the panels beside it the registry still implements sessions: begun and
\* ended by the handlers, reported once and in order to the daemon loop, whose
\* tasks the panels' updates are made from.
THEOREM SystemImplementsSessions == SystemSpec => ImplementsSessions
  BY SystemImplementsRegistry, RegistryImplementsSessions

=============================================================================
