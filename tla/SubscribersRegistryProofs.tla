--------------------- MODULE SubscribersRegistryProofs ---------------------
(***************************************************************************)
(* What holds of the registry for any number of users, devices and         *)
(* connections, whatever the bounds: its types, and the three safety       *)
(* invariants that the limit check, the snapshot and the notifications     *)
(* rely on.  None of the three is inductive alone.  They need each other,  *)
(* and the facts that follow.                                              *)
(***************************************************************************)
EXTENDS SubscribersRegistry, FiniteSetTheorems, TLAPS

\* A loop is inside at most one handler.
OneHandler ==
  \A c \in Clients : \A e \in Peers(c) :
    pc[c] \in Handling /\ pc[e] \in Handling => c = e

\* asked is the argument of a login handler that has not set the login yet.
AskedWhileChecked == \A c \in Clients : pc[c] = "checked" <=> asked[c] # NoDevice

\* The device that a login handler was granted belongs to no other
\* connection of its loop.
AskedIsFree ==
  \A c \in Clients : \A e \in Peers(c) \ {c} :
    pc[c] = "checked" => login[e] # asked[c]

\* Nobody is logged in at a deleted client, and a client that is about to be
\* put into the map has a login.
LoginMatchesPc ==
  \A c \in Clients : /\ pc[c] = "free" => login[c] = NoDevice
                     /\ pc[c] = "assigned" => login[c] # NoDevice

IInv ==
  /\ TypeOK
  /\ OneHandler
  /\ AskedWhileChecked
  /\ AskedIsFree
  /\ LoginMatchesPc
  /\ ListedWhileRegistered
  /\ NoStrayEntry
  /\ OneConnectionPerLoop

-----------------------------------------------------------------------------
\* The two kinds of connection share no address, so peers are peers of each
\* other, and every client is a peer of itself.
LEMMA PeersFacts ==
  ASSUME NEW c \in Clients
  PROVE  /\ c \in Peers(c)
         /\ Peers(c) \subseteq Clients
         /\ \A e \in Peers(c) : Peers(e) = Peers(c)
BY RegistryAssumption DEF Peers, Clients

LEMMA InitIInv == Init => IInv
<1> SUFFICES ASSUME Init PROVE IInv
  OBVIOUS
<1> USE RegistryAssumption DEF Init
<1>1. TypeOK
  BY DEF TypeOK, Loops
<1>2. OneHandler /\ AskedWhileChecked /\ AskedIsFree /\ LoginMatchesPc
  BY PeersFacts DEF OneHandler, AskedWhileChecked, AskedIsFree, LoginMatchesPc, Handling
<1>3. ListedWhileRegistered /\ NoStrayEntry
  BY DEF ListedWhileRegistered, NoStrayEntry, Registered
<1>4. OneConnectionPerLoop
  BY PeersFacts DEF OneConnectionPerLoop
<1> QED
  BY <1>1, <1>2, <1>3, <1>4 DEF IInv


\* Accept: a fresh object, whose login the constructor leaves empty.
LEMMA AcceptIInv == ASSUME NEW c \in Clients, IInv, Accept(c) PROVE IInv'
<1> USE RegistryAssumption DEF IInv, TypeOK
<1> USE DEF Accept, Goes
<1>1. TypeOK'
  BY DEF LoopOf, Loops
<1>2. OneHandler'
  BY PeersFacts DEF OneHandler, Handling
<1>3. AskedWhileChecked' /\ LoginMatchesPc'
  BY DEF AskedWhileChecked, LoginMatchesPc
<1>4. AskedIsFree'
  BY PeersFacts DEF AskedIsFree, AskedWhileChecked
<1>5. ListedWhileRegistered'
  BY DEF ListedWhileRegistered, Registered
<1>6. NoStrayEntry'
  BY DEF NoStrayEntry, Registered
<1>7. OneConnectionPerLoop'
  BY PeersFacts DEF OneConnectionPerLoop
<1> QED
  BY <1>1, <1>2, <1>3, <1>4, <1>5, <1>6, <1>7

\* CheckDevice: the peers of c are in no handler, so each logged-in one is
\* listed under its device's owner, and the limit check sees it.
LEMMA CheckDeviceIInv ==
  ASSUME NEW c \in Clients, NEW d \in Devices, IInv, CheckDevice(c, d)
  PROVE  IInv'
<1> USE RegistryAssumption DEF IInv, TypeOK
<1> USE DEF CheckDevice, Goes
<1>1. TypeOK'
  BY DEF Handling
<1>2. OneHandler'
  BY PeersFacts DEF OneHandler, LoopIdle
<1>3. AskedWhileChecked' /\ LoginMatchesPc'
  BY DEF AskedWhileChecked, LoginMatchesPc
<1>4. AskedIsFree'
  <2>1. ASSUME NEW e \in Peers(c), login[e] = d PROVE FALSE
    <3>1. e \in Clients /\ pc[e] \notin Handling /\ login[e] # NoDevice
      BY <2>1, PeersFacts DEF LoopIdle
    <3>2. pc[e] = "ready"
      BY <3>1 DEF LoginMatchesPc
    <3>3. connections[Owner[d]][e] > 0
      BY <2>1, <3>1, <3>2 DEF ListedWhileRegistered, Registered
    <3> QED
      BY <2>1, <3>1, <3>2, <3>3 DEF Occupied
  <2> QED
    BY <2>1, PeersFacts DEF AskedIsFree, LoopIdle, Handling
<1>5. ListedWhileRegistered'
  BY DEF ListedWhileRegistered, Registered
<1>6. NoStrayEntry'
  BY DEF NoStrayEntry, Registered
<1>7. OneConnectionPerLoop'
  BY DEF OneConnectionPerLoop
<1> QED
  BY <1>1, <1>2, <1>3, <1>4, <1>5, <1>6, <1>7

LEMMA ReplyFailedIInv == ASSUME NEW c \in Clients, IInv, ReplyFailed(c) PROVE IInv'
<1> USE RegistryAssumption DEF IInv, TypeOK
<1> USE DEF ReplyFailed, Goes
<1>1. TypeOK'
  BY DEF Handling
<1>2. OneHandler'
  BY PeersFacts DEF OneHandler, Handling
<1>3. AskedWhileChecked' /\ LoginMatchesPc'
  BY DEF AskedWhileChecked, LoginMatchesPc
<1>4. AskedIsFree'
  BY PeersFacts DEF AskedIsFree
<1>5. ListedWhileRegistered'
  BY DEF ListedWhileRegistered, Registered
<1>6. NoStrayEntry'
  BY DEF NoStrayEntry, Registered
<1>7. OneConnectionPerLoop'
  BY DEF OneConnectionPerLoop
<1> QED
  BY <1>1, <1>2, <1>3, <1>4, <1>5, <1>6, <1>7

\* AssignLogin: the device granted by CheckDevice is still free in this loop.
\* A client that had a login before becomes one of relogged.
LEMMA AssignLoginIInv == ASSUME NEW c \in Clients, IInv, AssignLogin(c) PROVE IInv'
<1> USE RegistryAssumption DEF IInv, TypeOK
<1> USE DEF AssignLogin, Goes
<1>1. TypeOK'
  BY DEF Handling
<1>2. OneHandler'
  BY PeersFacts DEF OneHandler, Handling
<1>3. AskedWhileChecked' /\ LoginMatchesPc'
  BY DEF AskedWhileChecked, LoginMatchesPc
<1>4. AskedIsFree'
  BY PeersFacts DEF AskedIsFree, OneHandler, Handling
<1>5. ListedWhileRegistered'
  BY DEF ListedWhileRegistered, Registered
<1>6. NoStrayEntry'
  BY DEF NoStrayEntry, Registered
<1>7. OneConnectionPerLoop'
  BY PeersFacts DEF OneConnectionPerLoop, AskedIsFree
<1> QED
  BY <1>1, <1>2, <1>3, <1>4, <1>5, <1>6, <1>7

\* Register: the entry appears in the step that makes c registered.
LEMMA RegisterIInv == ASSUME NEW c \in Clients, IInv, Register(c) PROVE IInv'
<1> USE RegistryAssumption DEF IInv, TypeOK
<1> DEFINE to == IF c \in SubClients THEN "ready" ELSE "serving"
<1>0. /\ pc[c] = "assigned" /\ pc' = [pc EXCEPT ![c] = to]
      /\ to \in {"ready", "serving"}
      /\ login[c] \in Devices
      /\ UNCHANGED <<asked, login, stream, onlineClients, relogged>>
      /\ connections' = [connections EXCEPT ![Owner[login[c]]][c] = @ + 1]
      /\ tasks' = Append(tasks, Online(login[c]))
  BY DEF Register, Goes, Post, LoginMatchesPc
<1> HIDE DEF to
<1>1. TypeOK'
  <2>1. tasks' \in Seq(Events)
    BY <1>0 DEF Online, Events
  <2> QED
    BY <1>0, <2>1 DEF Handling
<1>2. OneHandler'
  BY <1>0, PeersFacts DEF OneHandler, Handling
<1>3. AskedWhileChecked' /\ LoginMatchesPc'
  BY <1>0 DEF AskedWhileChecked, LoginMatchesPc
<1>4. AskedIsFree'
  BY <1>0, PeersFacts DEF AskedIsFree
<1>5. ListedWhileRegistered'
  BY <1>0 DEF ListedWhileRegistered, Registered
<1>6. NoStrayEntry'
  BY <1>0 DEF NoStrayEntry, Registered
<1>7. OneConnectionPerLoop'
  BY <1>0 DEF OneConnectionPerLoop
<1> QED
  BY <1>1, <1>2, <1>3, <1>4, <1>5, <1>6, <1>7

LEMMA WatchStreamIInv ==
  ASSUME NEW c \in Clients, NEW sid \in Streams, IInv, WatchStream(c, sid)
  PROVE  IInv'
<1> USE DEF IInv, TypeOK, WatchStream
<1>1. TypeOK'
  OBVIOUS
<1>2. OneHandler' /\ AskedWhileChecked' /\ LoginMatchesPc' /\ AskedIsFree'
  BY DEF OneHandler, AskedWhileChecked, LoginMatchesPc, AskedIsFree
<1>3. ListedWhileRegistered' /\ NoStrayEntry' /\ OneConnectionPerLoop'
  BY DEF ListedWhileRegistered, NoStrayEntry, Registered, OneConnectionPerLoop
<1> QED
  BY <1>1, <1>2, <1>3

\* HttpRequest and FinishRequest: c stays registered.
LEMMA HttpRequestIInv == ASSUME NEW c \in Clients, IInv, HttpRequest(c) PROVE IInv'
<1> USE RegistryAssumption DEF IInv, TypeOK
<1> USE DEF HttpRequest, Goes
<1>1. TypeOK'
  BY DEF Handling
<1>2. OneHandler'
  BY PeersFacts DEF OneHandler, LoopIdle
<1>3. AskedWhileChecked' /\ LoginMatchesPc'
  BY DEF AskedWhileChecked, LoginMatchesPc
<1>4. AskedIsFree'
  BY PeersFacts DEF AskedIsFree
<1>5. ListedWhileRegistered' /\ NoStrayEntry'
  BY DEF ListedWhileRegistered, NoStrayEntry, Registered
<1>6. OneConnectionPerLoop'
  BY DEF OneConnectionPerLoop
<1> QED
  BY <1>1, <1>2, <1>3, <1>4, <1>5, <1>6

LEMMA FinishRequestIInv ==
  ASSUME NEW c \in Clients, NEW sid \in Streams \cup {NoStream}, NEW k \in BOOLEAN,
         IInv, FinishRequest(c, sid, k)
  PROVE  IInv'
<1> USE RegistryAssumption DEF IInv, TypeOK
<1> DEFINE to == IF k THEN "ready" ELSE "closing"
<1>0. /\ pc[c] = "serving" /\ pc' = [pc EXCEPT ![c] = to]
      /\ to \in {"ready", "closing"}
      /\ stream' = [stream EXCEPT ![c] = IF sid = NoStream THEN @ ELSE sid]
      /\ UNCHANGED <<asked, login, connections, tasks, onlineClients, relogged>>
  BY DEF FinishRequest, Goes
<1> HIDE DEF to
<1>1. TypeOK'
  BY <1>0 DEF Handling
<1>2. OneHandler'
  BY <1>0, PeersFacts DEF OneHandler, Handling
<1>3. AskedWhileChecked' /\ LoginMatchesPc'
  BY <1>0 DEF AskedWhileChecked, LoginMatchesPc
<1>4. AskedIsFree'
  BY <1>0, PeersFacts DEF AskedIsFree
<1>5. ListedWhileRegistered' /\ NoStrayEntry'
  BY <1>0 DEF ListedWhileRegistered, NoStrayEntry, Registered
<1>6. OneConnectionPerLoop'
  BY <1>0 DEF OneConnectionPerLoop
<1> QED
  BY <1>1, <1>2, <1>3, <1>4, <1>5, <1>6

\* Unregister: only entries of c itself go, and c is no longer registered.
LEMMA UnregisterIInv == ASSUME NEW c \in Clients, IInv, Unregister(c) PROVE IInv'
<1> USE RegistryAssumption DEF IInv, TypeOK
<1>0. /\ pc' = [pc EXCEPT ![c] = "removed"]
      /\ pc[c] \in {"ready", "closing"}
      /\ pc[c] = "closing" \/ LoopIdle(c)
      /\ UNCHANGED <<asked, login, stream, onlineClients, relogged>>
  BY DEF Unregister, Goes
<1>1. /\ tasks' \in Seq(Events)
      /\ connections' \in [Users -> [Clients -> Nat]]
      /\ \A u \in Users, e \in Clients :
           connections'[u][e] = IF /\ e = c /\ login[c] # NoDevice
                                   /\ u = Owner[login[c]] /\ connections[u][e] > 0
                                THEN connections[u][e] - 1 ELSE connections[u][e]
  <2>1. CASE login[c] = NoDevice
    BY <2>1 DEF Unregister
  <2>2. CASE login[c] # NoDevice
    <3>1. login[c] \in Devices /\ Offline(login[c]) \in Events
      BY <2>2 DEF Offline, Events
    <3>2. tasks' \in Seq(Events)
      <4>1. tasks' = Append(tasks, Offline(login[c]))
        BY <2>2 DEF Unregister, Post
      <4> QED
        BY <3>1, <4>1
    <3> DEFINE o == Owner[login[c]]
               n == IF connections[o][c] = 0 THEN 0 ELSE connections[o][c] - 1
    <3>3. o \in Users /\ connections[o][c] \in Nat /\ n \in Nat
      BY <3>1
    <3>4. connections' = [connections EXCEPT ![o][c] = n]
      BY <2>2 DEF Unregister
    <3>5. connections[o][c] > 0 => n = connections[o][c] - 1
      BY <3>3
    <3>6. ~(connections[o][c] > 0) => n = connections[o][c]
      BY <3>3
    <3> HIDE DEF n
    <3>7. \A u \in Users, e \in Clients :
            connections'[u][e] = IF e = c /\ u = o THEN n ELSE connections[u][e]
      BY <3>3, <3>4
    <3>8. connections' \in [Users -> [Clients -> Nat]]
      BY <3>3, <3>4
    <3> QED
      BY <2>2, <3>2, <3>5, <3>6, <3>7, <3>8
  <2> QED
    BY <2>1, <2>2
<1>2. TypeOK'
  BY <1>0, <1>1 DEF Handling
<1>3. OneHandler'
  BY <1>0, PeersFacts DEF OneHandler, Handling, LoopIdle
<1>4. AskedWhileChecked' /\ LoginMatchesPc'
  BY <1>0 DEF AskedWhileChecked, LoginMatchesPc
<1>5. AskedIsFree'
  BY <1>0, PeersFacts DEF AskedIsFree
<1>6. ListedWhileRegistered'
  BY <1>0, <1>1 DEF ListedWhileRegistered, Registered
<1>7. NoStrayEntry'
  BY <1>0, <1>1 DEF NoStrayEntry, Registered
<1>8. OneConnectionPerLoop'
  BY <1>0 DEF OneConnectionPerLoop
<1> QED
  BY <1>2, <1>3, <1>4, <1>5, <1>6, <1>7, <1>8

LEMMA ReleaseIInv == ASSUME NEW c \in Clients, IInv, Release(c) PROVE IInv'
<1> USE RegistryAssumption DEF IInv, TypeOK
<1> USE DEF Release, Goes
<1>1. TypeOK'
  BY DEF LoopOf, Loops, Handling
<1>2. OneHandler'
  BY PeersFacts DEF OneHandler, Handling
<1>3. AskedWhileChecked' /\ LoginMatchesPc'
  BY DEF AskedWhileChecked, LoginMatchesPc
<1>4. AskedIsFree'
  BY PeersFacts DEF AskedIsFree, AskedWhileChecked
<1>5. ListedWhileRegistered' /\ NoStrayEntry'
  BY DEF ListedWhileRegistered, NoStrayEntry, Registered
<1>6. OneConnectionPerLoop'
  BY PeersFacts DEF OneConnectionPerLoop
<1> QED
  BY <1>1, <1>2, <1>3, <1>4, <1>5, <1>6

LEMMA DeliverIInv == IInv /\ Deliver => IInv'
<1> SUFFICES ASSUME IInv, Deliver PROVE IInv'
  OBVIOUS
<1> USE DEF IInv, TypeOK, Deliver
<1>1. TypeOK'
  OBVIOUS
<1>2. OneHandler' /\ AskedWhileChecked' /\ LoginMatchesPc' /\ AskedIsFree'
  BY DEF OneHandler, AskedWhileChecked, LoginMatchesPc, AskedIsFree
<1>3. ListedWhileRegistered' /\ NoStrayEntry' /\ OneConnectionPerLoop'
  BY DEF ListedWhileRegistered, NoStrayEntry, Registered, OneConnectionPerLoop
<1> QED
  BY <1>1, <1>2, <1>3

LEMMA NextIInv == IInv /\ [Next]_vars => IInv'
<1> SUFFICES ASSUME IInv, [Next]_vars PROVE IInv'
  OBVIOUS
<1>1. CASE Deliver
  BY <1>1, DeliverIInv
<1>2. ASSUME NEW c \in Clients, ClientStep(c) PROVE IInv'
  BY <1>2, AcceptIInv, CheckDeviceIInv, ReplyFailedIInv, AssignLoginIInv, RegisterIInv,
     WatchStreamIInv, HttpRequestIInv, FinishRequestIInv, UnregisterIInv, ReleaseIInv
     DEF ClientStep
<1>3. CASE UNCHANGED vars
  BY <1>3 DEF vars, IInv, TypeOK, OneHandler, AskedWhileChecked, AskedIsFree, LoginMatchesPc,
              ListedWhileRegistered, NoStrayEntry, Registered, OneConnectionPerLoop
<1> QED
  BY <1>1, <1>2, <1>3 DEF Next

-----------------------------------------------------------------------------
(***************************************************************************)
(* online_clients_.  The open connections are counted one by one, so they  *)
(* are finitely many even when addresses are not.                          *)
(***************************************************************************)

Open(l) == {c \in Clients : LoopOf(c) = l /\ pc[c] # "free"}

CountInv ==
  \A l \in Loops : IsFiniteSet(Open(l)) /\ onlineClients[l] = Cardinality(Open(l))

LEMMA InitCountInv == Init => CountInv
<1> SUFFICES ASSUME Init, NEW l \in Loops
             PROVE  IsFiniteSet(Open(l)) /\ onlineClients[l] = Cardinality(Open(l))
  BY DEF CountInv
<1>1. Open(l) = {}
  BY DEF Init, Open
<1> QED
  BY <1>1, FS_EmptySet DEF Init

\* Accept and Release move one connection of one loop and its count by one;
\* no other step opens or frees a connection.
LEMMA NextCountInv == TypeOK /\ CountInv /\ [Next]_vars => CountInv'
<1> SUFFICES ASSUME TypeOK, CountInv, [Next]_vars, NEW l \in Loops
             PROVE  IsFiniteSet(Open(l)') /\ onlineClients'[l] = Cardinality(Open(l)')
  BY DEF CountInv
<1>0. IsFiniteSet(Open(l)) /\ onlineClients[l] = Cardinality(Open(l))
  BY DEF CountInv
<1>1. ASSUME NEW c \in Clients, Accept(c)
      PROVE  IsFiniteSet(Open(l)') /\ onlineClients'[l] = Cardinality(Open(l)')
  <2>1. CASE LoopOf(c) = l
    <3>1. c \notin Open(l) /\ Open(l)' = Open(l) \cup {c}
      BY <1>1, <2>1 DEF Open, Accept, Goes, TypeOK
    <3>2. onlineClients'[l] = onlineClients[l] + 1
      BY <1>1, <2>1 DEF Accept, TypeOK
    <3> QED
      BY <1>0, <3>1, <3>2, FS_AddElement
  <2>2. CASE LoopOf(c) # l
    <3>1. Open(l)' = Open(l)
      BY <1>1, <2>2 DEF Open, Accept, Goes, TypeOK
    <3>2. onlineClients'[l] = onlineClients[l]
      BY <1>1, <2>2 DEF Accept, TypeOK
    <3> QED
      BY <1>0, <3>1, <3>2
  <2> QED
    BY <2>1, <2>2
<1>2. ASSUME NEW c \in Clients, Release(c)
      PROVE  IsFiniteSet(Open(l)') /\ onlineClients'[l] = Cardinality(Open(l)')
  <2>1. CASE LoopOf(c) = l
    <3>1. c \in Open(l) /\ Open(l)' = Open(l) \ {c}
      BY <1>2, <2>1 DEF Open, Release, Goes, TypeOK
    <3>2. onlineClients'[l] = onlineClients[l] - 1
      BY <1>2, <2>1 DEF Release, TypeOK
    <3> QED
      BY <1>0, <3>1, <3>2, FS_RemoveElement
  <2>2. CASE LoopOf(c) # l
    <3>1. Open(l)' = Open(l)
      BY <1>2, <2>2 DEF Open, Release, Goes, TypeOK
    <3>2. onlineClients'[l] = onlineClients[l]
      BY <1>2, <2>2 DEF Release, TypeOK
    <3> QED
      BY <1>0, <3>1, <3>2
  <2> QED
    BY <2>1, <2>2
<1>3. ASSUME NEW c \in Clients, ClientStep(c), ~Accept(c), ~Release(c)
      PROVE  onlineClients' = onlineClients /\ Open(l)' = Open(l)
  <2>1. onlineClients' = onlineClients
    BY <1>3 DEF ClientStep, CheckDevice, ReplyFailed, AssignLogin, Register, WatchStream,
                HttpRequest, FinishRequest, Unregister
  <2>2. \/ pc' = pc
        \/ \E to \in Handling \cup {"ready"} : pc[c] # "free" /\ pc' = [pc EXCEPT ![c] = to]
    BY <1>3 DEF ClientStep, CheckDevice, ReplyFailed, AssignLogin, Register, WatchStream,
                HttpRequest, FinishRequest, Unregister, Goes, Handling
  <2>3. Open(l)' = Open(l)
    BY <2>2 DEF Open, TypeOK, Handling
  <2> QED
    BY <2>1, <2>3
<1>4. CASE Deliver \/ UNCHANGED vars
  BY <1>0, <1>4 DEF Deliver, vars, Open
<1> QED
  BY <1>0, <1>1, <1>2, <1>3, <1>4 DEF Next

-----------------------------------------------------------------------------
\* The inductive invariant holds throughout every behaviour of the registry.
THEOREM InductiveInvariant == Spec => []IInv
BY InitIInv, NextIInv, PTL DEF Spec

\* Type correctness.
THEOREM TypeCorrect == Spec => []TypeOK
<1>1. IInv => TypeOK
  BY DEF IInv
<1> QED
  BY <1>1, InductiveInvariant, PTL

\* A registered connection is always listed under its present user
\* (RegisterInnerConnectionByHost, UnRegisterInnerConnectionByHost), however
\* many logins and address reuses came before.
THEOREM AlwaysListed == Spec => []ListedWhileRegistered
<1>1. IInv => ListedWhileRegistered
  BY DEF IInv
<1> QED
  BY <1>1, InductiveInvariant, PTL

\* The map holds a connection that logged in at most once exactly while it is
\* registered: no pointer outlives its client.
THEOREM NeverStray == Spec => []NoStrayEntry
<1>1. IInv => NoStrayEntry
  BY DEF IInv
<1> QED
  BY <1>1, InductiveInvariant, PTL

\* The device limit of ClientLoginImpl holds inside each loop although the
\* mutex is given back between the check and the registration.
THEOREM LimitPerLoop == Spec => []OneConnectionPerLoop
<1>1. IInv => OneConnectionPerLoop
  BY DEF IInv
<1> QED
  BY <1>1, InductiveInvariant, PTL

\* SetLogin, outside the mutex, never writes a login that another thread can
\* reach through the map, unless the connection logs in a second time.
THEOREM UnsharedWrites == Spec => LoginWrittenUnshared
<1> DEFINE A == \A c \in Clients \ relogged' :
                  login'[c] # login[c] => \A u \in Users : connections[u][c] = 0
<1>1. ASSUME IInv, [Next]_vars PROVE A
  <2> SUFFICES ASSUME NEW c \in Clients, c \notin relogged', login'[c] # login[c]
               PROVE  ~Registered(c) /\ c \notin relogged
    BY <1>1 DEF IInv, NoStrayEntry
  <2>1. PICK e \in Clients : Accept(e) \/ AssignLogin(e) \/ Release(e)
    BY <1>1 DEF Next, vars, Deliver, ClientStep, CheckDevice, ReplyFailed, Register,
                WatchStream, HttpRequest, FinishRequest, Unregister
  <2>2. e = c
    BY <1>1, <2>1 DEF Accept, AssignLogin, Release, IInv, TypeOK
  <2> QED
    BY <1>1, <2>1, <2>2
       DEF Accept, AssignLogin, Release, Goes, Registered, IInv, TypeOK
<1> QED
  BY <1>1, InductiveInvariant, PTL DEF Spec, LoginWrittenUnshared

\* online_clients_, which Accepted and Closed count up and down, is the number
\* of open connections, those included that never logged in.
THEOREM CountsAlwaysExact == Spec => []OnlineClientsExact
<1>1. CountInv => OnlineClientsExact
  BY DEF CountInv, OnlineClientsExact, Open
<1> QED
  BY <1>1, InitCountInv, NextCountInv, TypeCorrect, PTL DEF Spec

\* No device is granted while a registered connection of either loop has it.
THEOREM RefusalIsSound == Spec => RefusedWhileRegistered
<1> DEFINE A == \A c, e \in Clients :
       (pc[c] = "ready" /\ pc'[c] = "checked" /\ Registered(e)) => login[e] # asked'[c]
<1>1. ASSUME IInv, [Next]_vars PROVE A
  <2> SUFFICES ASSUME NEW c \in Clients, NEW e \in Clients,
                      pc[c] = "ready", pc'[c] = "checked", Registered(e),
                      login[e] = asked'[c]
               PROVE  FALSE
    OBVIOUS
  <2>1. PICK f \in Clients : ClientStep(f)
    BY <1>1 DEF Next, vars, Deliver
  <2>2. PICK d \in Devices : CheckDevice(c, d)
    BY <1>1, <2>1
       DEF ClientStep, Accept, CheckDevice, ReplyFailed, AssignLogin, Register, WatchStream,
           HttpRequest, FinishRequest, Unregister, Release, Goes, IInv, TypeOK
  <2>3. login[e] = d /\ pc[e] # "free"
    BY <1>1, <2>2 DEF CheckDevice, IInv, TypeOK, Registered
  <2>4. connections[Owner[d]][e] > 0
    BY <1>1, <2>3 DEF IInv, ListedWhileRegistered
  <2> QED
    BY <2>2, <2>3, <2>4 DEF CheckDevice, Occupied
<1> QED
  BY <1>1, InductiveInvariant, PTL DEF Spec, RefusedWhileRegistered

-----------------------------------------------------------------------------
(***************************************************************************)
(* The registry implements Sessions.  Three of its steps change a session: *)
(* a second AssignLogin drops one, Register begins one, Unregister ends    *)
(* one; Deliver takes a report and every other step is a stutter.          *)
(***************************************************************************)

\* A step that keeps Registered and the login of every client, the queue and
\* the history is invisible.
LEMMA SilentStep ==
  ASSUME IInv, UNCHANGED <<tasks, relogged>>,
         \A c \in Clients : /\ Registered(c)' <=> Registered(c)
                            /\ Registered(c) => login'[c] = login[c]
  PROVE  UNCHANGED Abstract!sessionVars
BY DEF Abstract!sessionVars, Session

LEMMA AssignLoginDrops ==
  ASSUME NEW c \in Clients, IInv, AssignLogin(c)
  PROVE  [Abstract!Next]_(Abstract!sessionVars)
<1> USE DEF AssignLogin, Goes, IInv, TypeOK
<1>1. CASE login[c] = NoDevice
  <2>1. \A e \in Clients : /\ Registered(e)' <=> Registered(e)
                           /\ Registered(e) => login'[e] = login[e]
    BY <1>1 DEF Registered
  <2> QED
    BY <1>1, <2>1, SilentStep
<1>2. CASE login[c] # NoDevice
  <2>1. Session[c] # NoDevice
    BY <1>2 DEF Session, Registered
  <2>2. Session' = [Session EXCEPT ![c] = NoDevice]
    BY <1>2 DEF Session, Registered
  <2>3. Abstract!Drop(c)
    BY <1>2, <2>1, <2>2 DEF Abstract!Drop
  <2> QED
    BY <2>3 DEF Abstract!Next
<1> QED
  BY <1>1, <1>2

LEMMA RegisterBegins ==
  ASSUME NEW c \in Clients, IInv, Register(c)
  PROVE  Abstract!Next
<1> DEFINE to == IF c \in SubClients THEN "ready" ELSE "serving"
<1>1. /\ pc[c] = "assigned" /\ pc' = [pc EXCEPT ![c] = to]
      /\ to \in {"ready", "serving"}
      /\ login[c] \in Devices
      /\ UNCHANGED <<login, relogged>>
      /\ tasks' = Append(tasks, Online(login[c]))
  BY DEF Register, Goes, Post, IInv, TypeOK, LoginMatchesPc
<1> HIDE DEF to
<1>2. Session[c] = NoDevice
  BY <1>1 DEF Session, Registered
<1>3. \A e \in Others(c) : Session[e] # login[c]
  BY <1>1, PeersFacts, RegistryAssumption DEF Others, Session, IInv, OneConnectionPerLoop
<1>4. Session' = [Session EXCEPT ![c] = login[c]]
  BY <1>1, RegistryAssumption DEF Session, Registered, IInv, TypeOK
<1>5. Abstract!Begin(c, login[c])
  BY <1>1, <1>2, <1>3, <1>4 DEF Abstract!Begin, Online
<1> QED
  BY <1>1, <1>5 DEF Abstract!Next

LEMMA UnregisterEnds ==
  ASSUME NEW c \in Clients, IInv, Unregister(c)
  PROVE  [Abstract!Next]_(Abstract!sessionVars)
<1>1. /\ pc[c] \in {"ready", "closing"} /\ pc' = [pc EXCEPT ![c] = "removed"]
      /\ UNCHANGED <<login, relogged>>
  BY DEF Unregister, Goes
<1>2. CASE login[c] = NoDevice
  <2>1. UNCHANGED tasks
    BY <1>2 DEF Unregister
  <2>2. \A e \in Clients : /\ Registered(e)' <=> Registered(e)
                           /\ Registered(e) => login'[e] = login[e]
    BY <1>1, <1>2 DEF Registered, IInv, TypeOK
  <2> QED
    BY <1>1, <2>1, <2>2, SilentStep
<1>3. CASE login[c] # NoDevice
  <2>1. tasks' = Append(tasks, Offline(login[c]))
    BY <1>3 DEF Unregister, Post
  <2>2. Session[c] = login[c]
    BY <1>1, <1>3 DEF Session, Registered
  <2>3. Session' = [Session EXCEPT ![c] = NoDevice]
    BY <1>1, <1>3 DEF Session, Registered, IInv, TypeOK
  <2>4. Abstract!End(c)
    BY <1>1, <1>3, <2>1, <2>2, <2>3 DEF Abstract!End, Offline
  <2> QED
    BY <2>4 DEF Abstract!Next
<1> QED
  BY <1>2, <1>3

\* Every other step of a connection leaves its session and the queue alone.
LEMMA OtherStepsSilent ==
  ASSUME NEW c \in Clients, IInv, ClientStep(c),
         ~AssignLogin(c), ~Register(c), ~Unregister(c)
  PROVE  UNCHANGED Abstract!sessionVars
<1>1. UNCHANGED <<tasks, relogged>>
  BY DEF ClientStep, Accept, CheckDevice, ReplyFailed, WatchStream, HttpRequest,
         FinishRequest, Release
<1>2. \A e \in Clients : /\ Registered(e)' <=> Registered(e)
                         /\ Registered(e) => login'[e] = login[e]
  <2> USE DEF Registered, Goes, IInv, TypeOK
  <2>1. CASE Accept(c)
    BY <2>1 DEF Accept
  <2>2. CASE \E d \in Devices : CheckDevice(c, d)
    BY <2>2 DEF CheckDevice
  <2>3. CASE ReplyFailed(c)
    BY <2>3 DEF ReplyFailed
  <2>4. CASE \E sid \in Streams : WatchStream(c, sid)
    BY <2>4 DEF WatchStream
  <2>5. CASE HttpRequest(c)
    BY <2>5 DEF HttpRequest
  <2>6. ASSUME NEW sid \in Streams \cup {NoStream}, NEW k \in BOOLEAN,
               FinishRequest(c, sid, k)
        PROVE  \A e \in Clients : /\ Registered(e)' <=> Registered(e)
                                  /\ Registered(e) => login'[e] = login[e]
    BY <2>6 DEF FinishRequest
  <2>7. CASE Release(c)
    BY <2>7 DEF Release
  <2> QED
    BY <2>1, <2>2, <2>3, <2>4, <2>5, <2>6, <2>7 DEF ClientStep
<1> QED
  BY <1>1, <1>2, SilentStep

LEMMA StepSimulation ==
  IInv /\ [Next]_vars => [Abstract!Next]_(Abstract!sessionVars)
<1> SUFFICES ASSUME IInv, [Next]_vars PROVE [Abstract!Next]_(Abstract!sessionVars)
  OBVIOUS
<1>1. CASE Deliver
  <2>1. UNCHANGED <<Session, relogged>>
    BY <1>1 DEF Deliver, Session, Registered
  <2>2. Abstract!Take
    BY <1>1, <2>1 DEF Deliver, Abstract!Take
  <2> QED
    BY <2>2 DEF Abstract!Next
<1>2. ASSUME NEW c \in Clients, ClientStep(c)
      PROVE  [Abstract!Next]_(Abstract!sessionVars)
  BY <1>2, AssignLoginDrops, RegisterBegins, UnregisterEnds, OtherStepsSilent
<1>3. CASE UNCHANGED vars
  <2>1. \A c \in Clients : /\ Registered(c)' <=> Registered(c)
                           /\ Registered(c) => login'[c] = login[c]
    BY <1>3 DEF vars, Registered
  <2> QED
    BY <1>3, <2>1, SilentStep DEF vars
<1> QED
  BY <1>1, <1>2, <1>3 DEF Next

\* The handlers in pieces, the two threads and the map of pointers implement
\* sessions that begin and end in one step each, with one report for either:
\* OnSubscriberConnected and OnSubscriberDisConnected miss nothing but the
\* session that a second login of a connection drops.
THEOREM RegistryImplementsSessions == Spec => ImplementsSessions
<1>1. Init => Abstract!Init
  BY DEF Init, Abstract!Init, Session, Registered
<1> QED
  BY <1>1, InductiveInvariant, StepSimulation, PTL
     DEF Spec, ImplementsSessions, Abstract!Spec
=============================================================================
