------------------------ MODULE SubscribersRegistry ------------------------
(***************************************************************************)
(* The registry of logged-in connections, mongo::SubscribersManager, and   *)
(* the two threads that mutate it: the subscribers loop and the http loop  *)
(* (ProcessSlaveWrapper::Exec starts one std::thread for each).            *)
(*                                                                         *)
(* A loop runs one handler at a time to its end; the two loops, and the    *)
(* daemon loop that reads the registry, interleave wherever a handler does *)
(* not hold connections_mutex_.  A handler is therefore split into the     *)
(* pieces between which another thread may run, and pc says which piece a  *)
(* connection's handler has reached.                                       *)
(*                                                                         *)
(* A client is a heap address: it can be handed out again after the object *)
(* there was deleted, while a stale pointer to it is still in the map.     *)
(*                                                                         *)
(* Abstractions.                                                           *)
(*  - A device id is a Mongo ObjectId of one user's "devices" array, so    *)
(*    the device names the whole session: user, e-mail and password of the *)
(*    ServerDBAuthInfo are functions of it (Owner gives the user id).      *)
(*  - connections_[uid] is a vector of pointers; only how often it holds a *)
(*    pointer matters to every operation modelled here.                    *)
(*  - Requests that are refused without touching any state (bad JSON, a    *)
(*    wrong password, a banned device) are not steps.                      *)
(*  - A read of a deleted object, or of a login another thread is writing, *)
(*    may produce anything.  Such a read can only make CheckDevice refuse  *)
(*    (no step) or miss that entry; the guard of CheckDevice therefore     *)
(*    counts the entries of live objects alone.                            *)
(***************************************************************************)
EXTENDS Integers, Sequences, FiniteSets

CONSTANTS
  Users,        \* user ids, the keys of connections_
  Devices,      \* device ids
  Owner,        \* Owner[d]: the user whose profile lists device d
  SubClients,   \* addresses of SubscriberClient objects
  HttpClients,  \* addresses of HttpClient objects
  Streams,      \* stream ids
  NoDevice,     \* an empty SubscriberInfo::login_
  NoStream,     \* fastotv::invalid_stream_id
  MaxCopies,    \* bound: pointers to one client under one user
  MaxTasks      \* bound: callbacks waiting in the daemon loop

Clients == SubClients \cup HttpClients

ASSUME RegistryAssumption ==
  /\ SubClients \cap HttpClients = {}
  /\ Owner \in [Devices -> Users]
  /\ NoDevice \notin Devices
  /\ NoStream \notin Streams
  /\ MaxCopies \in Nat \ {0}
  /\ MaxTasks \in Nat \ {0}

VARIABLES
  pc,           \* how far the handler working for this connection has come
  asked,        \* the device the login handler of this connection authorised
  login,        \* SubscriberInfo::login_
  stream,       \* SubscriberInfo::current_stream_id_
  connections,  \* SubscribersManager::connections_
  tasks,        \* presence callbacks posted to the daemon loop, oldest first
  onlineClients,\* IServerHandler::online_clients_ of each loop's handler
  relogged      \* history: clients that logged in again while logged in

vars == <<pc, asked, login, stream, connections, tasks, onlineClients, relogged>>

-----------------------------------------------------------------------------
Loops == {"subs", "http"}

\* The connections served by the same thread as c.
Peers(c) == IF c \in SubClients THEN SubClients ELSE HttpClients

LoopOf(c) == IF c \in SubClients THEN "subs" ELSE "http"

(* "free": no object at this address.  "ready": accepted, no handler is     *)
(* running for it.  The other values are inside a handler: "checked", past  *)
(* ClientLogin; "assigned", past SetLogin but not yet in the map;           *)
(* "serving", an authorised http request; "closing", about to call Close;   *)
(* "removed", taken out of the map but not yet deleted.                     *)
Handling == {"checked", "assigned", "serving", "closing", "removed"}

\* The loop of c is between two handlers.
LoopIdle(c) == \A e \in Peers(c) : pc[e] \notin Handling

Goes(c, from, to) == pc[c] = from /\ pc' = [pc EXCEPT ![c] = to]

Online(d)  == [event |-> "connected", device |-> d]
Offline(d) == [event |-> "disconnected", device |-> d]
Events == [event : {"connected", "disconnected"}, device : Devices]

\* OnSubscriberConnected and OnSubscriberDisConnected hand the broadcast to
\* the daemon loop while connections_mutex_ is held.
Post(e) == Len(tasks) < MaxTasks /\ tasks' = Append(tasks, e)

\* Faulty variant of Occupied: connections of the http loop are not counted.
OccupiedIgnoringHttp(d) ==
  \E e \in SubClients : /\ connections[Owner[d]][e] > 0
                        /\ pc[e] # "free"
                        /\ login[e] = d

\* Some live connection listed under d's owner has the device id d.
Occupied(d) ==
  \E e \in Clients : /\ connections[Owner[d]][e] > 0
                     /\ pc[e] # "free"
                     /\ login[e] = d

Init ==
  /\ pc = [c \in Clients |-> "free"]
  /\ asked = [c \in Clients |-> NoDevice]
  /\ login = [c \in Clients |-> NoDevice]
  /\ stream = [c \in Clients |-> NoStream]
  /\ connections = [u \in Users |-> [c \in Clients |-> 0]]
  /\ tasks = <<>>
  /\ onlineClients = [l \in Loops |-> 0]
  /\ relogged = {}

-----------------------------------------------------------------------------
(***************************************************************************)
(* Accepting, logging in.                                                  *)
(***************************************************************************)

\* The loop allocates a client and its handler counts it.
Accept(c) ==
  /\ LoopIdle(c)
  /\ Goes(c, "free", "ready")
  /\ login' = [login EXCEPT ![c] = NoDevice]
  /\ stream' = [stream EXCEPT ![c] = NoStream]
  /\ onlineClients' = [onlineClients EXCEPT ![LoopOf(c)] = @ + 1]
  /\ UNCHANGED <<asked, connections, tasks, relogged>>

\* Faulty variant of CheckDevice: http logins skip the limit check.
CheckDeviceSubsOnly(c, d) ==
  /\ LoopIdle(c)
  /\ c \in HttpClients => login[c] = NoDevice
  /\ c \in SubClients => ~Occupied(d)
  /\ connections[Owner[d]][c] < MaxCopies
  /\ Goes(c, "ready", "checked")
  /\ asked' = [asked EXCEPT ![c] = d]
  /\ UNCHANGED <<login, stream, connections, tasks, onlineClients, relogged>>

\* ClientLogin accepted the device: its limit check found no connection of
\* that device, and gave the mutex back.  The subscribers handler lets a
\* logged-in connection log in again; the http handler does not get here.
CheckDevice(c, d) ==
  /\ LoopIdle(c)
  /\ c \in HttpClients => login[c] = NoDevice
  /\ ~Occupied(d)
  /\ connections[Owner[d]][c] < MaxCopies
  /\ Goes(c, "ready", "checked")
  /\ asked' = [asked EXCEPT ![c] = d]
  /\ UNCHANGED <<login, stream, connections, tasks, onlineClients, relogged>>

\* LoginSuccess could not be written: the handler returns before registering.
ReplyFailed(c) ==
  /\ c \in SubClients
  /\ Goes(c, "checked", "ready")
  /\ asked' = [asked EXCEPT ![c] = NoDevice]
  /\ UNCHANGED <<login, stream, connections, tasks, onlineClients, relogged>>

\* RegisterInnerConnectionByHost sets the login before it takes the mutex.
AssignLogin(c) ==
  /\ Goes(c, "checked", "assigned")
  /\ login' = [login EXCEPT ![c] = asked[c]]
  /\ asked' = [asked EXCEPT ![c] = NoDevice]
  /\ relogged' = IF login[c] = NoDevice THEN relogged ELSE relogged \cup {c}
  /\ UNCHANGED <<stream, connections, tasks, onlineClients>>

\* Faulty variant of Register: the user's list is replaced, not extended.
RegisterReplacing(c) ==
  /\ Goes(c, "assigned", IF c \in SubClients THEN "ready" ELSE "serving")
  /\ connections' = [connections EXCEPT ![Owner[login[c]]] =
                       [e \in Clients |-> IF e = c THEN 1 ELSE 0]]
  /\ Post(Online(login[c]))
  /\ UNCHANGED <<asked, login, stream, onlineClients, relogged>>

\* ... and under the mutex appends the pointer and posts the event.
Register(c) ==
  /\ Goes(c, "assigned", IF c \in SubClients THEN "ready" ELSE "serving")
  /\ connections' = [connections EXCEPT ![Owner[login[c]]][c] = @ + 1]
  /\ Post(Online(login[c]))
  /\ UNCHANGED <<asked, login, stream, onlineClients, relogged>>

-----------------------------------------------------------------------------
(***************************************************************************)
(* Requests of a logged-in connection.                                     *)
(***************************************************************************)

\* get_runtime_channel_info: count the watchers of sid, then become one.
WatchStream(c, sid) ==
  /\ c \in SubClients
  /\ LoopIdle(c)
  /\ pc[c] = "ready"
  /\ login[c] # NoDevice
  /\ stream' = [stream EXCEPT ![c] = sid]
  /\ UNCHANGED <<pc, asked, login, connections, tasks, onlineClients, relogged>>

\* A further request on a kept-alive http connection skips the login.
HttpRequest(c) ==
  /\ c \in HttpClients
  /\ LoopIdle(c)
  /\ login[c] # NoDevice
  /\ Goes(c, "ready", "serving")
  /\ UNCHANGED <<asked, login, stream, connections, tasks, onlineClients, relogged>>

\* The request ends: the stream is recorded if the redirect or the file was
\* sent, and the connection stays open only if the request said Keep-Alive.
FinishRequest(c, sid, keepAlive) ==
  /\ c \in HttpClients
  /\ Goes(c, "serving", IF keepAlive THEN "ready" ELSE "closing")
  /\ stream' = [stream EXCEPT ![c] = IF sid = NoStream THEN @ ELSE sid]
  /\ UNCHANGED <<asked, login, connections, tasks, onlineClients, relogged>>

-----------------------------------------------------------------------------
(***************************************************************************)
(* Closing.  Any handler may end in Close and delete: a read error, a ping *)
(* that could not be written, a request before the login.                  *)
(***************************************************************************)

\* Faulty variant of Unregister: the missing login is not noticed.
UnregisterUnchecked(c) ==
  /\ \/ LoopIdle(c) /\ Goes(c, "ready", "removed")
     \/ Goes(c, "closing", "removed")
  /\ IF login[c] = NoDevice
     THEN UNCHANGED connections
     ELSE connections' = [connections EXCEPT ![Owner[login[c]]][c] =
                            IF @ = 0 THEN 0 ELSE @ - 1]
  /\ Post(Offline(login[c]))
  /\ UNCHANGED <<asked, login, stream, onlineClients, relogged>>

\* Faulty variant of Unregister: the search for the own pointer is missing
\* and whichever comes first in the user's list is erased.
UnregisterFirst(c) ==
  /\ \/ LoopIdle(c) /\ Goes(c, "ready", "removed")
     \/ Goes(c, "closing", "removed")
  /\ IF login[c] = NoDevice
     THEN UNCHANGED <<connections, tasks>>
     ELSE /\ \E e \in Clients :
               /\ connections[Owner[login[c]]][e] > 0
               /\ connections' = [connections EXCEPT ![Owner[login[c]]][e] = @ - 1]
          /\ Post(Offline(login[c]))
  /\ UNCHANGED <<asked, login, stream, onlineClients, relogged>>

\* UnRegisterInnerConnectionByHost, first thing in the Closed callback.  One
\* pointer is erased, from the list of the present login's user.
Unregister(c) ==
  /\ \/ LoopIdle(c) /\ Goes(c, "ready", "removed")
     \/ Goes(c, "closing", "removed")
  /\ IF login[c] = NoDevice
     THEN UNCHANGED <<connections, tasks>>
     ELSE /\ connections' = [connections EXCEPT ![Owner[login[c]]][c] =
                               IF @ = 0 THEN 0 ELSE @ - 1]
          /\ Post(Offline(login[c]))
  /\ UNCHANGED <<asked, login, stream, onlineClients, relogged>>

\* Faulty variant of Release: an http client deleted without Close.
ReleaseUnclosed(c) ==
  /\ Goes(c, "removed", "free") \/ Goes(c, "closing", "free")
  /\ login' = [login EXCEPT ![c] = NoDevice]
  /\ stream' = [stream EXCEPT ![c] = NoStream]
  /\ onlineClients' = [onlineClients EXCEPT ![LoopOf(c)] = @ - 1]
  /\ UNCHANGED <<asked, connections, tasks, relogged>>

\* Faulty variant of Release: Closed returns when unregistering failed.
ReleaseUncounted(c) ==
  /\ Goes(c, "removed", "free")
  /\ login' = [login EXCEPT ![c] = NoDevice]
  /\ stream' = [stream EXCEPT ![c] = NoStream]
  /\ onlineClients' = [onlineClients EXCEPT ![LoopOf(c)] =
                         IF login[c] = NoDevice THEN @ ELSE @ - 1]
  /\ UNCHANGED <<asked, connections, tasks, relogged>>

\* The base class counts the connection out, and the handler deletes it.
Release(c) ==
  /\ Goes(c, "removed", "free")
  /\ login' = [login EXCEPT ![c] = NoDevice]
  /\ stream' = [stream EXCEPT ![c] = NoStream]
  /\ onlineClients' = [onlineClients EXCEPT ![LoopOf(c)] = @ - 1]
  /\ UNCHANGED <<asked, connections, tasks, relogged>>

-----------------------------------------------------------------------------
\* The daemon loop runs the oldest posted callback.
Deliver ==
  /\ tasks # <<>>
  /\ tasks' = Tail(tasks)
  /\ UNCHANGED <<pc, asked, login, stream, connections, onlineClients, relogged>>

ClientStep(c) ==
  \/ Accept(c)
  \/ \E d \in Devices : CheckDevice(c, d)
  \/ ReplyFailed(c)
  \/ AssignLogin(c)
  \/ Register(c)
  \/ \E sid \in Streams : WatchStream(c, sid)
  \/ HttpRequest(c)
  \/ \E sid \in Streams \cup {NoStream}, k \in BOOLEAN : FinishRequest(c, sid, k)
  \/ Unregister(c)
  \/ Release(c)

Next == Deliver \/ \E c \in Clients : ClientStep(c)

Spec == Init /\ [][Next]_vars

-----------------------------------------------------------------------------
(***************************************************************************)
(* Properties.                                                             *)
(***************************************************************************)

\* Every variable stays in its type; the lists never exceed the two bounds.
TypeOK ==
  /\ pc \in [Clients -> Handling \cup {"free", "ready"}]
  /\ asked \in [Clients -> Devices \cup {NoDevice}]
  /\ login \in [Clients -> Devices \cup {NoDevice}]
  /\ stream \in [Clients -> Streams \cup {NoStream}]
  /\ connections \in [Users -> [Clients -> Nat]]
  /\ tasks \in Seq(Events)
  /\ onlineClients \in [Loops -> Int]
  /\ relogged \subseteq Clients

\* c has registered its present login and has not unregistered it.
Registered(c) ==
  /\ pc[c] \in {"ready", "checked", "serving", "closing"}
  /\ login[c] # NoDevice

\* A connection that registered can be found under its present user until it
\* unregisters, however often it logged in and whatever address it reuses:
\* the limit check, the panel's snapshot and notifications cannot miss it.
ListedWhileRegistered ==
  \A c \in Clients : Registered(c) => connections[Owner[login[c]]][c] > 0

\* A connection that logged in at most once is in the map exactly while it is
\* registered, once, and under its own user.  In particular the map holds no
\* pointer to a deleted client, which three threads would dereference.
NoStrayEntry ==
  \A u \in Users, c \in Clients \ relogged :
    connections[u][c] = IF Registered(c) /\ Owner[login[c]] = u THEN 1 ELSE 0

\* "Limit connection reject": the limit check and the registration are not one
\* critical section, yet one loop never holds two connections of a device,
\* because no second login handler of that loop can run in between.
OneConnectionPerLoop ==
  \A c \in Clients : \A e \in Peers(c) \ {c} :
    login[c] # NoDevice => login[c] # login[e]

\* online_clients_ is the number of open connections, those that never logged
\* in included: Closed must count down even when unregistering failed.
OnlineClientsExact ==
  \A l \in Loops :
    onlineClients[l] = Cardinality({c \in Clients : LoopOf(c) = l /\ pc[c] # "free"})

\* The login of a client, which other threads read under the mutex while its
\* own thread writes it without, is written only while no list leads to the
\* client, unless the connection logs in a second time.
LoginWrittenUnshared ==
  [][\A c \in Clients \ relogged' :
       login'[c] # login[c] => \A u \in Users : connections[u][c] = 0]_vars

\* No login is authorised for a device that a registered connection of either
\* loop holds: two connections of one device only come from two loops that
\* were both past the check before either had registered.
RefusedWhileRegistered ==
  [][\A c, e \in Clients :
       (pc[c] = "ready" /\ pc'[c] = "checked" /\ Registered(e)) => login[e] # asked'[c]]_vars

Others(c) == Peers(c) \ {c}

Session == [c \in Clients |-> IF Registered(c) THEN login[c] ELSE NoDevice]

\* The registry as its users see it: sessions and the reports of them.
Abstract ==
  INSTANCE Sessions WITH
    Rivals <- Others,
    session <- Session,
    reports <- tasks,
    dropped <- relogged

\* Handlers in pieces, two threads and the map of pointers amount to sessions
\* that begin and end at one instant each, with one report for either.
ImplementsSessions == Abstract!Spec

\* What GetAndUpdateOnlineUserByStreamID returns for sid.
Watchers(sid) ==
  Cardinality({w \in Users \X Clients \X (1 .. MaxCopies) :
                 w[3] <= connections[w[1]][w[2]] /\ stream[w[2]] = sid})

\* "calc watchers": the number reported never exceeds the number of open
\* connections whose current stream is sid.
WatchersAreConnections ==
  \A sid \in Streams :
    Watchers(sid) <= Cardinality({c \in Clients : pc[c] # "free" /\ stream[c] = sid})
=============================================================================
