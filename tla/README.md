# TLA+ models of the fastocloud load balancer

The program in `src/src/` is one daemon. It keeps no viewer state of its own
beyond a map of logged-in connections: users, devices, streams and catchups are
documents of a MongoDB database. Three event loops, each with a thread of its
own, share that map and the database client:

| loop | started at | serves |
|---|---|---|
| daemon loop | `process_slave_wrapper.cpp` `Exec`, the calling thread | the admin panels' JSON-RPC connections, timers, posted callbacks |
| subscribers loop | `subs_thread` in `Exec` | the players' JSON-RPC connections |
| http loop | `http_thread` in `Exec` | playback requests `/<user>/<password>/<device>/<stream>/...` |

A loop runs one handler at a time to its end. What interleaves are the loops,
and they do so wherever a handler does not hold `connections_mutex_`.

The specifications are written from the code. Line numbers are in
`PROJECT.json` under `map`; this file says how the pieces fit together.

## 1. Inventory

| component | state | operations | with whom it interacts | what makes it correct |
|---|---|---|---|---|
| **Registry**, `mongo/subscribers_manager`, `base/isubscribers_manager` | `connections_` (user id to vector of client pointers), `connections_mutex_` | Register, UnRegister, CheckIsLoginClient, limit check inside ClientLoginImpl, GetOnlineSubscribers, GetAndUpdateOnlineUserByStreamID, SendSubscriberNotification | called by all three loops; tells `ProcessSlaveWrapper` through `ISubscribersObserver` while the mutex is held | a registered connection is findable, nothing else is in the map, the device limit, no unlocked write of something another thread can reach |
| **Subscribers sessions**, `subscribers/handler`, `subscribers/client` | per connection: login, current stream; `online_clients_` | activate, login, ping, server info, channels, runtime channel info, favorite, recent, interrupt, catchup, undo, content | registry, database, observer | counters, request order, replies |
| **Http sessions**, `http/handler`, `http/client` | as above | one request: login, registration, stream lookup, redirect or file, Keep-Alive | registry, database | every exit closes before it deletes |
| **Presence and daemon connections**, `process_slave_wrapper`, `daemon/client` | list of daemon connections, `IsVerified` | activate, prepare_service, sync, get_log, ping, stop, notification; broadcasts | posts from the registry through `ExecInLoopThread`; panels outside the repository | a panel's belief about who is online becomes the truth |
| **Catchups and content requests**, `CreateOrFindCatchup`, `CreateRequestContent`, the handlers that call them | four collections; `catchup_endpoint_` | generate_catchup, undo_catchup, content request, SetupCatchupsEndpoint | database without transactions, daemon loop for the announcements | recorded once, listed only if stored, announced when complete, once |
| **Login decision**, `ClientActivate`, `ClientLogin`, `ClientLoginImpl` | a user document | status, password, expiry, device status, limit, activation | database, registry, the panel's edits | a login is admitted by a state the database was in; a ban is not undone; who has a session is active; what an activation offers can be used |
| **User catalogue** | arrays of a user document | SetFavorite, SetRecent, SetInterruptTime, GetChannels, Add/Remove | database | an update touches one element; what is listed is what was granted |
| **Playback**, `ClientFindHttpDirectoryOrUrlForChannel` | none of its own: two documents read one after the other | stream id and output id to directory or url | http loop, the panel's edits | the stream asked for and no other, one the user had; refused only for a cause |
| **Service life cycle**, `main`, `Exec`, `StopImpl`, license timer | pid file, three loops | start, bind, stop, expiry | all loops, other processes | one service at a time; a stop or a missing license ends it |
| **Node statistics**, `MakeServiceStats` | last counters, last time | timer, activation | daemon connections | load and rate are those of the time since the last report |
| **Document decoding**, `mongo/mongo2info` | none | Make...Info | catalogue, catchups, playback | what the program writes it can read again |
| **Database connection** | mongoc client and collections | connect, disconnect | all of the above | released once |
| **Configuration**, `config.cpp` | config record | read a file at start | service | documented keys are read |
| **Message formats**, `commands_info`, `daemon/commands_info` | none | serialise, parse | panels, players | round trip |

Behaviours that are hard:

* *Concurrency.* The limit check and the registration are separate critical
  sections with a network write in between. `login_` and `current_stream_id_`
  of a client are written by its own thread without the mutex and read by the
  others under it. `catchup_endpoint_` is assigned with no lock at all.
* *Ordering.* Presence events are posted under the mutex but broadcast later,
  around a snapshot read from the map directly.
* *Failure.* A catchup is one insert and three updates without a transaction,
  and announcements live in memory between the last write and the broadcast.
* *Sequences of legal calls.* `client_login` on a logged-in connection, an
  http connection kept alive, an address that is handed out again, a view
  counted once too often.
* *Stale reads.* A login and a playback request decide by documents that the
  panel may have changed since; so does the update that activates a device.
* *Start and stop.* A pid file unlocked before it is removed, a stop that meets
  a thread still starting, a server that cannot bind while its peers run.
* *Numbers.* Unsigned differences of counters, a clock that is set back, a count
  that outgrows the type its readers accept.

`PROJECT.json` lists each hazard at the line where it bites, with the
properties that cover it or the reason why none does yet.

## 2. Modules

| module | models | used by |
|---|---|---|
| `SubscribersRegistry` | registry, both kinds of session as far as they touch it | `PresenceBroadcast` (EXTENDS) |
| `PresenceBroadcast` | daemon loop composed with the registry | |
| `Catchups` | generate_catchup, undo_catchup, content requests | |
| `Sessions` | what the registry promises, without map, mutex and handlers | `SubscribersRegistry` (INSTANCE) |
| `CatchupLibrary` | what catchups and content requests promise, without jobs, writes and faults | `Catchups` (INSTANCE) |
| `UserCatalog` | the entries of a user's arrays, the requests that set their fields, the list of channels | |
| `DeviceLogin` | the login decision, the activation of a device, the panel's edits of the account | |
| `StreamDocuments` | pure operators: which documents the readers accept, what a stream is answered with, what the program writes | `Playback` (EXTENDS) |
| `Playback` | the requests of an http connection, catchups and view counts created beside it, the panel's edits | |
| `ServiceLifecycle` | processes, pid file, threads, stop requests, license | |
| `NodeStats` | the load and the rate that are reported | |
| `MC...` | small instances and symmetry | the `.cfg` files |
| `...Proofs` | theorems about the module they are named after | |

Next to an operation a module may define a *faulty variant* of it (its comment
says so and names the mistake). The variants are not part of the
specification. Substituted for the operation they make one property fail,
which shows what the property guards against; `mutants` in `PROJECT.json` pairs
them.

### SubscribersRegistry

| variable | code |
|---|---|
| `pc[c]` | how far the handler working for connection `c` has come; `"free"` when no object lives at the address |
| `asked[c]` | the `ServerDBAuthInfo` the login handler holds between `ClientLogin` and `SetLogin` |
| `login[c]`, `stream[c]` | `SubscriberInfo::login_`, `current_stream_id_` |
| `connections[u][c]` | how often the vector `connections_[u]` holds the pointer `c` |
| `tasks` | callbacks posted with `ExecInLoopThread` by the observer, in order |
| `onlineClients` | `IServerHandler::online_clients_` of each handler |
| `relogged` | history: clients that logged in while logged in |

A login is three steps, because another thread may run between them:
`CheckDevice` (the limit check, mutex taken and given back), `AssignLogin`
(`SetLogin`, before the mutex), `Register` (push_back and the posted event,
under the mutex). Leaving is `Unregister` (under the mutex) and `Release` (the
count and the delete). `LoopIdle(c)` is the guard of every step that begins a
handler: a loop begins none while it is in another. `WatchStream`,
`HttpRequest` and `FinishRequest` are the requests that change a client's
stream. `Deliver` stands for the daemon loop.

A client is an address. `Release` frees it and `Accept` may hand it out again
while a stale pointer is still in the map; that happens after a second login,
whose second pointer `Closed` does not erase. A read through such a pointer, or
of a login that another thread is writing, is undefined. It can only make
`CheckDevice` refuse, which is no step, or overlook the entry, which its guard
allows.

### PresenceBroadcast

Adds the daemon connections (`link`, where `"verified"` is `IsVerified()`), what
each panel was told (`view`), and the two histories `missed` (a write to the
panel failed) and `shared` (a device that two connections held at one time).
`RegistryStep` is a step of the two other loops, `PrepareService` takes the
snapshot, `Broadcast` runs the oldest posted callback and writes its event to
every verified connection, any of which may fail. The panel is outside the
repository; `view` is what a reader holds who keeps the snapshot and applies
each event in order.

### Sessions

The abstract specification of the registry: a connection has a session for one
device or none, beginning and end of a session are reported once and in order,
and no two connections of a loop have the same device. `ImplementsSessions`
maps `session` to the login of a registered connection, `reports` to the queue of
callbacks and `dropped` to `relogged`. A second login is the one step in which
the code ends a session without a report, and `Drop` says so.

### Catchups

At most one handler of the subscribers loop is at work (`job`). Each write is a
step with one of three outcomes: `done`, `failed`, and `unsure`, when it took
effect and the call returned an error. The handler continues only after
`done`, in the order insert the document, `$push` to the channel's parts,
`$push` to the server, `$push` to the user, post the broadcast. A part found in
the cache enters at the fourth of these and is not announced. `BeginSetup` and
`EndSetup` are the two ends of the assignment to `catchup_endpoint_` on the
daemon loop; a read between them may see anything, hence `torn` places and an
`EndpointValid` that accepts whatever it finds. `Crash` keeps the database and
drops the rest. `flawed` remembers ids whose creation met a fault, `raced` those
created while the endpoint was assigned.

### CatchupLibrary

The abstract specification of `Catchups`. `ImplementsLibrary` maps `recorded` to
what the search for a part of a program finds (`Cached`), `library` and `asked`
to the lists of the user documents, `news` to the posted broadcasts and `heard`
to what the panels were told. `LinkPart` is `Record`: before the `$push` to the
channel's parts nothing finds the document, after it everyone does.
`AddUserCatchup` is `Give`, `UndoCatchup` is `Return`, `AddContentRequestToUser`
is `Ask`, the two posts of a broadcast are `Announce`, `BroadcastCreated` is `Hear`
and `Crash` is `LoseNews`. Everything else, a write that failed among it, is a
stutter. It says that a program recorded stays recorded under the same id, that
a user has recordings of his channels only, and that an id is announced at most
once and only while a user has it.

### UserCatalog

`arrays` are the streams, vods and catchups of one user document. An entry has
an `order` of fields as well as their values, because `makeUserStreamInfo`
looks for favorite, private, locked, recent and interruption time with one
iterator that never goes back (`Reads`). The panel lists entries with layouts
of its own (`Layouts`), `$set` appends a field that is missing. `Request`,
`UpdateStored` or `UpdateLost`, and for set_recent `CountView` or `CountLost`,
are the calls of a setting handler; an error of a call is logged and the
handler goes on. `Answer` is the projection that `ClientGetChannels` sends.
`wanted` remembers the last value stored. `Chosen` is what a positional `$`
stands for: the first entry that matches. `Without` is `$pull`; it is defined by
the positions it keeps (`Nth`, `Kept`), without recursion, so that it can be
proved about.

### DeviceLogin

`Find` is the search by email or by id: the whole document is read once, into
`doc`. `Check` is `ClientLoginImpl` from the status to the limit check,
`ActivateDevice` the update that follows for a device that is not active (it
selects the user by the email that was read and the device by its id, not by
its old status; its error is only logged), `Register` and `ReplyFailed` the two
continuations of the caller. `PanelSetsDevice`, `PanelSetsUser`,
`PanelSetsEmail` and `Tick` may come between any two of them. `Offer` is
`ClientActivate`, which the subscribers loop handles between its other requests:
it lists the devices that are not active to one who gives the right password
and changes nothing in the database. Both searches of a login ask for `exp_date`
and `ClientActivate` does not; a document may have none (`NoDate`). `admitted`,
`barred`, `early`, `offered`, `promised` and `sure` are histories for the
properties.

### StreamDocuments and Playback

A document is a record of the types of its fields, the number of its views, its
visibility and its outputs. The five readers of `mongo2info.cpp` differ in the
fields they know: each gives up at a field of a wrong type, counts the fields it
found and compares the count with a constant (`WellTyped`, `Lacks`). `Find` is
`ClientFindHttpDirectoryOrUrlForChannel` after the stream was found in an array;
a url or a directory is represented by the id of the stream it belongs to, so
an answer that leads elsewhere is visible. `CatchupDoc` and `RequestDoc` are the
documents that the program itself writes.

`Playback` follows one connection: `Receive` (parsing, login of the first
request), `FindUser` and `FindStream` (the two reads, in two steps), `Finish`
(answer, Keep-Alive or Close), `Refuse` (the early exits). The panel writes,
deletes, lists and unlists in between, `CreateCatchup` and
`CreateRequestContent` add documents and `CountView` is the `$inc` of
`SetRecent`, which the database widens to an int64 when the sum needs it.
`owned`, `refusable` and `whole` are histories; `Refusable` says that no search
that takes place now would answer the request, wherever the directories are.

### ServiceLifecycle

A slot is the place of a process. `OpenPidFile`, `LockPidFile`, `StartExec` or
`ConnectFails`, `Join`, `UnlockPidFile` and `RemovePidFile` are `main` and `Exec`;
the pid file is an inode and the path that leads to it, because removing acts
on the path while the lock is on the inode. `ThreadUp` and `BindFails` are the
two ways a thread's server comes up. `StopImpl` tells every loop to stop, which
may have no effect on one that has not begun. `CheckLicenseExpired`,
`StopByPanel` and `StopByCommand` call it. `SendStopDaemonRequest` is another
process run with `--stop`.

### NodeStats

`Work`, `Transfer`, `InterfaceVanishes` and `ClockMoves` are the machine;
`MakeServiceStats` makes a report from the counters and the shots of the report
before, whoever asks for it. `events` counts what happened since the report
before, `changes` what happened at all; only the first bound has a meaning, that
less happens between two reports than the digits that are read can count. Words
have a small number of values and wrap, the time difference is signed and
converted as C++ does.

`NetShot` is what `sscanf` makes of a line of `/proc/net/dev`: sixteen
conversions of at most sixteen digits each. A counter below `Cut` (10^16 in the
code) is read as it is. A longer one loses its last digits (`Scale`: the power
of the base it is divided by), and these are taken for the next counter, so
everything behind it moves by one place: sent bytes are then a count of frames
(`frames`, any of `Frames`). Sent bytes are therefore right only while the
received ones are short (`InPlace`).

## 3. Properties and runs

| run | question | properties |
|---|---|---|
| `registry` | Do map, logins and counters stay consistent whatever two loops do? | `TypeOK`, `ListedWhileRegistered`, `NoStrayEntry`, `OneConnectionPerLoop`, `OnlineClientsExact`, `LoginWrittenUnshared`, `RefusedWhileRegistered` |
| `watchers` | Is the number of watchers a number of connections? No: a violation | `WatchersAreConnections` |
| `presence` | Do snapshot and events agree in every overlap? | `SystemTypeOK`, `PanelsConverge`, `SnapshotExact`, `ImplementsSessions` |
| `panels_learn` | Does a panel's belief become the truth? | `PanelsLearn` |
| `catchups` | What can faults and the unlocked endpoint do to the database and to the panels? | `TypeOK`, `RecordedOnce`, `ListedIsStored`, `AnnouncedIsComplete`, `OnlyFaultsStrand`, `RecordedAtValidEndpoint` |
| `panels_hear` | Are the panels told of everything users list, and do handlers, writes and faults come to no more than a library of recordings? | `PanelsHear`, `ImplementsLibrary` |
| `user_catalog` | Is a client shown what it stored, however the entry came about, for a channel, a vod or a catchup? | `TypeOK`, `LastStoredShown`, `CatchupPositionsForgotten`, `RecentIsCounted`, `RequestSetsOneField` |
| `device_login` | What may a login do that decides by a document of the past, and what is an offer worth? | `TypeOK`, `AdmittedAtOnce`, `BanIsFinal`, `HeldIsActive`, `OfferHonoured` |
| `lifecycle` | Who runs alone, and what ends? | `TypeOK`, `AloneUnlessOrphaned`, `LicenseEnforced`, `LocalStopObeyed` |
| `stop_command` | Does `--stop` stop the running instance? Not always: a violation | `StopCommandStops` |
| `playback` | Do requests get what they ask for, and does what is written stay readable? | `TypeOK`, `AnswersAreRequested`, `RefusedForCause`, `WholeStaysReadable` |
| `node_stats` | Are load and rate those of the time since the report before? | `LoadWithinWhole`, `RateIsMean` |

What they show, beyond "holds":

* The device limit is exact within one loop and not across the two: both loops
  may be past the check before either registers. `OneConnectionPerLoop` and
  `RefusedWhileRegistered` together say precisely how far the limit goes.
* `NoStrayEntry` and `LoginWrittenUnshared` except connections that logged in
  twice (`relogged`), because for them the code does leave a pointer behind and
  does write a reachable login. `ListedWhileRegistered` holds for them too.
* The `watchers` violation is the visible end of that: `handler.cpp:402-403`
  says "calc watchers" and "add to watcher", and a connection with two pointers
  in the map is two watchers.
* `PanelsConverge` needs `shared`: when two connections held one device, the
  first to leave announces the device offline while the other stays.
* After a fault a catchup may be listed and never announced: the retry finds it
  cached. `OnlyFaultsStrand` says that nothing but a fault does that, and the
  proof shows it for any number of them.
* A stored catchup has urls of a valid endpoint unless `prepare_service` ran
  during its creation. The validity check does not close that window, and the
  property leaves out what is created in it: it says that nothing outside is
  affected.
* The last value stored is shown again only in entries that have every field in
  the order of reading (`LastStoredShown`). The entry `generate_catchup` pushes
  has no `locked`, so the positions of a catchup listed by the program are
  stored and never shown (`CatchupPositionsForgotten`), and a panel that sets
  `locked` later does not help: `$set` appends it behind them. Nothing in the
  repository says that they should be shown, so this is stated as a property of
  the code and not as a violation.
* For all that, no request of a client uncovers or hides a field it does not
  name (`RequestSetsOneField`): what it appends comes last, and nothing after it
  was readable before.
* A login never mixes two states of an account: everything it was admitted by
  was true at one instant after the request came (`AdmittedAtOnce`), because the
  document is read once. Reading the device again would break it.
* The activating update does not ask for the old status, so a login that was
  under way when a ban was stored writes its activation over it. Nothing else
  does, and until that happens nobody gets a connection for the device who was
  not already on the way to one (`BanIsFinal`, `early`).
* A device that `ClientActivate` offered is not refused later to one with the
  same password, although the offer, the search, the decision and the other
  loop's activation of the same device come in any order (`OfferHonoured`). The
  exceptions are what the panel edits in between, a device that is connected and
  the date: `ClientActivate` looks at no `exp_date`, so it offers the devices of
  an account that is expired, or has no date, to which every login is an error.
* One pid file does not always mean one service. `main` unlocks and closes it
  and only then removes what is at its path; a service that locked the file in
  that moment loses it and a third one starts beside it (`orphaned`).
* The `stop_command` violation: with a routable `host` in the config the request
  of `--stop` comes from a connection that is neither verified nor local, and is
  refused, while the command has ended with success. The help text
  (`daemon_slave.cpp:40`) says "stop running instance".
* A kept-alive connection stays the user's of its first request, whoever later
  paths name (`AnswersAreRequested`).
* The user's document and the stream's are two reads with the panel's writes
  between them, yet a request is answered with an error only if at some instant
  while it was handled it could not have been answered (`RefusedForCause`): a
  stream that stays listed and playable is played. Being listed alone does not
  mean that: the lists do not look at outputs, and a stream of the program
  without an http_root is listed and refused. `MCPlayback` has one.
* A complete document becomes unreadable when its view count leaves the range of
  an int32; nothing else the program does makes one unreadable
  (`WholeStaysReadable`). A document of a proxy that lacks two fields becomes
  unreadable at its first view, since the view adds one of them: it was not
  complete, and the property does not speak of it.
* A reading of `/proc/stat` that fails spoils two reports and no third
  (`LoadWithinWhole` leaves the two out).
* The clock set back makes a rate zero. While a counter has at most sixteen
  digits its rate is exact, and while it keeps some larger number of digits it is
  right up to one unit of the last digit read (`RateIsMean`). Nothing is said
  when the number of digits changes between two reports, and nothing of the sent
  bytes while the received ones have too many digits, since the code then
  reports something else in their place.

### Bounds

* Registry: two users of whom one has two devices, so a second login can keep
  the user or change it; two connections of each loop, enough for a check of
  one to fall between check and registration of another, within and across the
  loops. `MaxCopies = 2` pointers of a client under one user: one more than the
  code needs to go wrong. `MaxTasks = 1` in `registry`, where tasks do not
  matter, 3 in `presence`, where an event must be able to wait behind two
  others while a snapshot is taken.
* Presence: one user, two devices, three connections (two of one loop, one of
  the other), one panel; panels do not interact. `OneLoginEach` stops at states
  in which a connection has logged in twice, since each property of these runs
  is about the behaviours without one.
* Catchups: two users, one channel, two programs, three ids: two catchups and a
  document that a fault left behind. `MaxFaults = 2`: the second fault hits the
  retry after the first. `panels_hear`, a liveness check, has one program, two
  ids and one fault; for the refinement, a program and two ids are enough to
  record it twice or to announce it again after the fault, if the code could.
  One endpoint beside "unset" suffices because a valid place
  is told from an invalid one only.
* User catalogue: values are 0 and 1. `MaxEntries = 2` entries of one stream: the
  one that updates choose and one that they do not; three layouts, the complete
  one, one without the first field read and one without the last two, which
  requests append. Entries of different streams do not interact except through
  the choice of the entry, hence one stream, whose class is one of three.
* Device login: two loops and one device, since logins for different devices
  meet only in the document they read; two passwords and two emails, three
  writes of the panel and one tick: a login can be overtaken by changes that
  take a right away, give another and restore the first, and an offer by two
  logins and an edit. About 5.1 million states.
* Life cycle: two slots, since a process that ended can come back as a third
  one; three inodes, one more than can be open; one worker beside the daemon's
  thread, since workers do not see each other; a local and a routable host.
* Playback: two users, a channel, a vod, an id for a catchup, a series and a
  content request, each with the documents a decision tells apart: complete, of
  a proxy without two flags, without `view_count`, with an output without a
  uri or, of a stream that needs one, without an http_root. `MaxInt32 = 1` is passed by the second view. One
  write of the panel, anywhere, on top of any documents and lists at the start.
* Node statistics: words of 24 values of which those below `Cut = 8` have few
  enough digits, so that numbers are cut by two digits at most (`Powers`); counters
  start just below the cut or just below the end of the word, and three events
  of one or two bytes each, before, between and after reports, take them over
  either. A second has two instants and the clock five, so it can stand still,
  advance and be set back. The module assumes what makes `MaxEvents` meaningful:
  what happens between two reports fits in the digits that are read. About 2
  million states.
* Symmetry is used in runs of invariants and of action properties, never in
  runs of liveness.

### Fairness

* `FairSystemSpec`: weak fairness of `Broadcast`. A libev loop runs the
  callbacks posted to it as long as there are any. Nobody has to connect, log
  in or close.
* `FairSpec` of `Catchups`: weak fairness of `HandlerStep` (a handler that has
  begun goes on; every call it makes returns) and of `EndSetup`, and strong
  fairness of `BroadcastCreated(id)`: handlers of the daemon loop come and go,
  which disables it again and again, yet the loop serves posted callbacks in
  every iteration. No user request is fair, and `Crash` is not.

* `FairSpec` of `ServiceLifecycle`: weak fairness of the threads (`ThreadStep`), of
  `Join`, of the license timer and of reading a stop request. Nobody has to
  start a process, press for a stop, or remove a pid file; `Dies` may happen at
  any time and need not.

No run switches the deadlock check off.

## 4. Proofs

Checked by TLAPS for every value of the constants that satisfies
`RegistryAssumption` (the two kinds of client are disjoint, every device has an
owner, the null values are not members), `CatchupsAssumption` and
`NullAssumption` (the same kind of facts), `MaxTimeAssumption` and
`MaxWritesAssumption` (bounds are naturals), `NoDateAssumption` (no date is not
a date), `SubscribersLoopAssumption` (it is one of the loops), `UserCatalogAssumption` (0 is
a value, the null value is no job, the panel's layouts have an id and no field
twice), `NoInodeAssumption`, `InodesAssumption` (there is always an inode nobody has open) and
`WorkersAssumption`, `PlaybackAssumption` and `PanelAssumption` (null values;
outputs are told apart by numbers; the panel writes complete documents with the
types their readers ask for, out of the types there are) and
`NodeStatsAssumption` (a word has more than one value; the numbers that are not
cut are at most half of its values; what can happen between two reports, and the
correction of a clock set back, fit in them; every value has a power by which
cutting divides it). None bounds a
set: users, clients and ids may be infinite.

`SubscribersRegistryProofs`. `InductiveInvariant`: `IInv` adds to the type
invariant and the listed properties
`OneHandler` (a loop is inside one handler at most), `AskedWhileChecked`,
`AskedIsFree` (while a handler is between check and `SetLogin`, no peer is
registered with the device it asked for, the fact that makes the limit hold in
one loop) and `LoginMatchesPc`. Without `OneHandler` the limit is not inductive:
a second handler of the loop could pass the check in the gap.
From it: `TypeCorrect`, `AlwaysListed`, `NeverStray`, `LimitPerLoop`,
`UnsharedWrites`, `RefusalIsSound`. `CountsAlwaysExact` rests on `CountInv`, which
adds that the open connections are finitely many: they are opened one by one,
however many addresses there are. `RegistryImplementsSessions` is the refinement:
each action maps to `Begin`, `End`, `Drop`, `Take` or a stutter, and the limit
proved before is what `Begin` asks for.

`PresenceBroadcastProofs`. `SystemImplementsRegistry`: the composed system
implements the registry, every step being a `ClientStep`, a `Deliver` or a
stutter, so the registry's theorems hold of it. By
`SystemImplementsSessions` it implements `Sessions` too. `SystemTypeCorrect`,
`PanelsAlwaysConverge` and `SnapshotAlwaysExact` rest on `QueueTells`: for each device the last event
waiting, when there is one, tells whether it has a holder, unless it is or was
shared, and on `SharedExact`: a device not shared has at most one holder. Because
every registration change posts an event in the same step, a panel that has a snapshot from any moment is right after the queue is drained.

`CatchupsProofs`. `IInv` adds `JobSound` and `RequestSound` (what a handler at
a given step has already written), `PartsAnnounced` (a part without fault is
served and announced or about to be) and `EndpointRead` (between check and use
the endpoint is valid unless raced). From it: `TypeCorrect`,
`AlwaysRecordedOnce`, `AlwaysStored`, `AnnouncementsSound`,
`AlwaysAnnouncedOnce`, `StrandedByFaultsOnly`, `EndpointsValid`.
`CatchupsImplementLibrary` is the refinement. Its steps need what `LibraryInv`
collects: no id is of a catchup and of a content request, the catchup or request
about to be linked is linked nowhere yet, and what is about to be announced is
in the list of the user. That an id is announced once is a step of
it (`Announce` wants an id that is neither news nor heard), which is why the runs
check the refinement and not `AnnouncedOnce` besides.

`DeviceLoginProofs`. Four inductive invariants beside the types: a login that its
document still admits was admitted at some instant (`AdmittedInv`, which needs
that time only goes on); a login for a barred device that is not `early` has
read the ban, and no connection but an early one holds the device
(`BarredInv`); for a pair in `sure` the device still has the status that was
read, or another login activated it (`SureInv`); and a device on offer is in the
account, not active or active, under the password it was offered for, and so
is that of a promised login in the document it read (`OffersInv`: an activation by
the other loop keeps it, and it is inductive because only the panel can set
another status). From them: `TypeCorrect`, `AlwaysAdmittedAtOnce`,
`BansAlwaysFinal`, `HeldAlwaysActive`, `OffersAlwaysHonoured`.

`ServiceLifecycleProofs`. Two processes that hold a lock have different inodes
open (`LocksDiffer`), and a file that a process has open is the one at the path
unless it was removed under the process (`OpenIsAtPath`): there is one path, so
one of two services is orphaned. From them:
`TypeCorrect`, `AlwaysAloneUnlessOrphaned`.

`UserCatalogProofs`. `ArrayTypes` says of every entry that it has no field twice,
and of one the program pushed that no `locked` comes before its `recent`:
`$set` appends what is missing, so nothing can come before it any more.
`FirstIsWanted` says that the first entry of a stream has the values stored
last and that a stream not listed has none. It is the first entry because a
positional `$` updates that one and `makeUserStreamInfo` lists it; `$push` and
`$pull` keep the first entry of every other stream, which the lemmas about `Nth`
and `Kept` establish for sequences of any length. `FoundUpTo` describes how far
the reading of an entry gets, and an appended field changes the reading of no
other. `Counted` is `RecentIsCounted` without the condition that the entry is
listed. From them: `TypeCorrect`, `PositionsAlwaysForgotten`,
`LastStoredAlwaysShown`, `RequestsSetOneField`, `RecentAlwaysCounted`.

`PlaybackProofs`. The invariants say of every document that its outputs lead to
the document itself or nowhere, of the request in progress that what its search
found is in `owned`, and of every document in `whole` that it has all counted
fields with their types, `view_count` being an int32 as long as the count fits.
That the first output with an id exists is `NatMinimum`, by the library's
well-founded induction on the naturals. `TypeInv` says of each document that its
fields have types there are (`DocTypes`). `RefusalInv` says that `refusable` is set
whenever the request under way could not be answered now, and that a stream found
in an array was found in the one of its kind, so the second read fails
in no other way than the definition looks for. From them:
`TypeCorrect`, `AlwaysAnswersRequested`, `AlwaysRefusedForCause`,
`WholeAlwaysReadable`.

`NodeStatsProofs`. The counters wrap, so the invariant compares them with what
happened as integers: since a readable shot the processor did `n` ticks, `m` of
them busy, with `m <= n <= events`, and both counters are the shot's plus that,
modulo the word (`CpuFollows`). The bytes go on from a `base` in the same way, of
which the shot has the first digits (`NetFollows`). `MovedBound` keeps what is
moved below `Cut`, and then the difference of the words is the integer
(`DifferenceIsChange`); when both shots cut the same digits, the difference of the
readings is that of the counters divided, one unit more or less
(`CutDifference`). From them: `LoadAlwaysWithinWhole`, `RateAlwaysMean`, for any
number of reports; `MaxEvents` is an assumption about the time between two of
them.

Checked by TLC only: the liveness properties `PanelsLearn`, `PanelsHear`,
`LicenseEnforced` and `LocalStopObeyed`, which are out of the prover's reach, and
the two violations.

## 5. Not modelled

* Requests refused before they touch state, wording of replies, logging.
* Ping and server info: they change nothing in this process.
* `AddUserStream`, `AddUserVod`, `RemoveUserStream`, `RemoveUserVod`: no caller.
* The thread safety of the Mongo client. Each call of it is one step; that two
  threads use one client without a lock is listed as a hazard.
* `Message formats` and `Database connection`: sequential code that keeps no state
  the other parts depend on. Of the configuration only the host and the license
  key are in a model.
* Series: their items and the sum of their views over the public vods of the
  answer. Nothing else reads them.
* The values copied from a document into an item, and the text of urls.
* A line of `/proc/net/dev` with fewer than sixteen counters: the result of
  `sscanf` is not looked at, so variables would be read uninitialized; the kernel
  writes all sixteen.
* Stored documents that are not readable as a catchup: `Cached` takes each as
  readable, which is so of those the program writes (`WholeStaysReadable`), while
  `subscribers_manager.cpp:1963` passes over one that is not.
* A crash between the two writes of `SetRecent`; failures of each are in
  `UserCatalog`.
* The email of one user given to another: `ClientFindHttpDirectoryOrUrlForChannel`
  looks the user up by email, and `Playback` takes a user to be his email. A
  directory that cannot be made the http_root of a catchup's output
  (`subscribers_manager.cpp:209`), which leaves that output the channel's.
* A stop that meets a thread before it enters its loop is in `ServiceLifecycle`,
  but excepted from the properties: the code does lose it.
* Memory, disk, uptime and client counts of a report: copied, not computed.
* What goes on inside a failed `Exec` of one process whose daemon server could not
  bind: `ServiceLifecycle` reaches the state in which it waits for the two other
  threads, but no doc says what it should do, so no property does.

## 6. Plan

What is left that a next step could take, in this order:

1. An abstract `Presence` (the set of online devices and what panels are told of
   it), implemented by `PresenceBroadcast`.
2. An abstract specification of a device's activation, implemented by
   `DeviceLogin`.
3. Series and the episodes their views are summed over.
4. The hazards that no property covers yet.
