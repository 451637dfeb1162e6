------------------------------ MODULE Catchups ------------------------------
(***************************************************************************)
(* generate_catchup and content requests: handlers of the subscribers loop *)
(* that write several documents of the database, one after the other and   *)
(* without a transaction, and then tell the admin panels.                  *)
(*                                                                         *)
(* A handler runs to its end before the loop takes the next one, so there  *)
(* is at most one job.  Between two of its writes the daemon loop may run  *)
(* (prepare_service, the posted broadcasts), and the process may be killed:*)
(* the database stays, everything else starts anew.                        *)
(*                                                                         *)
(* Abstractions.                                                           *)
(*  - A program stands for the title, start and stop of a request, the     *)
(*    three fields CreateOrFindCatchup compares.                           *)
(*  - A document is the part of it that is read again: a catchup's program *)
(*    and the endpoint its urls were made from.  A parts array, a server's *)
(*    streams and a user's catchups are the sets of the ids they hold; a   *)
(*    user's array holds an id once for every successful request, and the  *)
(*    $pull of undo_catchup removes all of them.                           *)
(*  - The documents of channels, servers and users are well formed and are *)
(*    not changed by others: FindStream succeeds for the channels a user   *)
(*    is subscribed to, and every channel is in the list of one server.    *)
(*  - catchup_endpoint_ is two strings, assigned by the daemon loop with   *)
(*    no lock.  A value read during the assignment is "torn".              *)
(*  - A write has three outcomes: "done", "failed", and "unsure", when it  *)
(*    took effect and the call returned an error.                          *)
(***************************************************************************)
EXTENDS Naturals, FiniteSets

CONSTANTS
  Users,
  Channels,
  Programs,
  Subscribed,  \* <<u, ch>>: ch is in the streams array of u
  Endpoints,   \* catchup endpoints with a valid host and directory
  Ids,         \* object ids that bson_oid_init can hand out
  MaxFaults,   \* bound: failed writes and crashes
  NoJob, NoDoc, NoSetup

ASSUME CatchupsAssumption ==
  /\ Subscribed \subseteq Users \X Channels
  /\ Endpoints \cap {"unset", "torn"} = {}
  /\ NoSetup \notin Endpoints \cup {"unset"}
  /\ MaxFaults \in Nat

Places == Endpoints \cup {"unset", "torn"}

Docs == [program : Programs, place : Places]

Steps == {"insert", "link", "serve", "grant", "announce"}

Recordings ==
  [step : Steps, user : Users, channel : Channels, program : Programs,
   id : Ids, created : BOOLEAN]

ContentSteps == {"insertRequest", "linkRequest", "announceRequest"}

ContentJobs == [step : ContentSteps, user : Users, id : Ids]

ASSUME NullAssumption ==
  /\ NoJob \notin Recordings \cup ContentJobs
  /\ NoDoc \notin Docs

VARIABLES
  job,          \* the handler the subscribers loop is in, or NoJob
  endpoint,     \* SubscribersManager::catchup_endpoint_
  setup,        \* what the daemon loop is assigning to it, or NoSetup
  streams,      \* catchup documents in the streams collection
  parts,        \* the parts array of each channel's document
  served,       \* catchups in the streams array of a server document
  userCatchups, \* the catchups array of each user document
  requests,     \* documents in the content requests collection
  userRequests, \* the requests array of each user document
  waiting,      \* broadcasts posted to the daemon loop
  told,         \* ids that were broadcast to the panels
  faults,       \* failed writes and crashes so far
  flawed,       \* history: ids whose first request met a fault
  raced         \* history: ids created while the endpoint was assigned

mongo == <<streams, parts, served, userCatchups, requests, userRequests>>
panels == <<waiting, told>>
vars == <<job, endpoint, setup, mongo, panels, faults, flawed, raced>>

-----------------------------------------------------------------------------
Running(kind, s) == job \in kind /\ job.step = s

\* bson_oid_init returns an id that no document has.
Unused(id) == streams[id] = NoDoc /\ id \notin requests

\* Faulty variant of Cached: the first part is skipped by the search.
CachedButOne(ch, pr) ==
  {id \in parts[ch] : /\ streams[id] # NoDoc /\ streams[id].program = pr
                      /\ Cardinality(parts[ch]) > 1}

\* The parts of ch whose program is pr.
Cached(ch, pr) == {id \in parts[ch] : streams[id] # NoDoc /\ streams[id].program = pr}

\* Faulty variant of EndpointValid: nothing is validated.
EndpointUnchecked == TRUE

\* CatchupEndpointInfo::IsValid, of whatever is in the two strings.
EndpointValid == setup # NoSetup \/ endpoint \in Endpoints

Outcomes == {"done", "failed", "unsure"}

InEffect(o) == o # "failed"

\* After a write the handler goes on to the next step, or returns its error.
Continue(o, next) ==
  /\ o = "done" \/ faults < MaxFaults
  /\ faults' = IF o = "done" THEN faults ELSE faults + 1
  /\ job' = IF o = "done" THEN next ELSE NoJob

Init ==
  /\ job = NoJob
  /\ endpoint = "unset"
  /\ setup = NoSetup
  /\ streams = [id \in Ids |-> NoDoc]
  /\ parts = [ch \in Channels |-> {}]
  /\ served = {}
  /\ userCatchups = [u \in Users |-> {}]
  /\ requests = {}
  /\ userRequests = [u \in Users |-> {}]
  /\ waiting = {}
  /\ told = {}
  /\ faults = 0
  /\ flawed = {}
  /\ raced = {}

-----------------------------------------------------------------------------
(***************************************************************************)
(* prepare_service: SetupCatchupsEndpoint copies the endpoint the panel    *)
(* sent, which may lack the host or the directory.                         *)
(***************************************************************************)

BeginSetup(e) ==
  /\ setup = NoSetup
  /\ setup' = e
  /\ raced' = IF Running(Recordings, "insert") THEN raced \cup {job.id} ELSE raced
  /\ UNCHANGED <<job, endpoint, mongo, panels, faults, flawed>>

EndSetup ==
  /\ setup # NoSetup
  /\ endpoint' = setup
  /\ setup' = NoSetup
  /\ UNCHANGED <<job, mongo, panels, faults, flawed, raced>>

-----------------------------------------------------------------------------
(***************************************************************************)
(* generate_catchup: CreateCatchup, AddUserCatchup, CatchupCreated.        *)
(***************************************************************************)

\* A part of the channel already is this program: nothing is created.
FindCached(u, ch, pr) ==
  /\ job = NoJob
  /\ <<u, ch>> \in Subscribed
  /\ \E id \in Cached(ch, pr) :
       job' = [step |-> "grant", user |-> u, channel |-> ch, program |-> pr,
               id |-> id, created |-> FALSE]
  /\ UNCHANGED <<endpoint, setup, mongo, panels, faults, flawed, raced>>

\* No part is, and the endpoint looks valid.
StartRecording(u, ch, pr) ==
  /\ job = NoJob
  /\ <<u, ch>> \in Subscribed
  /\ Cached(ch, pr) = {}
  /\ EndpointValid
  /\ \E id \in Ids :
       /\ Unused(id)
       /\ job' = [step |-> "insert", user |-> u, channel |-> ch, program |-> pr,
                  id |-> id, created |-> TRUE]
       /\ raced' = IF setup = NoSetup THEN raced \ {id} ELSE raced \cup {id}
  /\ UNCHANGED <<endpoint, setup, mongo, panels, faults, flawed>>

\* The urls are made from the endpoint as it is now, and the document stored.
InsertStream(o) ==
  /\ Running(Recordings, "insert")
  /\ Continue(o, [job EXCEPT !.step = "link"])
  /\ streams' = IF InEffect(o)
                THEN [streams EXCEPT ![job.id] =
                        [program |-> job.program,
                         place |-> IF setup = NoSetup THEN endpoint ELSE "torn"]]
                ELSE streams
  /\ flawed' = IF o = "unsure" THEN flawed \cup {job.id} ELSE flawed
  /\ UNCHANGED <<endpoint, setup, parts, served, userCatchups, requests,
                 userRequests, panels, raced>>

\* Faulty variant of LinkPart: an error of the update is only logged.
LinkPartAnyhow(o) ==
  /\ Running(Recordings, "link")
  /\ o = "done" \/ faults < MaxFaults
  /\ faults' = IF o = "done" THEN faults ELSE faults + 1
  /\ job' = [job EXCEPT !.step = "serve"]
  /\ parts' = IF InEffect(o)
              THEN [parts EXCEPT ![job.channel] = @ \cup {job.id}] ELSE parts
  /\ flawed' = IF o = "done" THEN flawed ELSE flawed \cup {job.id}
  /\ UNCHANGED <<endpoint, setup, streams, served, userCatchups, requests,
                 userRequests, panels, raced>>

\* "link catchup to stream parts array"
LinkPart(o) ==
  /\ Running(Recordings, "link")
  /\ Continue(o, [job EXCEPT !.step = "serve"])
  /\ parts' = IF InEffect(o)
              THEN [parts EXCEPT ![job.channel] = @ \cup {job.id}] ELSE parts
  /\ flawed' = IF o = "done" THEN flawed ELSE flawed \cup {job.id}
  /\ UNCHANGED <<endpoint, setup, streams, served, userCatchups, requests,
                 userRequests, panels, raced>>

\* Faulty variant of AddStreamToServer: an error of the update is only logged.
AddStreamToServerAnyhow(o) ==
  /\ Running(Recordings, "serve")
  /\ o = "done" \/ faults < MaxFaults
  /\ faults' = IF o = "done" THEN faults ELSE faults + 1
  /\ job' = [job EXCEPT !.step = "grant"]
  /\ served' = IF InEffect(o) THEN served \cup {job.id} ELSE served
  /\ flawed' = IF o = "done" THEN flawed ELSE flawed \cup {job.id}
  /\ UNCHANGED <<endpoint, setup, streams, parts, userCatchups, requests,
                 userRequests, panels, raced>>

\* The server that streams the channel is to record the catchup.
AddStreamToServer(o) ==
  /\ Running(Recordings, "serve")
  /\ Continue(o, [job EXCEPT !.step = "grant"])
  /\ served' = IF InEffect(o) THEN served \cup {job.id} ELSE served
  /\ flawed' = IF o = "done" THEN flawed ELSE flawed \cup {job.id}
  /\ UNCHANGED <<endpoint, setup, streams, parts, userCatchups, requests,
                 userRequests, panels, raced>>

\* Faulty variant of AddUserCatchup: is_created is set for a cached catchup.
AddUserCatchupAlwaysCreated(o) ==
  /\ Running(Recordings, "grant")
  /\ Continue(o, [job EXCEPT !.step = "announce"])
  /\ userCatchups' = IF InEffect(o)
                     THEN [userCatchups EXCEPT ![job.user] = @ \cup {job.id}]
                     ELSE userCatchups
  /\ flawed' = IF o = "done" \/ ~job.created THEN flawed ELSE flawed \cup {job.id}
  /\ UNCHANGED <<endpoint, setup, streams, parts, served, requests,
                 userRequests, panels, raced>>

\* Faulty variant of AddUserCatchup: is_created is never looked at.
AddUserCatchupNeverCreated(o) ==
  /\ Running(Recordings, "grant")
  /\ Continue(o, NoJob)
  /\ userCatchups' = IF InEffect(o)
                     THEN [userCatchups EXCEPT ![job.user] = @ \cup {job.id}]
                     ELSE userCatchups
  /\ flawed' = IF o = "done" \/ ~job.created THEN flawed ELSE flawed \cup {job.id}
  /\ UNCHANGED <<endpoint, setup, streams, parts, served, requests,
                 userRequests, panels, raced>>

\* Faulty variant of AddUserCatchup: the user id is passed twice.
AddUserCatchupOfUser(o) ==
  /\ Running(Recordings, "grant")
  /\ Continue(o, IF job.created THEN [job EXCEPT !.step = "announce"] ELSE NoJob)
  /\ userCatchups' = IF InEffect(o)
                     THEN [userCatchups EXCEPT ![job.user] = @ \cup {job.user}]
                     ELSE userCatchups
  /\ flawed' = IF o = "done" \/ ~job.created THEN flawed ELSE flawed \cup {job.id}
  /\ UNCHANGED <<endpoint, setup, streams, parts, served, requests,
                 userRequests, panels, raced>>

\* The user's array gets the id.  A cached catchup is not announced again.
AddUserCatchup(o) ==
  /\ Running(Recordings, "grant")
  /\ Continue(o, IF job.created THEN [job EXCEPT !.step = "announce"] ELSE NoJob)
  /\ userCatchups' = IF InEffect(o)
                     THEN [userCatchups EXCEPT ![job.user] = @ \cup {job.id}]
                     ELSE userCatchups
  /\ flawed' = IF o = "done" \/ ~job.created THEN flawed ELSE flawed \cup {job.id}
  /\ UNCHANGED <<endpoint, setup, streams, parts, served, requests,
                 userRequests, panels, raced>>

\* CatchupCreated posts the broadcast, and the handler answers the user.
CatchupCreated ==
  /\ Running(Recordings, "announce")
  /\ waiting' = waiting \cup {job.id}
  /\ job' = NoJob
  /\ UNCHANGED <<endpoint, setup, mongo, told, faults, flawed, raced>>

\* undo_catchup: $pull from the user's array, and nothing else.
UndoCatchup(u, id, o) ==
  /\ job = NoJob
  /\ Continue(o, NoJob)
  /\ id \in userCatchups[u]
  /\ userCatchups' = IF InEffect(o)
                     THEN [userCatchups EXCEPT ![u] = @ \ {id}] ELSE userCatchups
  /\ UNCHANGED <<endpoint, setup, streams, parts, served, requests,
                 userRequests, panels, flawed, raced>>

-----------------------------------------------------------------------------
(***************************************************************************)
(* Content requests: CreateRequestContent, ContentRequestCreated.          *)
(***************************************************************************)

\* A content request of a logged-in user.
StartRequest(u) ==
  /\ job = NoJob
  /\ \E id \in Ids :
       /\ Unused(id)
       /\ job' = [step |-> "insertRequest", user |-> u, id |-> id]
  /\ UNCHANGED <<endpoint, setup, mongo, panels, faults, flawed, raced>>

\* The document goes into the requests collection.
InsertRequest(o) ==
  /\ Running(ContentJobs, "insertRequest")
  /\ Continue(o, [job EXCEPT !.step = "linkRequest"])
  /\ requests' = IF InEffect(o) THEN requests \cup {job.id} ELSE requests
  /\ flawed' = IF o = "unsure" THEN flawed \cup {job.id} ELSE flawed
  /\ UNCHANGED <<endpoint, setup, streams, parts, served, userCatchups,
                 userRequests, panels, raced>>

\* ... and its id into the user's array.  Nothing removes the document when
\* this fails.
AddContentRequestToUser(o) ==
  /\ Running(ContentJobs, "linkRequest")
  /\ Continue(o, [job EXCEPT !.step = "announceRequest"])
  /\ userRequests' = IF InEffect(o)
                     THEN [userRequests EXCEPT ![job.user] = @ \cup {job.id}]
                     ELSE userRequests
  /\ flawed' = IF o = "done" THEN flawed ELSE flawed \cup {job.id}
  /\ UNCHANGED <<endpoint, setup, streams, parts, served, userCatchups,
                 requests, panels, raced>>

\* Faulty variant of ContentRequestCreated: the answer is all that is sent.
ContentRequestUntold ==
  /\ Running(ContentJobs, "announceRequest")
  /\ job' = NoJob
  /\ UNCHANGED <<endpoint, setup, mongo, panels, faults, flawed, raced>>

\* The observer posts the broadcast, and the handler answers the user.
ContentRequestCreated ==
  /\ Running(ContentJobs, "announceRequest")
  /\ waiting' = waiting \cup {job.id}
  /\ job' = NoJob
  /\ UNCHANGED <<endpoint, setup, mongo, told, faults, flawed, raced>>

-----------------------------------------------------------------------------
\* The daemon loop, which runs no callback inside a handler of its own, runs
\* a posted one.
BroadcastCreated(id) ==
  /\ setup = NoSetup
  /\ id \in waiting
  /\ waiting' = waiting \ {id}
  /\ told' = told \cup {id}
  /\ UNCHANGED <<job, endpoint, setup, mongo, faults, flawed, raced>>

\* The process is killed and started again.  What it was creating and what
\* it had not broadcast yet is lost.
Crash ==
  /\ faults < MaxFaults
  /\ faults' = faults + 1
  /\ job' = NoJob
  /\ endpoint' = "unset"
  /\ setup' = NoSetup
  /\ waiting' = {}
  /\ flawed' = flawed \cup waiting \cup
       (IF job \in ContentJobs \/ (job \in Recordings /\ job.created)
        THEN {job.id} \ {id \in Ids : Unused(id)} ELSE {})
  /\ UNCHANGED <<mongo, told, raced>>

WriteStep(o) ==
  \/ InsertStream(o)
  \/ LinkPart(o)
  \/ AddStreamToServer(o)
  \/ AddUserCatchup(o)
  \/ InsertRequest(o)
  \/ AddContentRequestToUser(o)

HandlerStep ==
  \/ \E o \in Outcomes : WriteStep(o)
  \/ CatchupCreated
  \/ ContentRequestCreated

UserRequest(u) ==
  \/ \E ch \in Channels, pr \in Programs : FindCached(u, ch, pr) \/ StartRecording(u, ch, pr)
  \/ \E id \in Ids, o \in Outcomes : UndoCatchup(u, id, o)
  \/ StartRequest(u)

Next ==
  \/ \E u \in Users : UserRequest(u)
  \/ HandlerStep
  \/ \E e \in Endpoints \cup {"unset"} : BeginSetup(e)
  \/ EndSetup
  \/ \E id \in Ids : BroadcastCreated(id)
  \/ Crash

Spec == Init /\ [][Next]_vars

\* Each loop goes on with what it has begun, and the daemon loop gets to its
\* callbacks however many requests arrive; users need not ask for anything.
FairSpec ==
  /\ Spec
  /\ WF_vars(HandlerStep)
  /\ WF_vars(EndSetup)
  /\ \A id \in Ids : SF_vars(BroadcastCreated(id))

-----------------------------------------------------------------------------
(***************************************************************************)
(* Properties.                                                             *)
(***************************************************************************)

TypeOK ==
  /\ job \in Recordings \cup ContentJobs \cup {NoJob}
  /\ endpoint \in Endpoints \cup {"unset"}
  /\ setup \in Endpoints \cup {"unset", NoSetup}
  /\ streams \in [Ids -> Docs \cup {NoDoc}]
  /\ parts \in [Channels -> SUBSET Ids]
  /\ served \subseteq Ids
  /\ userCatchups \in [Users -> SUBSET Ids]
  /\ requests \subseteq Ids
  /\ userRequests \in [Users -> SUBSET Ids]
  /\ waiting \subseteq Ids
  /\ told \subseteq Ids
  /\ faults \in 0 .. MaxFaults
  /\ flawed \subseteq Ids
  /\ raced \subseteq Ids

\* A program of a channel is recorded once, however many users ask for it and
\* whatever fails in between: no channel has two parts of one program.
RecordedOnce ==
  \A ch \in Channels : \A a, b \in parts[ch] :
    streams[a].program = streams[b].program => a = b

\* What a user lists can be played: the catchup has a document, and it is a
\* part of a channel the user is subscribed to.
ListedIsStored ==
  \A u \in Users : \A id \in userCatchups[u] :
    /\ streams[id] # NoDoc
    /\ \E ch \in Channels : <<u, ch>> \in Subscribed /\ id \in parts[ch]

\* An id that the panels hear of is complete in the database: a catchup has
\* its document, its channel and its server, a content request its document
\* and its user.
AnnouncedIsComplete ==
  \A id \in waiting \cup told :
    \/ /\ streams[id] # NoDoc
       /\ id \in served
       /\ \E ch \in Channels : id \in parts[ch]
    \/ /\ id \in requests
       /\ \E u \in Users : id \in userRequests[u]

\* Panels hear of an id once: CatchupCreated is for new catchups only.
AnnouncedOnce ==
  Running(Recordings, "announce") \/ Running(ContentJobs, "announceRequest")
    => job.id \notin waiting \cup told

\* Only a fault strands a catchup: one that a user lists, whose creation met
\* no failed write and no crash, is on its server's list and was announced.
\* After a fault the next request finds it cached and announces nothing.
OnlyFaultsStrand ==
  \A u \in Users : \A id \in userCatchups[u] \ flawed :
    id \in served /\ (id \in waiting \cup told \/ Running(Recordings, "announce"))

\* The endpoint is read twice without a lock.  Unless prepare_service ran in
\* between, a stored catchup has urls of a valid endpoint.
RecordedAtValidEndpoint ==
  \A id \in Ids \ raced : streams[id] # NoDoc => streams[id].place \in Endpoints

\* The panels are told of every catchup and content request a user lists,
\* unless its creation met a fault.
PanelsHear ==
  \A id \in Ids :
    (\E u \in Users : id \in userCatchups[u] \cup userRequests[u])
      ~> (id \in told \cup flawed)

-----------------------------------------------------------------------------
(***************************************************************************)
(* What the handlers implement: a program is recorded when its catchup is  *)
(* linked to the channel, whatever document was written before.            *)
(***************************************************************************)

Library ==
  INSTANCE CatchupLibrary WITH
    recorded <- [ch \in Channels |-> [pr \in Programs |-> Cached(ch, pr)]],
    library  <- userCatchups,
    asked    <- userRequests,
    news     <- waiting,
    heard    <- told

\* Seen from users and panels every write of a handler is one step of the
\* library or none, whatever fails: what is recorded stays the catchup of its
\* program, and what is announced is some user's and was not announced before.
ImplementsLibrary == Library!Spec
=============================================================================
