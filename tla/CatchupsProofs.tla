--------------------------- MODULE CatchupsProofs ---------------------------
(***************************************************************************)
(* Catchups: the type invariant, the safety invariants of the catchup and  *)
(* content request handlers, and what they implement, for any number of    *)
(* users, channels, programs, ids and faults.                              *)
(*                                                                         *)
(* None of the invariants is inductive: each depends on how far the        *)
(* running handler has come.  JobSound and RequestSound say what the steps *)
(* already taken have established, PartsAnnounced follows every linked     *)
(* catchup to its announcement, and EndpointRead says what the check of    *)
(* the endpoint is still worth when the document is written.               *)
(*                                                                         *)
(* That the handlers implement CatchupLibrary needs LibraryInv besides: an *)
(* id is of one document only, and nothing is announced before the user    *)
(* has it.                                                                 *)
(***************************************************************************)
EXTENDS Catchups, TLAPS

JobSound ==
  job \in Recordings =>
    /\ <<job.user, job.channel>> \in Subscribed
    /\ job.step # "grant" => job.created
    /\ job.step = "insert" => Unused(job.id)
    /\ job.step # "insert" => /\ streams[job.id] # NoDoc
                              /\ streams[job.id].program = job.program
    /\ job.step \in {"insert", "link"} =>
         \A id \in parts[job.channel] : streams[id].program # job.program
    /\ job.step \in {"serve", "grant", "announce"} => job.id \in parts[job.channel]
    /\ job.step \in {"grant", "announce"} /\ job.created => job.id \in served
    /\ job.created => job.id \notin waiting \cup told

RequestSound ==
  job \in ContentJobs =>
    /\ job.step = "insertRequest" => Unused(job.id)
    /\ job.step # "insertRequest" => job.id \in requests
    /\ job.step = "announceRequest" => job.id \in userRequests[job.user]
    /\ job.id \notin waiting \cup told

PartsAnnounced ==
  \A ch \in Channels : \A id \in parts[ch] :
    /\ streams[id] # NoDoc
    /\ \/ id \in flawed
       \/ id \in served /\ id \in waiting \cup told
       \/ job \in Recordings /\ job.id = id /\ job.created

EndpointRead ==
  Running(Recordings, "insert") /\ job.id \notin raced
    => setup = NoSetup /\ endpoint \in Endpoints

IInv ==
  /\ TypeOK
  /\ JobSound
  /\ RequestSound
  /\ PartsAnnounced
  /\ EndpointRead
  /\ RecordedOnce
  /\ ListedIsStored
  /\ AnnouncedIsComplete
  /\ OnlyFaultsStrand
  /\ RecordedAtValidEndpoint

-----------------------------------------------------------------------------
LEMMA InitIInv == Init => IInv
<1> SUFFICES ASSUME Init PROVE IInv
  OBVIOUS
<1> USE CatchupsAssumption, NullAssumption DEF Init
<1>1. TypeOK
  BY DEF TypeOK
<1>2. JobSound /\ RequestSound /\ EndpointRead
  BY DEF JobSound, RequestSound, EndpointRead, Running
<1>3. PartsAnnounced /\ RecordedOnce /\ ListedIsStored /\ AnnouncedIsComplete
  BY DEF PartsAnnounced, RecordedOnce, ListedIsStored, AnnouncedIsComplete
<1>4. OnlyFaultsStrand /\ RecordedAtValidEndpoint
  BY DEF OnlyFaultsStrand, RecordedAtValidEndpoint
<1> QED
  BY <1>1, <1>2, <1>3, <1>4 DEF IInv

\* Moving a job on to another step of its kind changes nothing else of it.
LEMMA NextStep ==
  ASSUME NEW j \in Recordings, NEW s \in Steps
  PROVE  LET k == [j EXCEPT !.step = s]
         IN  /\ k \in Recordings
             /\ k \notin ContentJobs
             /\ k # NoJob
             /\ k.step = s
             /\ k.user = j.user
             /\ k.channel = j.channel
             /\ k.program = j.program
             /\ k.id = j.id
             /\ k.created = j.created
BY NullAssumption DEF Recordings, ContentJobs, Steps, ContentSteps

LEMMA NextRequestStep ==
  ASSUME NEW j \in ContentJobs, NEW s \in ContentSteps
  PROVE  LET k == [j EXCEPT !.step = s]
         IN  /\ k \in ContentJobs
             /\ k \notin Recordings
             /\ k # NoJob
             /\ k.step = s
             /\ k.user = j.user
             /\ k.id = j.id
BY NullAssumption DEF Recordings, ContentJobs, Steps, ContentSteps

\* No job is of both kinds, and NoJob is of neither.
LEMMA Kinds ==
  /\ Recordings \cap ContentJobs = {}
  /\ NoJob \notin Recordings
  /\ NoJob \notin ContentJobs
BY NullAssumption DEF Recordings, ContentJobs, Steps, ContentSteps

\* insert: the id is unused, so no list holds it yet; the endpoint still is
\* the one that was checked unless the id is in raced.
LEMMA InsertStreamIInv ==
  ASSUME IInv, NEW o \in Outcomes, InsertStream(o) PROVE IInv'
<1> USE CatchupsAssumption, NullAssumption, Kinds DEF IInv, panels
<1>1. job \in Recordings /\ job.step = "insert" /\ Unused(job.id) /\ job.id \in Ids
  BY DEF InsertStream, Running, JobSound, Recordings
<1>2. job' = NoJob \/ (o = "done" /\ job' = [job EXCEPT !.step = "link"])
  BY DEF InsertStream, Continue
<1>3. o = "done" => /\ job' \in Recordings /\ job'.step = "link"
                    /\ job'.user = job.user /\ job'.channel = job.channel
                    /\ job'.program = job.program /\ job'.id = job.id
                    /\ job'.created = job.created
  BY <1>1, NextStep DEF InsertStream, Continue, Steps
<1> DEFINE place == IF setup = NoSetup THEN endpoint ELSE "torn"
<1>5. /\ \A id \in Ids \ {job.id} : streams'[id] = streams[id]
      /\ InEffect(o) => streams'[job.id] = [program |-> job.program, place |-> place]
      /\ ~InEffect(o) => streams' = streams
  BY <1>1 DEF InsertStream, TypeOK
<1>6. [program |-> job.program, place |-> place] \in Docs
  BY <1>1 DEF TypeOK, Docs, Places, Recordings
<1>7. TypeOK'
  BY <1>1, <1>2, <1>3, <1>6 DEF TypeOK, InsertStream, Continue
<1>8. \A ch \in Channels : job.id \notin parts[ch]
  BY <1>1 DEF PartsAnnounced, Unused
<1>9. JobSound'
  BY <1>1, <1>2, <1>3, <1>5, <1>6, <1>8 DEF JobSound, InsertStream, InEffect, TypeOK, Recordings
<1>10. RequestSound' /\ EndpointRead'
  BY <1>1, <1>2, <1>3 DEF RequestSound, EndpointRead, Running
<1>11. PartsAnnounced'
  BY <1>1, <1>2, <1>3, <1>5, <1>8 DEF PartsAnnounced, InsertStream, TypeOK
<1>12. RecordedOnce'
  BY <1>5, <1>8 DEF RecordedOnce, InsertStream, TypeOK
<1>13. ListedIsStored'
  BY <1>5, <1>6 DEF ListedIsStored, InsertStream, TypeOK
<1>14. AnnouncedIsComplete'
  BY <1>5, <1>6 DEF AnnouncedIsComplete, InsertStream, TypeOK
<1>15. OnlyFaultsStrand'
  BY <1>1 DEF OnlyFaultsStrand, InsertStream, Running
<1>16. RecordedAtValidEndpoint'
  BY <1>1, <1>5 DEF RecordedAtValidEndpoint, EndpointRead, Running, InsertStream, TypeOK
<1> QED
  BY <1>7, <1>9, <1>10, <1>11, <1>12, <1>13, <1>14, <1>15, <1>16

\* link: RecordedOnce is what the empty search in FindCached was for.
LEMMA LinkPartIInv ==
  ASSUME IInv, NEW o \in Outcomes, LinkPart(o) PROVE IInv'
<1> USE CatchupsAssumption, NullAssumption, Kinds DEF IInv, panels
<1>1. /\ job \in Recordings /\ job.step = "link"
      /\ job.id \in Ids /\ job.user \in Users /\ job.channel \in Channels
  BY DEF LinkPart, Running, Recordings
<1>2. ~(o = "done") => job' = NoJob
  BY DEF LinkPart, Continue
<1>3. o = "done" => /\ job' \in Recordings /\ job'.step = "serve"
                    /\ job'.user = job.user /\ job'.channel = job.channel
                    /\ job'.program = job.program /\ job'.id = job.id
                    /\ job'.created = job.created
  BY <1>1, NextStep DEF LinkPart, Continue, Steps
<1>4. job' \in Recordings \cup {NoJob} /\ (job' \in Recordings => o = "done")
  BY <1>2, <1>3
<1>5. \A ch \in Channels :
        parts'[ch] = IF ch = job.channel /\ InEffect(o) THEN parts[ch] \cup {job.id} ELSE parts[ch]
  BY <1>1 DEF LinkPart, TypeOK
<1>6. TypeOK'
  BY <1>1, <1>4 DEF TypeOK, LinkPart, Continue
<1>7. JobSound'
  <2>1. o = "done" => job.id \in parts'[job.channel]
    BY <1>1, <1>5 DEF InEffect
  <2> QED
    BY <1>1, <1>3, <1>4, <2>1 DEF JobSound, LinkPart
<1>8. RequestSound' /\ EndpointRead'
  BY <1>1, <1>3, <1>4 DEF RequestSound, EndpointRead, Running
<1>9. PartsAnnounced'
  <2> SUFFICES ASSUME NEW ch \in Channels, NEW id \in parts'[ch]
               PROVE  /\ streams[id] # NoDoc
                      /\ \/ id \in flawed'
                         \/ id \in served /\ id \in waiting \cup told
                         \/ job' \in Recordings /\ job'.id = id /\ job'.created
    BY DEF PartsAnnounced, LinkPart
  <2>1. CASE id = job.id
    BY <1>1, <1>3, <2>1 DEF JobSound, LinkPart
  <2>2. CASE id # job.id
    BY <1>1, <1>5, <2>2 DEF PartsAnnounced, LinkPart
  <2> QED
    BY <2>1, <2>2
<1>10. RecordedOnce'
  BY <1>1, <1>5 DEF RecordedOnce, JobSound, LinkPart
<1>11. ListedIsStored' /\ AnnouncedIsComplete'
  <2>1. \A ch \in Channels : parts[ch] \subseteq parts'[ch]
    BY <1>5
  <2> QED
    BY <2>1 DEF ListedIsStored, AnnouncedIsComplete, LinkPart
<1>12. OnlyFaultsStrand' /\ RecordedAtValidEndpoint'
  BY <1>1 DEF OnlyFaultsStrand, RecordedAtValidEndpoint, LinkPart, Running
<1> QED
  BY <1>6, <1>7, <1>8, <1>9, <1>10, <1>11, <1>12

\* serve: after an error the catchup stays linked, and is flawed.
LEMMA AddStreamToServerIInv ==
  ASSUME IInv, NEW o \in Outcomes, AddStreamToServer(o) PROVE IInv'
<1> USE CatchupsAssumption, NullAssumption, Kinds DEF IInv, panels
<1>1. /\ job \in Recordings /\ job.step = "serve"
      /\ job.id \in Ids /\ job.user \in Users /\ job.channel \in Channels
  BY DEF AddStreamToServer, Running, Recordings
<1>2. ~(o = "done") => job' = NoJob
  BY DEF AddStreamToServer, Continue
<1>3. o = "done" => /\ job' \in Recordings /\ job'.step = "grant"
                    /\ job'.user = job.user /\ job'.channel = job.channel
                    /\ job'.program = job.program /\ job'.id = job.id
                    /\ job'.created = job.created
  BY <1>1, NextStep DEF AddStreamToServer, Continue, Steps
<1>4. job' \in Recordings \cup {NoJob} /\ (job' \in Recordings => o = "done")
  BY <1>2, <1>3
<1>5. served \subseteq served' /\ (o = "done" => job.id \in served')
  BY DEF AddStreamToServer, InEffect
<1>6. TypeOK'
  BY <1>1, <1>4 DEF TypeOK, AddStreamToServer, Continue
<1>7. JobSound'
  BY <1>1, <1>3, <1>4, <1>5 DEF JobSound, AddStreamToServer
<1>8. RequestSound' /\ EndpointRead'
  BY <1>1, <1>3, <1>4 DEF RequestSound, EndpointRead, Running
<1>9. PartsAnnounced'
  <2> SUFFICES ASSUME NEW ch \in Channels, NEW id \in parts[ch]
               PROVE  /\ streams[id] # NoDoc
                      /\ \/ id \in flawed'
                         \/ id \in served' /\ id \in waiting \cup told
                         \/ job' \in Recordings /\ job'.id = id /\ job'.created
    BY DEF PartsAnnounced, AddStreamToServer
  <2>1. CASE id = job.id
    BY <1>1, <1>3, <2>1 DEF PartsAnnounced, JobSound, AddStreamToServer
  <2>2. CASE id # job.id
    BY <1>1, <1>5, <2>2 DEF PartsAnnounced, AddStreamToServer
  <2> QED
    BY <2>1, <2>2
<1>10. RecordedOnce' /\ ListedIsStored' /\ AnnouncedIsComplete'
  BY <1>5 DEF RecordedOnce, ListedIsStored, AnnouncedIsComplete, AddStreamToServer
<1>11. OnlyFaultsStrand' /\ RecordedAtValidEndpoint'
  BY <1>1, <1>5 DEF OnlyFaultsStrand, RecordedAtValidEndpoint, AddStreamToServer, Running
<1> QED
  BY <1>6, <1>7, <1>8, <1>9, <1>10, <1>11

\* grant: a cached catchup was announced, or its first request met a fault.
LEMMA AddUserCatchupIInv ==
  ASSUME IInv, NEW o \in Outcomes, AddUserCatchup(o) PROVE IInv'
<1> USE CatchupsAssumption, NullAssumption, Kinds DEF IInv, panels
<1>1. /\ job \in Recordings /\ job.step = "grant"
      /\ job.id \in Ids /\ job.user \in Users /\ job.channel \in Channels
  BY DEF AddUserCatchup, Running, Recordings
<1>2. ~(o = "done" /\ job.created) => job' = NoJob
  BY DEF AddUserCatchup, Continue
<1>3. o = "done" /\ job.created => /\ job' \in Recordings /\ job'.step = "announce"
                    /\ job'.user = job.user /\ job'.channel = job.channel
                    /\ job'.program = job.program /\ job'.id = job.id
                    /\ job'.created = job.created
  BY <1>1, NextStep DEF AddUserCatchup, Continue, Steps
<1>4. job' \in Recordings \cup {NoJob} /\ (job' \in Recordings => o = "done" /\ job.created)
  BY <1>2, <1>3
<1>5. \A u \in Users :
        userCatchups'[u] = IF u = job.user /\ InEffect(o)
                           THEN userCatchups[u] \cup {job.id} ELSE userCatchups[u]
  BY <1>1 DEF AddUserCatchup, TypeOK
<1>6. TypeOK'
  BY <1>1, <1>4 DEF TypeOK, AddUserCatchup, Continue
<1>8. JobSound'
  BY <1>1, <1>3, <1>4 DEF JobSound, AddUserCatchup
<1>9. RequestSound' /\ EndpointRead'
  BY <1>1, <1>3, <1>4 DEF RequestSound, EndpointRead, Running
<1>10. PartsAnnounced'
  BY <1>1, <1>3, <1>4 DEF PartsAnnounced, AddUserCatchup
<1>11. RecordedOnce' /\ AnnouncedIsComplete' /\ RecordedAtValidEndpoint'
  BY DEF RecordedOnce, AnnouncedIsComplete, RecordedAtValidEndpoint, AddUserCatchup
<1>12. ListedIsStored'
  BY <1>1, <1>5 DEF ListedIsStored, JobSound, AddUserCatchup
<1>13. OnlyFaultsStrand'
  <2> SUFFICES ASSUME NEW u \in Users, NEW id \in userCatchups'[u] \ flawed'
               PROVE  id \in served /\ (id \in waiting \cup told \/ Running(Recordings, "announce")')
    BY DEF OnlyFaultsStrand, AddUserCatchup
  <2>1. id \notin flawed
    BY DEF AddUserCatchup
  <2>2. CASE id \in userCatchups[u]
    BY <1>1, <2>1, <2>2 DEF OnlyFaultsStrand, Running
  <2>3. CASE id = job.id
    BY <1>1, <1>3, <1>4, <2>1, <2>3
       DEF PartsAnnounced, JobSound, AddUserCatchup, Running
  <2> QED
    BY <1>5, <2>2, <2>3
<1> QED
  BY <1>6, <1>8, <1>9, <1>10, <1>11, <1>12, <1>13

\* CatchupCreated: the catchup is complete by now.
LEMMA CatchupCreatedIInv == ASSUME IInv, CatchupCreated PROVE IInv'
<1> USE CatchupsAssumption, NullAssumption, Kinds DEF IInv, panels
<1>1. /\ job \in Recordings /\ job.step = "announce" /\ job' = NoJob
      /\ job.id \in Ids /\ job.channel \in Channels
      /\ waiting' = waiting \cup {job.id}
  BY DEF CatchupCreated, Running, Recordings
<1>2. TypeOK' /\ JobSound' /\ RequestSound' /\ EndpointRead'
  BY <1>1 DEF TypeOK, JobSound, RequestSound, EndpointRead, CatchupCreated, Running, mongo
<1>3. PartsAnnounced'
  BY <1>1 DEF PartsAnnounced, JobSound, CatchupCreated, mongo
<1>4. RecordedOnce' /\ ListedIsStored' /\ RecordedAtValidEndpoint'
  BY DEF RecordedOnce, ListedIsStored, RecordedAtValidEndpoint, CatchupCreated, mongo
<1>5. AnnouncedIsComplete'
  BY <1>1 DEF AnnouncedIsComplete, JobSound, CatchupCreated, mongo
<1>6. OnlyFaultsStrand'
  <2> SUFFICES ASSUME NEW u \in Users, NEW id \in userCatchups[u], id \notin flawed
               PROVE  id \in served /\ id \in waiting' \cup told
    BY DEF OnlyFaultsStrand, CatchupCreated, mongo
  <2>1. \E ch \in Channels : id \in parts[ch]
    BY DEF ListedIsStored
  <2> QED
    BY <1>1, <2>1 DEF PartsAnnounced, JobSound
<1> QED
  BY <1>2, <1>3, <1>4, <1>5, <1>6

LEMMA UndoCatchupIInv ==
  ASSUME IInv, NEW u \in Users, NEW id \in Ids, NEW o \in Outcomes, UndoCatchup(u, id, o)
  PROVE  IInv'
<1> USE CatchupsAssumption, NullAssumption, Kinds DEF IInv, panels
<1>1. job = NoJob /\ job' = NoJob
  BY DEF UndoCatchup, Continue
<1>2. \A v \in Users : userCatchups'[v] \subseteq userCatchups[v]
  BY DEF UndoCatchup, TypeOK
<1>3. TypeOK'
  BY <1>1 DEF TypeOK, UndoCatchup, Continue
<1>4. JobSound' /\ RequestSound' /\ EndpointRead' /\ PartsAnnounced'
  BY <1>1 DEF JobSound, RequestSound, EndpointRead, PartsAnnounced, UndoCatchup, Running
<1>5. RecordedOnce' /\ AnnouncedIsComplete' /\ RecordedAtValidEndpoint'
  BY DEF RecordedOnce, AnnouncedIsComplete, RecordedAtValidEndpoint, UndoCatchup
<1>6. ListedIsStored' /\ OnlyFaultsStrand'
  BY <1>1, <1>2 DEF ListedIsStored, OnlyFaultsStrand, UndoCatchup, Running
<1> QED
  BY <1>3, <1>4, <1>5, <1>6

\* The database, the broadcasts and the flaws as they are keep these.
LEMMA DatabaseSame ==
  ASSUME IInv, UNCHANGED <<mongo, panels, flawed>>
  PROVE  RecordedOnce' /\ ListedIsStored' /\ AnnouncedIsComplete'
BY DEF IInv, RecordedOnce, ListedIsStored, AnnouncedIsComplete, mongo, panels

LEMMA FindCachedIInv ==
  ASSUME IInv, NEW u \in Users, NEW ch \in Channels, NEW pr \in Programs,
         FindCached(u, ch, pr)
  PROVE  IInv'
<1> USE CatchupsAssumption, NullAssumption, Kinds DEF IInv, panels
<1>1. PICK id \in Cached(ch, pr) :
        job' = [step |-> "grant", user |-> u, channel |-> ch, program |-> pr,
                id |-> id, created |-> FALSE]
  BY DEF FindCached
<1>2. id \in parts[ch] /\ id \in Ids /\ streams[id] # NoDoc /\ streams[id].program = pr
  BY DEF Cached, TypeOK
<1>3. job = NoJob /\ job' \in Recordings
  BY <1>1, <1>2 DEF FindCached, Recordings, Steps
<1>4. TypeOK'
  BY <1>3 DEF TypeOK, FindCached, mongo
<1>5. JobSound'
  BY <1>1, <1>2 DEF JobSound, FindCached, mongo
<1>6. RequestSound' /\ EndpointRead'
  BY <1>1, <1>3 DEF RequestSound, EndpointRead, Running
<1>7. PartsAnnounced' /\ OnlyFaultsStrand' /\ RecordedAtValidEndpoint'
  BY <1>3 DEF PartsAnnounced, OnlyFaultsStrand, RecordedAtValidEndpoint, FindCached, Running, mongo
<1> QED
  BY <1>4, <1>5, <1>6, <1>7, DatabaseSame DEF FindCached

\* StartRecording: no part is of the program, and an unused id was announced
\* never, because what was announced is complete.
LEMMA StartRecordingIInv ==
  ASSUME IInv, NEW u \in Users, NEW ch \in Channels, NEW pr \in Programs,
         StartRecording(u, ch, pr)
  PROVE  IInv'
<1> USE CatchupsAssumption, NullAssumption, Kinds DEF IInv, panels
<1>1. PICK id \in Ids :
        /\ Unused(id)
        /\ job' = [step |-> "insert", user |-> u, channel |-> ch, program |-> pr,
                   id |-> id, created |-> TRUE]
        /\ raced' = IF setup = NoSetup THEN raced \ {id} ELSE raced \cup {id}
  BY DEF StartRecording
<1>2. job = NoJob /\ job' \in Recordings
  BY <1>1 DEF StartRecording, Recordings, Steps
<1>3. TypeOK'
  BY <1>1, <1>2 DEF TypeOK, StartRecording, mongo
<1>4. \A x \in parts[ch] : streams[x].program # pr
  BY DEF StartRecording, Cached, PartsAnnounced
<1>5. id \notin waiting \cup told
  BY <1>1 DEF AnnouncedIsComplete, Unused
<1>6. JobSound'
  BY <1>1, <1>4, <1>5 DEF JobSound, StartRecording, mongo, Unused
<1>7. RequestSound' /\ EndpointRead'
  BY <1>1, <1>2 DEF RequestSound, EndpointRead, Running, StartRecording, EndpointValid
<1>8. PartsAnnounced' /\ OnlyFaultsStrand'
  BY <1>2 DEF PartsAnnounced, OnlyFaultsStrand, StartRecording, Running, mongo
<1>9. RecordedAtValidEndpoint'
  BY <1>1 DEF RecordedAtValidEndpoint, StartRecording, Unused, mongo
<1> QED
  BY <1>3, <1>6, <1>7, <1>8, <1>9, DatabaseSame DEF StartRecording

LEMMA StartRequestIInv == ASSUME IInv, NEW u \in Users, StartRequest(u) PROVE IInv'
<1> USE CatchupsAssumption, NullAssumption, Kinds DEF IInv, panels
<1>1. PICK id \in Ids :
        Unused(id) /\ job' = [step |-> "insertRequest", user |-> u, id |-> id]
  BY DEF StartRequest
<1>2. job = NoJob /\ job' \in ContentJobs
  BY <1>1 DEF StartRequest, ContentJobs, ContentSteps
<1>3. TypeOK'
  BY <1>2 DEF TypeOK, StartRequest, mongo
<1>4. id \notin waiting \cup told
  BY <1>1 DEF AnnouncedIsComplete, Unused
<1>5. RequestSound'
  BY <1>1, <1>4 DEF RequestSound, StartRequest, mongo, Unused
<1>6. JobSound' /\ EndpointRead'
  BY <1>2 DEF JobSound, EndpointRead, Running
<1>7. PartsAnnounced' /\ OnlyFaultsStrand' /\ RecordedAtValidEndpoint'
  BY <1>2 DEF PartsAnnounced, OnlyFaultsStrand, RecordedAtValidEndpoint, StartRequest, Running, mongo
<1> QED
  BY <1>3, <1>5, <1>6, <1>7, DatabaseSame DEF StartRequest

\* A content request's steps leave everything about catchups alone.
LEMMA RequestWriteIInv ==
  ASSUME IInv, NEW o \in Outcomes, InsertRequest(o) \/ AddContentRequestToUser(o)
  PROVE  IInv'
<1> USE CatchupsAssumption, NullAssumption, Kinds DEF IInv, panels
<1>1. /\ job \in ContentJobs /\ job.id \in Ids /\ job.user \in Users
      /\ UNCHANGED <<endpoint, setup, streams, parts, served, userCatchups, waiting, told, raced>>
      /\ flawed \subseteq flawed'
  BY DEF InsertRequest, AddContentRequestToUser, Running, ContentJobs
<1>2. o # "done" => job' = NoJob
  BY DEF InsertRequest, AddContentRequestToUser, Continue
<1>3. o = "done" =>
        /\ job' \in ContentJobs /\ job'.id = job.id /\ job'.user = job.user
        /\ InsertRequest(o) => job'.step = "linkRequest"
        /\ AddContentRequestToUser(o) => job'.step = "announceRequest"
  <2>1. ~(InsertRequest(o) /\ AddContentRequestToUser(o))
    BY DEF InsertRequest, AddContentRequestToUser, Running
  <2>2. CASE InsertRequest(o)
    BY <1>1, <2>1, <2>2, NextRequestStep DEF InsertRequest, Continue, ContentSteps
  <2>3. CASE AddContentRequestToUser(o)
    BY <1>1, <2>1, <2>3, NextRequestStep DEF AddContentRequestToUser, Continue, ContentSteps
  <2> QED
    BY <2>2, <2>3
<1>4. job' \notin Recordings
  BY <1>2, <1>3
<1>5. /\ requests \subseteq requests'
      /\ \A u \in Users : userRequests[u] \subseteq userRequests'[u]
  BY DEF InsertRequest, AddContentRequestToUser, TypeOK
<1>6. TypeOK'
  BY <1>1, <1>2, <1>3 DEF TypeOK, InsertRequest, AddContentRequestToUser, Continue
<1>7. JobSound' /\ EndpointRead'
  BY <1>4 DEF JobSound, EndpointRead, Running
<1>8. RequestSound'
  <2>1. CASE InsertRequest(o)
    BY <1>1, <1>2, <1>3, <2>1 DEF RequestSound, InsertRequest, InEffect
  <2>2. CASE AddContentRequestToUser(o)
    BY <1>1, <1>2, <1>3, <2>2
       DEF RequestSound, AddContentRequestToUser, InEffect, TypeOK, Running
  <2> QED
    BY <2>1, <2>2
<1>9. PartsAnnounced' /\ OnlyFaultsStrand'
  BY <1>1, <1>4 DEF PartsAnnounced, OnlyFaultsStrand, Running
<1>10. RecordedOnce' /\ ListedIsStored' /\ RecordedAtValidEndpoint'
  BY <1>1 DEF RecordedOnce, ListedIsStored, RecordedAtValidEndpoint
<1>11. AnnouncedIsComplete'
  BY <1>1, <1>5 DEF AnnouncedIsComplete
<1> QED
  BY <1>6, <1>7, <1>8, <1>9, <1>10, <1>11

LEMMA ContentRequestCreatedIInv == ASSUME IInv, ContentRequestCreated PROVE IInv'
<1> USE CatchupsAssumption, NullAssumption, Kinds DEF IInv, panels
<1>1. /\ job \in ContentJobs /\ job.step = "announceRequest" /\ job' = NoJob
      /\ job.id \in Ids /\ job.user \in Users
      /\ waiting' = waiting \cup {job.id}
  BY DEF ContentRequestCreated, Running, ContentJobs
<1>2. TypeOK' /\ JobSound' /\ RequestSound' /\ EndpointRead'
  BY <1>1 DEF TypeOK, JobSound, RequestSound, EndpointRead, ContentRequestCreated, Running, mongo
<1>3. PartsAnnounced' /\ OnlyFaultsStrand'
  BY <1>1 DEF PartsAnnounced, OnlyFaultsStrand, ContentRequestCreated, Running, mongo
<1>4. RecordedOnce' /\ ListedIsStored' /\ RecordedAtValidEndpoint'
  BY DEF RecordedOnce, ListedIsStored, RecordedAtValidEndpoint, ContentRequestCreated, mongo
<1>5. AnnouncedIsComplete'
  BY <1>1 DEF AnnouncedIsComplete, RequestSound, ContentRequestCreated, mongo
<1> QED
  BY <1>2, <1>3, <1>4, <1>5

\* prepare_service: beginning it puts the id about to be written in raced.
LEMMA SetupIInv ==
  ASSUME IInv, EndSetup \/ \E e \in Endpoints \cup {"unset"} : BeginSetup(e)
  PROVE  IInv'
<1> USE CatchupsAssumption, NullAssumption, Kinds DEF IInv, panels
<1>1. /\ UNCHANGED <<job, mongo, panels, faults, flawed>>
      /\ raced \subseteq raced'
  BY DEF EndSetup, BeginSetup
<1>2. TypeOK'
  BY <1>1 DEF TypeOK, EndSetup, BeginSetup, mongo, Running, Recordings
<1>3. JobSound' /\ RequestSound' /\ PartsAnnounced' /\ OnlyFaultsStrand'
  BY <1>1 DEF JobSound, RequestSound, PartsAnnounced, OnlyFaultsStrand, Running, Unused, mongo
<1>4. EndpointRead'
  BY <1>1 DEF EndpointRead, EndSetup, BeginSetup, Running
<1>5. RecordedAtValidEndpoint'
  BY <1>1 DEF RecordedAtValidEndpoint, mongo
<1> QED
  BY <1>1, <1>2, <1>3, <1>4, <1>5, DatabaseSame

LEMMA BroadcastCreatedIInv ==
  ASSUME IInv, NEW id \in Ids, BroadcastCreated(id) PROVE IInv'
<1> USE CatchupsAssumption, NullAssumption, Kinds DEF IInv, panels
<1>1. waiting' \cup told' = waiting \cup told
  BY DEF BroadcastCreated
<1>2. TypeOK'
  BY DEF TypeOK, BroadcastCreated, mongo
<1>3. JobSound' /\ RequestSound' /\ EndpointRead' /\ PartsAnnounced'
  BY <1>1 DEF JobSound, RequestSound, EndpointRead, PartsAnnounced, BroadcastCreated,
              Running, Unused, mongo
<1>4. OnlyFaultsStrand' /\ AnnouncedIsComplete'
  BY <1>1 DEF OnlyFaultsStrand, AnnouncedIsComplete, BroadcastCreated, Running, mongo
<1>5. RecordedOnce' /\ ListedIsStored' /\ RecordedAtValidEndpoint'
  BY DEF RecordedOnce, ListedIsStored, RecordedAtValidEndpoint, BroadcastCreated, mongo
<1> QED
  BY <1>2, <1>3, <1>4, <1>5

\* Crash: whatever had not reached the panels is flawed from now on.
LEMMA CrashIInv == ASSUME IInv, Crash PROVE IInv'
<1> USE CatchupsAssumption, NullAssumption, Kinds DEF IInv, panels
<1>1. /\ job' = NoJob /\ waiting' = {} /\ told' = told /\ UNCHANGED mongo
      /\ raced' = raced /\ waiting \subseteq flawed' /\ flawed \subseteq flawed'
  BY DEF Crash
<1>2. job \in Recordings \cup ContentJobs => job.id \in Ids
  BY DEF Recordings, ContentJobs
<1>3. job \in Recordings /\ job.created /\ streams[job.id] # NoDoc => job.id \in flawed'
  BY <1>2 DEF Crash, Unused
<1>4. TypeOK'
  BY <1>1, <1>2 DEF TypeOK, Crash, mongo
<1>5. JobSound' /\ RequestSound' /\ EndpointRead'
  BY <1>1 DEF JobSound, RequestSound, EndpointRead, Running
<1>6. PartsAnnounced'
  BY <1>1, <1>3 DEF PartsAnnounced, mongo
<1>7. OnlyFaultsStrand'
  <2> SUFFICES ASSUME NEW u \in Users, NEW id \in userCatchups[u], id \notin flawed'
               PROVE  id \in served /\ id \in told
    BY <1>1 DEF OnlyFaultsStrand, mongo
  <2>1. \E ch \in Channels : id \in parts[ch]
    BY DEF ListedIsStored
  <2> QED
    BY <1>1, <1>3, <2>1 DEF PartsAnnounced
<1>8. RecordedOnce' /\ ListedIsStored' /\ AnnouncedIsComplete' /\ RecordedAtValidEndpoint'
  BY <1>1 DEF RecordedOnce, ListedIsStored, AnnouncedIsComplete, RecordedAtValidEndpoint, mongo
<1> QED
  BY <1>4, <1>5, <1>6, <1>7, <1>8

LEMMA NextIInv == IInv /\ [Next]_vars => IInv'
<1> SUFFICES ASSUME IInv, [Next]_vars PROVE IInv'
  OBVIOUS
<1>1. ASSUME NEW u \in Users, UserRequest(u) PROVE IInv'
  BY <1>1, FindCachedIInv, StartRecordingIInv, UndoCatchupIInv, StartRequestIInv
     DEF UserRequest
<1>2. CASE HandlerStep
  BY <1>2, InsertStreamIInv, LinkPartIInv, AddStreamToServerIInv, AddUserCatchupIInv,
     RequestWriteIInv, CatchupCreatedIInv, ContentRequestCreatedIInv
     DEF HandlerStep, WriteStep
<1>3. CASE EndSetup \/ \E e \in Endpoints \cup {"unset"} : BeginSetup(e)
  BY <1>3, SetupIInv
<1>4. CASE \E id \in Ids : BroadcastCreated(id)
  BY <1>4, BroadcastCreatedIInv
<1>5. CASE Crash
  BY <1>5, CrashIInv
<1>6. CASE UNCHANGED vars
  <2>1. UNCHANGED <<job, endpoint, setup, mongo, panels, faults, flawed, raced>>
    BY <1>6 DEF vars
  <2>2. TypeOK'
    BY <2>1 DEF IInv, TypeOK, mongo, panels
  <2>3. JobSound' /\ RequestSound' /\ PartsAnnounced' /\ EndpointRead'
    BY <2>1 DEF IInv, JobSound, RequestSound, PartsAnnounced, EndpointRead, Running, Unused,
                mongo, panels
  <2>4. OnlyFaultsStrand' /\ RecordedAtValidEndpoint'
    BY <2>1 DEF IInv, OnlyFaultsStrand, RecordedAtValidEndpoint, Running, mongo, panels
  <2> QED
    BY <2>1, <2>2, <2>3, <2>4, DatabaseSame DEF IInv
<1> QED
  BY <1>1, <1>2, <1>3, <1>4, <1>5, <1>6 DEF Next

-----------------------------------------------------------------------------
\* The handlers' steps keep the inductive invariant, crashes included.
THEOREM InductiveInvariant == Spec => []IInv
BY InitIInv, NextIInv, PTL DEF Spec

\* Every variable stays in its type.
THEOREM TypeCorrect == Spec => []TypeOK
<1>1. IInv => TypeOK
  BY DEF IInv
<1> QED
  BY <1>1, InductiveInvariant, PTL

\* CreateOrFindCatchup records a program of a channel once, although a failed
\* or killed attempt leaves its document behind and the user asks again.
THEOREM AlwaysRecordedOnce == Spec => []RecordedOnce
<1>1. IInv => RecordedOnce
  BY DEF IInv
<1> QED
  BY <1>1, InductiveInvariant, PTL

\* The order of the writes: a user's array never refers to a catchup that has
\* no document or is no part of a channel.
THEOREM AlwaysStored == Spec => []ListedIsStored
<1>1. IInv => ListedIsStored
  BY DEF IInv
<1> QED
  BY <1>1, InductiveInvariant, PTL

\* The panels hear of complete catchups and content requests only, whatever
\* writes failed before CatchupCreated and ContentRequestCreated.
THEOREM AnnouncementsSound == Spec => []AnnouncedIsComplete
<1>1. IInv => AnnouncedIsComplete
  BY DEF IInv
<1> QED
  BY <1>1, InductiveInvariant, PTL

\* They hear of each at most once, since a retry that finds a cached catchup
\* does not announce it again.
THEOREM AlwaysAnnouncedOnce == Spec => []AnnouncedOnce
<1>1. IInv => AnnouncedOnce
  BY DEF IInv, JobSound, RequestSound, AnnouncedOnce, Running
<1> QED
  BY <1>1, InductiveInvariant, PTL

\* A listed catchup that no server records, or no panel hears of, had a failed
\* write or a crash in its creation.
THEOREM StrandedByFaultsOnly == Spec => []OnlyFaultsStrand
<1>1. IInv => OnlyFaultsStrand
  BY DEF IInv
<1> QED
  BY <1>1, InductiveInvariant, PTL

\* The unlocked endpoint does harm only to catchups created while a panel
\* prepares the service.
THEOREM EndpointsValid == Spec => []RecordedAtValidEndpoint
<1>1. IInv => RecordedAtValidEndpoint
  BY DEF IInv
<1> QED
  BY <1>1, InductiveInvariant, PTL
-----------------------------------------------------------------------------
(***************************************************************************)
(* The handlers implement CatchupLibrary.                                  *)
(***************************************************************************)

\* What the steps of the library need beside the invariant: ids are used for
\* one document, and the writes of a handler come in their order.
LibraryInv ==
  /\ \A id \in Ids : streams[id] # NoDoc => id \notin requests
  /\ \A u \in Users : userRequests[u] \subseteq requests
  /\ job \in Recordings /\ job.step = "link" =>
       \A ch \in Channels : job.id \notin parts[ch]
  /\ job \in Recordings /\ job.step = "announce" =>
       job.id \in userCatchups[job.user]
  /\ job \in ContentJobs /\ job.step = "linkRequest" =>
       \A u \in Users : job.id \notin userRequests[u]

LEMMA InitLibraryInv == Init => LibraryInv
BY Kinds DEF Init, LibraryInv

\* A step between two handlers, or beside them.
LEMMA OtherLibraryInv ==
  ASSUME LibraryInv, UNCHANGED <<streams, parts, requests, userRequests>>,
         job' = NoJob \/ UNCHANGED <<job, userCatchups>>
  PROVE  LibraryInv'
BY Kinds DEF LibraryInv

LEMMA RecordingLibraryInv ==
  ASSUME IInv, LibraryInv, NEW o \in Outcomes,
         InsertStream(o) \/ LinkPart(o) \/ AddStreamToServer(o) \/ AddUserCatchup(o)
  PROVE  LibraryInv'
<1> USE Kinds
<1>1. /\ job \in Recordings /\ job.id \in Ids /\ job.user \in Users /\ job.channel \in Channels
      /\ UNCHANGED <<requests, userRequests>>
  BY DEF InsertStream, LinkPart, AddStreamToServer, AddUserCatchup, Running, Recordings
<1>2. ASSUME NEW s \in Steps, Continue(o, [job EXCEPT !.step = s])
      PROVE  \/ job' = NoJob
             \/ /\ o = "done" /\ job' \in Recordings /\ job'.step = s
                /\ job'.id = job.id /\ job'.user = job.user
  BY <1>1, <1>2, NextStep DEF Continue
<1>3. CASE InsertStream(o)
  <2>1. Unused(job.id)
    BY <1>3 DEF IInv, JobSound, InsertStream, Running
  <2>2. \A id \in Ids : streams'[id] # NoDoc => streams[id] # NoDoc \/ id = job.id
    BY <1>1, <1>3 DEF IInv, TypeOK, InsertStream
  <2>3. \A ch \in Channels : job.id \notin parts[ch]
    BY <2>1 DEF IInv, PartsAnnounced, Unused
  <2>4. job' = NoJob \/ (job' \in Recordings /\ job'.step = "link" /\ job'.id = job.id)
    BY <1>2, <1>3 DEF InsertStream, Steps
  <2> QED
    BY <1>1, <1>3, <2>1, <2>2, <2>3, <2>4 DEF LibraryInv, InsertStream, Unused
<1>4. CASE LinkPart(o)
  <2>1. job' = NoJob \/ (job' \in Recordings /\ job'.step = "serve")
    BY <1>2, <1>4 DEF LinkPart, Steps
  <2> QED
    BY <1>1, <1>4, <2>1 DEF LibraryInv, LinkPart
<1>5. CASE AddStreamToServer(o)
  <2>1. job' = NoJob \/ (job' \in Recordings /\ job'.step = "grant")
    BY <1>2, <1>5 DEF AddStreamToServer, Steps
  <2> QED
    BY <1>1, <1>5, <2>1 DEF LibraryInv, AddStreamToServer
<1>6. CASE AddUserCatchup(o)
  <2>1. \/ job' = NoJob
        \/ /\ o = "done" /\ job' \in Recordings /\ job'.step = "announce"
           /\ job'.id = job.id /\ job'.user = job.user
    <3>1. CASE job.created
      BY <1>2, <1>6, <3>1 DEF AddUserCatchup, Steps
    <3>2. CASE ~job.created
      BY <1>6, <3>2 DEF AddUserCatchup, Continue
    <3> QED BY <3>1, <3>2
  <2>2. InEffect(o) => job.id \in userCatchups'[job.user]
    BY <1>1, <1>6 DEF IInv, TypeOK, AddUserCatchup
  <2> QED
    BY <1>1, <1>6, <2>1, <2>2 DEF LibraryInv, AddUserCatchup, InEffect
<1> QED
  BY <1>3, <1>4, <1>5, <1>6

LEMMA ContentLibraryInv ==
  ASSUME IInv, LibraryInv, NEW o \in Outcomes,
         InsertRequest(o) \/ AddContentRequestToUser(o)
  PROVE  LibraryInv'
<1> USE Kinds
<1>1. /\ job \in ContentJobs /\ job.id \in Ids /\ job.user \in Users
      /\ UNCHANGED <<streams, parts, userCatchups>>
  BY DEF InsertRequest, AddContentRequestToUser, Running, ContentJobs
<1>2. ASSUME NEW s \in ContentSteps, Continue(o, [job EXCEPT !.step = s])
      PROVE  \/ job' = NoJob
             \/ job' \in ContentJobs /\ job'.step = s /\ job'.id = job.id
  BY <1>1, <1>2, NextRequestStep DEF Continue
<1>3. CASE InsertRequest(o)
  <2>1. Unused(job.id) /\ requests' \subseteq requests \cup {job.id} /\ requests \subseteq requests'
    BY <1>3 DEF IInv, RequestSound, InsertRequest, Running
  <2>2. job' = NoJob \/ (job' \in ContentJobs /\ job'.id = job.id)
    BY <1>2, <1>3 DEF InsertRequest, ContentSteps
  <2> QED
    BY <1>1, <1>3, <2>1, <2>2 DEF LibraryInv, InsertRequest, Unused
<1>4. CASE AddContentRequestToUser(o)
  <2>1. job.id \in requests
    BY <1>4 DEF IInv, RequestSound, AddContentRequestToUser, Running
  <2>2. job' = NoJob \/ (job' \in ContentJobs /\ job'.step = "announceRequest")
    BY <1>2, <1>4 DEF AddContentRequestToUser, ContentSteps
  <2>3. \A u \in Users : userRequests'[u] \subseteq userRequests[u] \cup {job.id}
    BY <1>1, <1>4 DEF IInv, TypeOK, AddContentRequestToUser
  <2> QED
    BY <1>1, <1>4, <2>1, <2>2, <2>3 DEF LibraryInv, AddContentRequestToUser
<1> QED
  BY <1>3, <1>4

\* A new job has written nothing.
LEMMA StartLibraryInv ==
  ASSUME LibraryInv, NEW u \in Users,
         \/ \E ch \in Channels, pr \in Programs :
              FindCached(u, ch, pr) \/ StartRecording(u, ch, pr)
         \/ StartRequest(u)
  PROVE  LibraryInv'
<1>1. UNCHANGED <<streams, parts, requests, userRequests, userCatchups>>
  BY DEF FindCached, StartRecording, StartRequest, mongo
<1>2. job'.step \in {"grant", "insert", "insertRequest"}
  <2>1. ASSUME NEW ch \in Channels, NEW pr \in Programs, FindCached(u, ch, pr)
        PROVE  job'.step = "grant"
    BY <2>1 DEF FindCached
  <2>2. ASSUME NEW ch \in Channels, NEW pr \in Programs, StartRecording(u, ch, pr)
        PROVE  job'.step = "insert"
    BY <2>2 DEF StartRecording
  <2>3. ASSUME StartRequest(u) PROVE job'.step = "insertRequest"
    BY <2>3 DEF StartRequest
  <2> QED
    BY <2>1, <2>2, <2>3
<1> QED
  BY <1>1, <1>2 DEF LibraryInv

LEMMA NextLibraryInv == IInv /\ LibraryInv /\ [Next]_vars => LibraryInv'
<1> SUFFICES ASSUME IInv, LibraryInv, [Next]_vars PROVE LibraryInv'
  OBVIOUS
<1>1. ASSUME NEW u \in Users, UserRequest(u) PROVE LibraryInv'
  <2>1. ASSUME NEW id \in Ids, NEW o \in Outcomes, UndoCatchup(u, id, o) PROVE LibraryInv'
    BY <2>1, OtherLibraryInv DEF UndoCatchup, Continue
  <2> QED
    BY <1>1, <2>1, StartLibraryInv DEF UserRequest
<1>2. CASE HandlerStep
  <2>1. CASE CatchupCreated \/ ContentRequestCreated
    BY <2>1, OtherLibraryInv DEF CatchupCreated, ContentRequestCreated, mongo
  <2> QED
    BY <1>2, <2>1, RecordingLibraryInv, ContentLibraryInv DEF HandlerStep, WriteStep
<1>3. CASE \/ \E e \in Endpoints \cup {"unset"} : BeginSetup(e)
           \/ EndSetup \/ \E id \in Ids : BroadcastCreated(id)
  <2>1. UNCHANGED <<job, mongo>>
    BY <1>3 DEF BeginSetup, EndSetup, BroadcastCreated
  <2> QED
    BY <2>1, OtherLibraryInv DEF mongo
<1>4. CASE Crash
  BY <1>4, OtherLibraryInv DEF Crash, mongo
<1>5. CASE UNCHANGED vars
  BY <1>5, OtherLibraryInv DEF vars, mongo
<1> QED
  BY <1>1, <1>2, <1>3, <1>4, <1>5 DEF Next

\* Steps that neither user nor panel sees.
LEMMA StepUnseen ==
  ASSUME UNCHANGED <<userCatchups, userRequests, waiting, told>>,
         \A ch \in Channels, pr \in Programs : Cached(ch, pr)' = Cached(ch, pr)
  PROVE  UNCHANGED Library!libraryVars
BY DEF Library!libraryVars

LEMMA CachedSame ==
  ASSUME UNCHANGED <<streams, parts>>
  PROVE  \A ch \in Channels, pr \in Programs : Cached(ch, pr)' = Cached(ch, pr)
BY DEF Cached

\* A document that is no part yet is not found.
LEMMA InsertUnseen ==
  ASSUME IInv, NEW o \in Outcomes, InsertStream(o)
  PROVE  UNCHANGED Library!libraryVars
<1>1. job.id \in Ids /\ Unused(job.id)
  BY DEF IInv, JobSound, InsertStream, Running, Recordings
<1>2. \A ch \in Channels : job.id \notin parts[ch] /\ parts[ch] \subseteq Ids
  BY <1>1 DEF IInv, PartsAnnounced, Unused, TypeOK
<1>3. \A id \in Ids \ {job.id} : streams'[id] = streams[id]
  BY <1>1 DEF IInv, TypeOK, InsertStream
<1>4. UNCHANGED <<parts, userCatchups, userRequests, waiting, told>>
  BY DEF InsertStream, panels
<1>5. \A ch \in Channels, pr \in Programs : Cached(ch, pr)' = Cached(ch, pr)
  BY <1>2, <1>3, <1>4 DEF Cached
<1> QED
  BY <1>4, <1>5, StepUnseen

\* The search of the parts found nothing, and still would.
LEMMA LinkRecords ==
  ASSUME IInv, LibraryInv, NEW o \in Outcomes, LinkPart(o)
  PROVE  [Library!Next]_(Library!libraryVars)
<1> DEFINE rec == [ch \in Channels |-> [pr \in Programs |-> Cached(ch, pr)]]
<1>1. /\ job \in Recordings /\ job.step = "link"
      /\ job.id \in Ids /\ job.channel \in Channels /\ job.program \in Programs
  BY DEF LinkPart, Running, Recordings
<1>2. UNCHANGED <<streams, userCatchups, userRequests, waiting, told>>
  BY DEF LinkPart, panels
<1>3. CASE ~InEffect(o)
  <2>1. UNCHANGED parts
    BY <1>3 DEF LinkPart
  <2> QED
    BY <1>2, <2>1, CachedSame, StepUnseen
<1>4. CASE InEffect(o)
  <2>1. /\ streams[job.id] # NoDoc /\ streams[job.id].program = job.program
        /\ \A id \in parts[job.channel] : streams[id].program # job.program
    BY <1>1 DEF IInv, JobSound
  <2>2. Cached(job.channel, job.program) = {}
    BY <2>1 DEF Cached
  <2>3. Library!New(job.id)
    <3>1. \A ch \in Channels : job.id \notin parts[ch]
      BY <1>1 DEF LibraryInv
    <3>2. \A u \in Users : job.id \notin userRequests[u]
      BY <1>1, <2>1 DEF LibraryInv
    <3> QED
      BY <3>1, <3>2 DEF Library!New, Cached
  <2>4. \A ch \in Channels : parts'[ch] = IF ch = job.channel THEN parts[ch] \cup {job.id}
                                          ELSE parts[ch]
    BY <1>1, <1>4 DEF LinkPart, IInv, TypeOK
  <2>5. \A ch \in Channels, pr \in Programs :
          Cached(ch, pr)' = IF ch = job.channel /\ pr = job.program THEN {job.id}
                            ELSE Cached(ch, pr)
    <3> SUFFICES ASSUME NEW ch \in Channels, NEW pr \in Programs
                 PROVE  Cached(ch, pr)' = IF ch = job.channel /\ pr = job.program
                                          THEN {job.id} ELSE Cached(ch, pr)
      OBVIOUS
    <3>1. Cached(ch, pr)' = {id \in parts'[ch] : streams[id] # NoDoc /\ streams[id].program = pr}
      BY <1>2 DEF Cached
    <3>2. CASE ch # job.channel
      BY <2>4, <3>1, <3>2 DEF Cached
    <3>3. CASE ch = job.channel /\ pr # job.program
      BY <2>1, <2>4, <3>1, <3>3 DEF Cached
    <3>4. CASE ch = job.channel /\ pr = job.program
      BY <2>1, <2>4, <3>1, <3>4
    <3> QED
      BY <3>2, <3>3, <3>4
  <2>6. rec' = [rec EXCEPT ![job.channel][job.program] = {job.id}]
    BY <1>1, <2>5
  <2>7. Library!Record(job.channel, job.program, job.id)
    BY <1>1, <1>2, <2>2, <2>3, <2>6 DEF Library!Record
  <2> QED
    BY <1>1, <2>7 DEF Library!Next
<1> QED
  BY <1>3, <1>4

\* The catchup that is granted is a part of a channel of the user.
LEMMA GrantGives ==
  ASSUME IInv, NEW o \in Outcomes, AddUserCatchup(o)
  PROVE  [Library!Next]_(Library!libraryVars)
<1>1. /\ job \in Recordings /\ job.step = "grant" /\ job.id \in Ids
      /\ job.user \in Users /\ job.channel \in Channels /\ job.program \in Programs
  BY DEF AddUserCatchup, Running, Recordings
<1>2. UNCHANGED <<streams, parts, userRequests, waiting, told>>
  BY DEF AddUserCatchup, panels
<1>3. CASE ~InEffect(o)
  <2>1. UNCHANGED userCatchups
    BY <1>3 DEF AddUserCatchup
  <2> QED
    BY <1>2, <2>1, CachedSame, StepUnseen
<1>4. CASE InEffect(o)
  <2>1. <<job.user, job.channel>> \in Subscribed /\ job.id \in Cached(job.channel, job.program)
    BY <1>1 DEF IInv, JobSound, Cached
  <2>2. userCatchups' = [userCatchups EXCEPT ![job.user] = @ \cup {job.id}]
    BY <1>4 DEF AddUserCatchup
  <2>3. Library!Give(job.user, job.id)
    BY <1>1, <1>2, <2>1, <2>2, CachedSame DEF Library!Give
  <2> QED
    BY <1>1, <2>3 DEF Library!Next
<1> QED
  BY <1>3, <1>4

LEMMA UndoReturns ==
  ASSUME NEW u \in Users, NEW id \in Ids, NEW o \in Outcomes, UndoCatchup(u, id, o)
  PROVE  [Library!Next]_(Library!libraryVars)
<1>1. UNCHANGED <<streams, parts, userRequests, waiting, told>>
  BY DEF UndoCatchup, panels
<1>2. CASE InEffect(o)
  <2>1. Library!Return(u, id)
    BY <1>1, <1>2, CachedSame DEF UndoCatchup, Library!Return
  <2> QED
    BY <2>1 DEF Library!Next
<1>3. CASE ~InEffect(o)
  BY <1>1, <1>3, CachedSame, StepUnseen DEF UndoCatchup
<1> QED
  BY <1>2, <1>3

\* The id of a content request is nobody's until its document is there.
LEMMA RequestAsks ==
  ASSUME IInv, LibraryInv, NEW o \in Outcomes, AddContentRequestToUser(o)
  PROVE  [Library!Next]_(Library!libraryVars)
<1>1. /\ job \in ContentJobs /\ job.step = "linkRequest"
      /\ job.id \in Ids /\ job.user \in Users
  BY DEF AddContentRequestToUser, Running, ContentJobs
<1>2. UNCHANGED <<streams, parts, userCatchups, waiting, told>>
  BY DEF AddContentRequestToUser, panels
<1>3. CASE ~InEffect(o)
  <2>1. UNCHANGED userRequests
    BY <1>3 DEF AddContentRequestToUser
  <2> QED
    BY <1>2, <2>1, CachedSame, StepUnseen
<1>4. CASE InEffect(o)
  <2>1. streams[job.id] = NoDoc /\ \A u \in Users : job.id \notin userRequests[u]
    BY <1>1 DEF IInv, RequestSound, LibraryInv
  <2>2. Library!New(job.id)
    BY <2>1 DEF Library!New, Cached
  <2>3. Library!Ask(job.user, job.id)
    BY <1>2, <1>4, <2>2, CachedSame DEF AddContentRequestToUser, Library!Ask
  <2> QED
    BY <1>1, <2>3 DEF Library!Next
<1> QED
  BY <1>3, <1>4

\* What is announced is on the list of the user whose request it was.
LEMMA CreatedAnnounces ==
  ASSUME IInv, LibraryInv, CatchupCreated \/ ContentRequestCreated
  PROVE  Library!Next
<1>1. /\ UNCHANGED <<streams, parts, userCatchups, userRequests, told>>
      /\ waiting' = waiting \cup {job.id}
  BY DEF CatchupCreated, ContentRequestCreated, mongo
<1>2. job.id \in Ids /\ job.user \in Users
  BY DEF CatchupCreated, ContentRequestCreated, Running, Recordings, ContentJobs
<1>3. job.id \in userCatchups[job.user] \cup userRequests[job.user]
  BY DEF CatchupCreated, ContentRequestCreated, Running, LibraryInv, IInv, RequestSound
<1>4. job.id \notin waiting \cup told
  BY DEF CatchupCreated, ContentRequestCreated, Running, IInv, JobSound, RequestSound
<1>5. Library!Announce(job.id)
  BY <1>1, <1>2, <1>3, <1>4, CachedSame DEF Library!Announce
<1> QED
  BY <1>2, <1>5 DEF Library!Next

LEMMA BroadcastHears ==
  ASSUME NEW id \in Ids, BroadcastCreated(id) PROVE Library!Next
<1>1. Library!Hear(id)
  BY CachedSame DEF BroadcastCreated, Library!Hear, mongo
<1> QED
  BY <1>1 DEF Library!Next

LEMMA CrashLoses == ASSUME Crash PROVE Library!Next
<1>1. Library!LoseNews
  BY CachedSame DEF Crash, Library!LoseNews, mongo
<1> QED
  BY <1>1 DEF Library!Next

\* All other steps leave the parts, the lists and the broadcasts alone.
LEMMA OthersUnseen ==
  ASSUME \/ \E u \in Users : \/ \E ch \in Channels, pr \in Programs :
                                  FindCached(u, ch, pr) \/ StartRecording(u, ch, pr)
                             \/ StartRequest(u)
         \/ \E o \in Outcomes : AddStreamToServer(o) \/ InsertRequest(o)
         \/ \E e \in Endpoints \cup {"unset"} : BeginSetup(e)
         \/ EndSetup
         \/ UNCHANGED vars
  PROVE  UNCHANGED Library!libraryVars
<1>1. UNCHANGED <<streams, parts, userCatchups, userRequests, waiting, told>>
  BY DEF FindCached, StartRecording, StartRequest, AddStreamToServer, InsertRequest,
         BeginSetup, EndSetup, vars, mongo, panels
<1> QED
  BY <1>1, CachedSame, StepUnseen

LEMMA LibraryStep ==
  IInv /\ LibraryInv /\ [Next]_vars => [Library!Next]_(Library!libraryVars)
<1> SUFFICES ASSUME IInv, LibraryInv, [Next]_vars
             PROVE  [Library!Next]_(Library!libraryVars)
  OBVIOUS
<1>1. CASE \E u \in Users : UserRequest(u)
  BY <1>1, UndoReturns, OthersUnseen DEF UserRequest
<1>2. CASE HandlerStep
  BY <1>2, InsertUnseen, LinkRecords, GrantGives, RequestAsks, CreatedAnnounces, OthersUnseen
     DEF HandlerStep, WriteStep
<1>3. CASE \/ \E e \in Endpoints \cup {"unset"} : BeginSetup(e)
           \/ EndSetup \/ UNCHANGED vars
  BY <1>3, OthersUnseen
<1>4. CASE Crash \/ \E id \in Ids : BroadcastCreated(id)
  BY <1>4, CrashLoses, BroadcastHears
<1> QED
  BY <1>1, <1>2, <1>3, <1>4 DEF Next

\* The handlers' writes, with failures, crashes and retries in between, are
\* an implementation of the library: a program is recorded once and for good,
\* users have what they are subscribed to, panels hear of what users have, and
\* of nothing twice.
THEOREM CatchupsImplementLibrary == Spec => ImplementsLibrary
<1>1. Init => Library!Init
  <2> SUFFICES ASSUME Init PROVE Library!Init
    OBVIOUS
  <2>1. \A ch \in Channels, pr \in Programs : Cached(ch, pr) = {}
    BY DEF Init, Cached
  <2> QED
    BY <2>1 DEF Init, Library!Init
<1> QED
  BY <1>1, InductiveInvariant, InitLibraryInv, NextLibraryInv, LibraryStep, PTL
     DEF Spec, ImplementsLibrary, Library!Spec
=============================================================================
