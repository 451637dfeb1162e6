------------------------- MODULE ServiceLifecycle --------------------------
(***************************************************************************)
(* The life of service processes: the pid file that main() locks and       *)
(* removes, the threads of ProcessSlaveWrapper::Exec, and what stops them: *)
(* a stop request or a license that is missing or has run out.             *)
(*                                                                         *)
(* Abstractions.                                                           *)
(*  - A slot is the place of one process; a new process may take the slot  *)
(*    of one that ended.  All read the same config.                        *)
(*  - The pid file is an inode that a path leads to; its lock belongs to   *)
(*    the process that took it and goes with the process.                  *)
(*  - IoLoop::Stop is external.  A loop that runs ends; for one that does  *)
(*    not run yet the call may have no effect.                             *)
(***************************************************************************)
EXTENDS Naturals

CONSTANTS
  Slots,   \* places of processes
  Inodes,  \* of pid files; there is always one that no process has open
  NoInode,
  Workers, \* the threads beside the main one: subscribers' and http server
  Hosts    \* what config.host may be: "local", "name" (PROJECT_NAME_LOWERCASE)
           \* or "routable"

ASSUME NoInodeAssumption == NoInode \notin Inodes
ASSUME InodesAssumption ==
  \A used \in [Slots -> Inodes \cup {NoInode}] :
    \E i \in Inodes : \A s \in Slots : used[s] # i
ASSUME WorkersAssumption == "daemon" \notin Workers
ASSUME HostsAssumption == Hosts \subseteq {"local", "name", "routable"}

VARIABLES
  proc,      \* how far main() is
  path,      \* the inode at PIDFILE_PATH
  fd,        \* the inode a process has open
  thread,    \* state of the three threads of a process
  asked,     \* threads whose loop was told to stop
  host,      \* config.host
  license,   \* config.license_key: "none", "valid" or "expired"
  requests,  \* stop requests of --stop waiting in a process's daemon loop
  orphaned,  \* history: processes whose pid file another one removed while
             \* they had it open
  lost       \* history: processes of which a thread missed its stop

vars == <<proc, path, fd, thread, asked, host, license, requests, orphaned, lost>>
fileVars == <<path, fd, orphaned>>
loopVars == <<thread, asked, requests, lost>>
configVars == <<host, license>>

Threads == Workers \cup {"daemon"}

HasLock(s) == proc[s] \in {"locked", "running", "joined"}

Running(s) == proc[s] = "running"

Init ==
  /\ proc = [s \in Slots |-> "off"]
  /\ path = NoInode
  /\ fd = [s \in Slots |-> NoInode]
  /\ thread = [s \in Slots |-> [t \in Threads |-> "none"]]
  /\ asked = [s \in Slots |-> {}]
  /\ host \in Hosts
  /\ license \in {"none", "valid"}
  /\ requests = [s \in Slots |-> {}]
  /\ orphaned = {}
  /\ lost = {}

-----------------------------------------------------------------------------
\* main() before and after Exec.

\* The process ends and gives up what it holds.
Ends(s) ==
  /\ proc' = [proc EXCEPT ![s] = "off"]
  /\ fd' = [fd EXCEPT ![s] = NoInode]
  /\ thread' = [thread EXCEPT ![s] = [t \in Threads |-> "none"]]
  /\ asked' = [asked EXCEPT ![s] = {}]
  /\ requests' = [requests EXCEPT ![s] = {}]
  /\ lost' = lost \ {s}

\* Open with FLAG_CREATE: the file at the path, or a new one.
OpenPidFile(s) ==
  /\ proc[s] = "off"
  /\ proc' = [proc EXCEPT ![s] = "opened"]
  /\ path' = IF path # NoInode THEN path
             ELSE CHOOSE i \in Inodes : \A r \in Slots : fd[r] # i
  /\ fd' = [fd EXCEPT ![s] = path']
  /\ UNCHANGED <<orphaned, loopVars, configVars>>

\* Faulty variant of LockPidFile: an error of the lock does not end main().
LockPidFileAnyhow(s) ==
  /\ proc[s] = "opened"
  /\ proc' = [proc EXCEPT ![s] = "locked"]
  /\ UNCHANGED <<fileVars, loopVars, configVars>>

\* pidfile.Lock(): with the lock taken by another process main() returns.
LockPidFile(s) ==
  /\ proc[s] = "opened"
  /\ IF \E r \in Slots : HasLock(r) /\ fd[r] = fd[s]
     THEN Ends(s) /\ orphaned' = orphaned \ {s} /\ UNCHANGED path
     ELSE /\ proc' = [proc EXCEPT ![s] = "locked"]
          /\ UNCHANGED <<fileVars, loopVars>>
  /\ UNCHANGED configVars

\* The pid is written, the database connected and the threads are started;
\* the main thread itself becomes the daemon's.
StartExec(s) ==
  /\ proc[s] = "locked"
  /\ proc' = [proc EXCEPT ![s] = "running"]
  /\ thread' = [thread EXCEPT ![s] = [t \in Threads |-> "starting"]]
  /\ UNCHANGED <<fileVars, asked, requests, lost, configVars>>

\* ConnectToDatabase fails: Exec returns without having started a thread.
ConnectFails(s) ==
  /\ proc[s] = "locked"
  /\ proc' = [proc EXCEPT ![s] = "joined"]
  /\ UNCHANGED <<fileVars, loopVars, configVars>>

\* Both joins return after the daemon's own loop did or never ran.
Join(s) ==
  /\ Running(s)
  /\ \A t \in Threads : thread[s][t] \in {"failed", "ended"}
  /\ proc' = [proc EXCEPT ![s] = "joined"]
  /\ UNCHANGED <<fileVars, loopVars, configVars>>

\* Faulty variant of UnlockPidFile: the file is not closed.
UnlockOnly(s) ==
  /\ proc[s] = "joined"
  /\ proc' = [proc EXCEPT ![s] = "unlocked"]
  /\ UNCHANGED <<fd, path, orphaned, loopVars, configVars>>

\* Unlock and Close.
UnlockPidFile(s) ==
  /\ proc[s] = "joined"
  /\ proc' = [proc EXCEPT ![s] = "unlocked"]
  /\ fd' = [fd EXCEPT ![s] = NoInode]
  /\ UNCHANGED <<path, orphaned, loopVars, configVars>>

\* remove_file acts on the path, whosever file is there by now; a failure of
\* it is logged.
RemovePidFile(s) ==
  /\ proc[s] = "unlocked"
  /\ Ends(s)
  /\ \/ /\ path' = NoInode
        /\ orphaned' = (orphaned \ {s}) \cup {r \in Slots : fd[r] # NoInode /\ fd[r] = path}
     \/ orphaned' = orphaned \ {s} /\ UNCHANGED path
  /\ UNCHANGED configVars

\* Killed, or an error of the pid file that ends main() early.
Dies(s) ==
  /\ proc[s] # "off"
  /\ Ends(s)
  /\ orphaned' = orphaned \ {s}
  /\ UNCHANGED <<path, configVars>>

-----------------------------------------------------------------------------
\* The threads of Exec.

\* Bind and Listen succeed, which needs the port, and the loop is executed.
ThreadUp(s, t) ==
  /\ thread[s][t] = "starting"
  /\ \A r \in Slots : thread[r][t] # "up"
  /\ thread' = [thread EXCEPT ![s][t] = "up"]
  /\ UNCHANGED <<proc, fileVars, asked, requests, lost, configVars>>

\* Bind or Listen fails: this thread returns, the others are not told.
BindFails(s, t) ==
  /\ thread[s][t] = "starting"
  /\ thread' = [thread EXCEPT ![s][t] = "failed"]
  /\ UNCHANGED <<proc, fileVars, asked, requests, lost, configVars>>

LoopEnds(s, t) ==
  /\ thread[s][t] = "up"
  /\ t \in asked[s]
  /\ thread' = [thread EXCEPT ![s][t] = "ended"]
  /\ UNCHANGED <<proc, fileVars, asked, requests, lost, configVars>>

\* Stop of all servers, called on the daemon loop.
StopImpl(s) ==
  LET up == {t \in Threads : thread[s][t] = "up"}
      starting == {t \in Threads : thread[s][t] = "starting"}
  IN \E early \in SUBSET starting :
       /\ asked' = [asked EXCEPT ![s] = @ \cup up \cup early]
       /\ lost' = IF starting \subseteq asked'[s] THEN lost ELSE lost \cup {s}

Serving(s) == thread[s]["daemon"] = "up"

\* Faulty variant of CheckLicenseExpired: only a key that was valid once ends
\* the service.
CheckLicenseOfKey(s) ==
  /\ Serving(s)
  /\ license = "expired"
  /\ StopImpl(s)
  /\ UNCHANGED <<proc, fileVars, thread, requests, configVars>>

\* CheckLicenseExpired, by its timer.
CheckLicenseExpired(s) ==
  /\ Serving(s)
  /\ license # "valid"
  /\ StopImpl(s)
  /\ UNCHANGED <<proc, fileVars, thread, requests, configVars>>

LicenseExpires ==
  /\ license = "valid"
  /\ license' = "expired"
  /\ UNCHANGED <<proc, fileVars, loopVars, host>>

\* A stop request of a panel that is verified or on this machine.  A stop is
\* carried out even when its answer cannot be written.
StopByPanel(s) ==
  /\ Serving(s)
  /\ StopImpl(s)
  /\ UNCHANGED <<proc, fileVars, thread, requests, configVars>>

\* The peer that a daemon sees behind --stop: the project's name is replaced
\* by the local host before connecting.
PeerOfStop == IF host = "routable" THEN "remote" ELSE "local"

\* --stop connects and writes the request, then exits with EXIT_SUCCESS.
SendStopDaemonRequest(s) ==
  /\ Serving(s)
  /\ requests' = [requests EXCEPT ![s] = @ \cup {PeerOfStop}]
  /\ UNCHANGED <<proc, fileVars, thread, asked, lost, configVars>>

\* Faulty variant of StopByCommand: the peer's own unverified connection is
\* refused wherever it comes from.
StopByNobody(s) ==
  /\ Serving(s)
  /\ \E peer \in requests[s] : requests' = [requests EXCEPT ![s] = @ \ {peer}]
  /\ UNCHANGED <<proc, fileVars, thread, asked, lost, configVars>>

\* The daemon reads it: this connection is not verified, so it has to come
\* from the local host.  Else the request is refused and nothing happens.
StopByCommand(s) ==
  /\ Serving(s)
  /\ \E peer \in requests[s] :
       /\ requests' = [requests EXCEPT ![s] = @ \ {peer}]
       /\ IF peer = "local" THEN StopImpl(s) ELSE UNCHANGED <<asked, lost>>
  /\ UNCHANGED <<proc, fileVars, thread, configVars>>

ThreadStep(s) == \E t \in Threads : ThreadUp(s, t) \/ BindFails(s, t) \/ LoopEnds(s, t)

MainStep(s) ==
  \/ OpenPidFile(s)
  \/ LockPidFile(s)
  \/ StartExec(s)
  \/ ConnectFails(s)
  \/ Join(s)
  \/ UnlockPidFile(s)
  \/ RemovePidFile(s)

DaemonStep(s) == CheckLicenseExpired(s) \/ StopByPanel(s) \/ StopByCommand(s)

Next ==
  \/ \E s \in Slots : MainStep(s) \/ Dies(s) \/ ThreadStep(s) \/ DaemonStep(s)
                      \/ SendStopDaemonRequest(s)
  \/ LicenseExpires

Spec == Init /\ [][Next]_vars

\* The scheduler runs every thread, the loops handle what they were asked and
\* the timer of the license fires again and again.
FairSpec ==
  /\ Spec
  /\ \A s \in Slots :
       /\ WF_vars(ThreadStep(s))
       /\ WF_vars(CheckLicenseExpired(s))
       /\ WF_vars(StopByCommand(s))
       /\ WF_vars(Join(s))

-----------------------------------------------------------------------------
(***************************************************************************)
(* Properties.                                                             *)
(***************************************************************************)

TypeOK ==
  /\ proc \in [Slots -> {"off", "opened", "locked", "running", "joined", "unlocked"}]
  /\ path \in Inodes \cup {NoInode}
  /\ fd \in [Slots -> Inodes \cup {NoInode}]
  /\ \A s \in Slots : fd[s] = NoInode <=> proc[s] \in {"off", "unlocked"}
  /\ thread \in [Slots -> [Threads -> {"none", "starting", "up", "failed", "ended"}]]
  /\ asked \in [Slots -> SUBSET Threads]
  /\ host \in Hosts
  /\ license \in {"none", "valid", "expired"}
  /\ requests \in [Slots -> SUBSET {"local", "remote"}]
  /\ orphaned \subseteq Slots
  /\ lost \subseteq Slots

\* The pid file keeps two services from running at once, unless a third one
\* removed it under one of them.  That can happen because main() unlocks the
\* file before it removes what is at the path.
AloneUnlessOrphaned ==
  \A r, s \in Slots :
    r # s /\ Running(r) /\ Running(s) => r \in orphaned \/ s \in orphaned

\* A service whose daemon loop runs without a valid license ends, unless one
\* of its threads was still starting when it was told to stop.
LicenseEnforced ==
  \A s \in Slots :
    Serving(s) /\ license # "valid" ~> ~Running(s) \/ s \in lost

\* A stop request from the local host ends the service, under the same
\* condition.
LocalStopObeyed ==
  \A s \in Slots : "local" \in requests[s] ~> ~Running(s) \/ s \in lost

\* What the help text says of --stop: an instance to which the request was
\* written stops.
StopCommandStops ==
  \A s \in Slots : requests[s] # {} ~> ~Running(s) \/ s \in lost
=============================================================================
