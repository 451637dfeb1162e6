----------------------- MODULE ServiceLifecycleProofs ----------------------
(***************************************************************************)
(* Theorems of ServiceLifecycle: the types of its variables and what the   *)
(* pid file guarantees, for any number of processes and threads.           *)
(***************************************************************************)
EXTENDS ServiceLifecycle, TLAPS

USE DEF fileVars, loopVars, configVars

\* Two processes do not hold the lock of one file.
LocksDiffer ==
  \A r, s \in Slots : r # s /\ HasLock(r) /\ HasLock(s) => fd[r] # fd[s]

\* A file that a process has open is the one at the path, or was removed.
OpenIsAtPath ==
  \A s \in Slots : fd[s] # NoInode /\ s \notin orphaned => fd[s] = path

PidInv == LocksDiffer /\ OpenIsAtPath

-----------------------------------------------------------------------------
LEMMA TypeInit == Init => TypeOK
  BY HostsAssumption DEF Init, TypeOK

\* The file that OpenPidFile creates is new.
LEMMA FreshInode ==
  ASSUME TypeOK
  PROVE  (CHOOSE i \in Inodes : \A r \in Slots : fd[r] # i) \in Inodes
<1>1. \E i \in Inodes : \A r \in Slots : fd[r] # i
  BY InodesAssumption DEF TypeOK
<1>2. QED
  BY <1>1

LEMMA TypeEnds ==
  ASSUME TypeOK, NEW s \in Slots, Ends(s), path' \in Inodes \cup {NoInode},
         orphaned' \subseteq Slots, UNCHANGED <<host, license>>
  PROVE  TypeOK'
  BY DEF TypeOK, Ends

LEMMA TypeMain ==
  ASSUME TypeOK, NEW s \in Slots, MainStep(s)
  PROVE  TypeOK'
<1>1. CASE OpenPidFile(s)
  <2>1. path' \in Inodes
    BY <1>1, FreshInode DEF OpenPidFile, TypeOK
  <2>2. QED
    BY <1>1, <2>1, NoInodeAssumption DEF OpenPidFile, TypeOK
<1>2. CASE LockPidFile(s)
  <2>1. CASE \E r \in Slots : HasLock(r) /\ fd[r] = fd[s]
    <3>1. Ends(s) /\ orphaned' = orphaned \ {s} /\ UNCHANGED <<path, host, license>>
      BY <1>2, <2>1 DEF LockPidFile
    <3>2. QED
      BY <3>1, TypeEnds DEF TypeOK
  <2>2. CASE ~\E r \in Slots : HasLock(r) /\ fd[r] = fd[s]
    BY <1>2, <2>2 DEF LockPidFile, TypeOK
  <2>3. QED
    BY <2>1, <2>2
<1>3. CASE StartExec(s)
  BY <1>3 DEF StartExec, TypeOK
<1>4. CASE ConnectFails(s)
  BY <1>4 DEF ConnectFails, TypeOK
<1>5. CASE Join(s)
  BY <1>5 DEF Join, Running, TypeOK
<1>6. CASE UnlockPidFile(s)
  BY <1>6 DEF UnlockPidFile, TypeOK
<1>7. CASE RemovePidFile(s)
  <2>1. /\ Ends(s) /\ path' \in {path, NoInode} /\ orphaned' \subseteq Slots
        /\ UNCHANGED <<host, license>>
    BY <1>7 DEF RemovePidFile, TypeOK
  <2>2. QED
    BY <2>1, TypeEnds DEF TypeOK
<1>8. QED
  BY <1>1, <1>2, <1>3, <1>4, <1>5, <1>6, <1>7 DEF MainStep

LEMMA TypeStop ==
  ASSUME TypeOK, NEW s \in Slots, StopImpl(s)
  PROVE  asked' \in [Slots -> SUBSET Threads] /\ lost' \subseteq Slots
  BY DEF TypeOK, StopImpl

LEMMA TypeStep == TypeOK /\ [Next]_vars => TypeOK'
<1> SUFFICES ASSUME TypeOK, [Next]_vars PROVE TypeOK'
  OBVIOUS
<1>1. ASSUME NEW s \in Slots, Dies(s) PROVE TypeOK'
  <2>1. Ends(s) /\ orphaned' = orphaned \ {s} /\ UNCHANGED <<path, host, license>>
    BY <1>1 DEF Dies
  <2>2. QED
    BY <2>1, TypeEnds DEF TypeOK
<1>2. ASSUME NEW s \in Slots, ThreadStep(s) PROVE TypeOK'
  <2>1. PICK t \in Threads : ThreadUp(s, t) \/ BindFails(s, t) \/ LoopEnds(s, t)
    BY <1>2 DEF ThreadStep
  <2>2. CASE ThreadUp(s, t)
    BY <2>2 DEF ThreadUp, TypeOK
  <2>3. CASE BindFails(s, t)
    BY <2>3 DEF BindFails, TypeOK
  <2>4. CASE LoopEnds(s, t)
    BY <2>4 DEF LoopEnds, TypeOK
  <2>5. QED
    BY <2>1, <2>2, <2>3, <2>4
<1>3. ASSUME NEW s \in Slots, DaemonStep(s) PROVE TypeOK'
  <2>1. CASE CheckLicenseExpired(s)
    BY <2>1, TypeStop DEF CheckLicenseExpired, TypeOK
  <2>2. CASE StopByPanel(s)
    BY <2>2, TypeStop DEF StopByPanel, TypeOK
  <2>3. CASE StopByCommand(s)
    <3>1. asked' \in [Slots -> SUBSET Threads] /\ lost' \subseteq Slots
      BY <2>3, TypeStop DEF StopByCommand, TypeOK
    <3>2. requests' \in [Slots -> SUBSET {"local", "remote"}]
      BY <2>3 DEF StopByCommand, TypeOK
    <3>3. QED
      BY <2>3, <3>1, <3>2 DEF StopByCommand, TypeOK
  <2>4. QED
    BY <1>3, <2>1, <2>2, <2>3 DEF DaemonStep
<1>4. ASSUME NEW s \in Slots, SendStopDaemonRequest(s) PROVE TypeOK'
  BY <1>4 DEF SendStopDaemonRequest, PeerOfStop, TypeOK
<1>5. CASE LicenseExpires
  BY <1>5 DEF LicenseExpires, TypeOK
<1>6. CASE UNCHANGED vars
  BY <1>6 DEF vars, TypeOK
<1>7. QED
  BY <1>1, <1>2, <1>3, <1>4, <1>5, <1>6, TypeMain DEF Next

\* The variables of ServiceLifecycle stay in their types, and main() has the
\* pid file open from its opening to its closing.
THEOREM TypeCorrect == Spec => []TypeOK
  BY TypeInit, TypeStep, PTL DEF Spec

-----------------------------------------------------------------------------
LEMMA PidEnds ==
  ASSUME TypeOK, PidInv, NEW s \in Slots, Ends(s),
         \A r \in Slots : r # s /\ r \in orphaned => r \in orphaned',
         \/ path' = path
         \/ \A r \in Slots : fd[r] # NoInode /\ fd[r] = path => r \in orphaned'
  PROVE  PidInv'
<1>1. /\ proc' = [proc EXCEPT ![s] = "off"]
      /\ fd' = [fd EXCEPT ![s] = NoInode]
  BY DEF Ends
<1>2. LocksDiffer'
  BY <1>1 DEF PidInv, LocksDiffer, HasLock, TypeOK
<1>3. OpenIsAtPath'
  BY <1>1 DEF PidInv, OpenIsAtPath, TypeOK
<1>4. QED
  BY <1>2, <1>3 DEF PidInv

LEMMA PidMain ==
  ASSUME TypeOK, PidInv, NEW s \in Slots, MainStep(s)
  PROVE  PidInv'
<1> USE DEF PidInv, LocksDiffer, OpenIsAtPath, HasLock
<1>1. CASE OpenPidFile(s)
  <2>1. path' # NoInode /\ path' = (IF path # NoInode THEN path ELSE path')
    BY <1>1, FreshInode, NoInodeAssumption DEF OpenPidFile, TypeOK
  <2>2. OpenIsAtPath'
    BY <1>1, <2>1 DEF OpenPidFile, TypeOK
  <2>3. LocksDiffer'
    BY <1>1 DEF OpenPidFile, TypeOK
  <2>4. QED
    BY <2>2, <2>3
<1>2. CASE LockPidFile(s)
  <2>1. CASE \E r \in Slots : HasLock(r) /\ fd[r] = fd[s]
    <3>1. Ends(s) /\ orphaned' = orphaned \ {s} /\ UNCHANGED path
      BY <1>2, <2>1 DEF LockPidFile
    <3>2. QED
      BY <3>1, PidEnds
  <2>2. CASE ~\E r \in Slots : HasLock(r) /\ fd[r] = fd[s]
    BY <1>2, <2>2 DEF LockPidFile, TypeOK
  <2>3. QED
    BY <2>1, <2>2
<1>3. CASE StartExec(s)
  BY <1>3 DEF StartExec, TypeOK
<1>4. CASE ConnectFails(s)
  BY <1>4 DEF ConnectFails, TypeOK
<1>5. CASE Join(s)
  BY <1>5 DEF Join, Running, TypeOK
<1>6. CASE UnlockPidFile(s)
  BY <1>6 DEF UnlockPidFile, TypeOK
<1>7. CASE RemovePidFile(s)
  <2>1. Ends(s) /\ fd[s] = NoInode
    BY <1>7 DEF RemovePidFile, TypeOK
  <2>2. \/ /\ path' = NoInode
           /\ orphaned' = (orphaned \ {s})
                            \cup {r \in Slots : fd[r] # NoInode /\ fd[r] = path}
        \/ orphaned' = orphaned \ {s} /\ path' = path
    BY <1>7 DEF RemovePidFile
  <2>3. QED
    BY <2>1, <2>2, PidEnds
<1>8. QED
  BY <1>1, <1>2, <1>3, <1>4, <1>5, <1>6, <1>7 DEF MainStep

LEMMA PidStep == TypeOK /\ PidInv /\ [Next]_vars => PidInv'
<1> SUFFICES ASSUME TypeOK, PidInv, [Next]_vars PROVE PidInv'
  OBVIOUS
<1>1. ASSUME NEW s \in Slots, Dies(s) PROVE PidInv'
  <2>1. Ends(s) /\ orphaned' = orphaned \ {s} /\ UNCHANGED path
    BY <1>1 DEF Dies
  <2>2. QED
    BY <2>1, PidEnds
\* Every other step leaves the files and main() alone.
<1>2. ASSUME UNCHANGED <<proc, path, fd, orphaned>> PROVE PidInv'
  BY <1>2 DEF PidInv, LocksDiffer, OpenIsAtPath, HasLock
<1>3. ASSUME NEW s \in Slots, ThreadStep(s) PROVE PidInv'
  BY <1>2, <1>3 DEF ThreadStep, ThreadUp, BindFails, LoopEnds
<1>4. ASSUME NEW s \in Slots, DaemonStep(s) PROVE PidInv'
  BY <1>2, <1>4 DEF DaemonStep, CheckLicenseExpired, StopByPanel, StopByCommand
<1>5. ASSUME NEW s \in Slots, SendStopDaemonRequest(s) PROVE PidInv'
  BY <1>2, <1>5 DEF SendStopDaemonRequest
<1>6. CASE LicenseExpires \/ UNCHANGED vars
  BY <1>2, <1>6 DEF LicenseExpires, vars
<1>7. QED
  BY <1>1, <1>3, <1>4, <1>5, <1>6, PidMain DEF Next

\* The lock of the pid file that main() takes lets two services run only when
\* the file of one of them was removed, whoever starts, ends or dies when.
THEOREM AlwaysAloneUnlessOrphaned == Spec => []AloneUnlessOrphaned
<1>1. Init => PidInv
  BY DEF Init, PidInv, LocksDiffer, OpenIsAtPath, HasLock
<1>2. TypeOK /\ PidInv => AloneUnlessOrphaned
  BY DEF TypeOK, PidInv, LocksDiffer, OpenIsAtPath, HasLock, AloneUnlessOrphaned, Running
<1>3. QED
  BY <1>1, <1>2, PidStep, TypeCorrect, PTL DEF Spec

=============================================================================
