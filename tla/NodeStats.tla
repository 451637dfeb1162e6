----------------------------- MODULE NodeStats -----------------------------
(***************************************************************************)
(* What the daemon reports of the machine: the load of the processor and   *)
(* the rates of the network since the report before, computed from         *)
(* counters of the kernel in ProcessSlaveWrapper::MakeServiceStats.  A     *)
(* report is made by the timer and by every activation of a panel, and     *)
(* each one moves the shots that the next one is compared with.            *)
(*                                                                         *)
(* The counters and the differences are unsigned, the difference of times  *)
(* is signed; a shot is all zeros if /proc/stat has not the form expected  *)
(* or /proc/net/dev cannot be opened; the clock may be set back; the       *)
(* counters of an interface vanish with it.                                *)
(*                                                                         *)
(* A line of /proc/net/dev is read by sixteen conversions of sixteen       *)
(* digits at most.  A longer counter is cut there and what is left of it   *)
(* is taken for the next one, so that everything behind it moves by one    *)
(* place: a long counter of received bytes puts a count of frames in the   *)
(* place of the sent bytes.                                                *)
(*                                                                         *)
(* Abstractions.                                                           *)
(*  - Words have Word values in place of 2^64, and the numbers of at most  *)
(*    sixteen digits are those below Cut, in place of 10^16.               *)
(*  - Time has PerSecond instants in a second in place of 1000.            *)
(*  - There is one interface but lo; of more the readings are added up.    *)
(*    Its line has all sixteen counters, as the kernel writes it: of a     *)
(*    shorter one sscanf would leave variables uninitialized.              *)
(*  - Memory, disk and the counts of clients are copied only.              *)
(*  - The load is the pair of differences whose quotient is reported.      *)
(***************************************************************************)
EXTENDS Integers

CONSTANTS
  Word,       \* number of values of an unsigned integer
  Cut,        \* the first number with too many digits for a conversion
  Powers,     \* the powers of the base, from 1
  Starts,     \* counts of bytes when the daemon starts
  Frames,     \* counts that may take the place of the sent bytes
  PerSecond,  \* instants in a second
  MaxTime,    \* bound: instants of the clock
  MaxEvents,  \* bound: changes of the machine and the clock between two reports
  MaxChanges, \* bound: changes of the machine and the clock at all
  Bytes       \* how much may be received or sent at once

\* The power that a number is divided by when all but its first digits are cut.
IsScale(v, s) == v \div s < Cut /\ \A t \in Powers : t < s => v \div t >= Cut

\* What can happen between two reports is less than the digits that are read
\* can count, and that is less than half a word, and less than a word by the
\* correction of a clock that is set back.
ASSUME NodeStatsAssumption ==
  /\ Word \in Nat \ {0, 1} /\ PerSecond \in Nat \ {0}
  /\ MaxTime \in Nat /\ MaxEvents \in Nat /\ MaxChanges \in Nat
  /\ Cut \in Nat \ {0} /\ 2 * Cut <= Word /\ Cut + MaxTime <= Word
  /\ MaxEvents + MaxTime < Word
  /\ \A b \in Bytes : b \in Nat \ {0} /\ b * MaxEvents < Cut
  /\ Starts \subseteq 0..(Word - 1) /\ Frames \subseteq 0..(Cut - 1)
  /\ 1 \in Powers /\ Powers \subseteq Nat \ {0}
  /\ \A v \in 0..(Word - 1) : \E s \in Powers : IsScale(v, s)

Directions == {"recv", "sent"}

VARIABLES
  busy, total,  \* the kernel's counters of ticks
  net,          \* the kernel's counters of received and sent bytes
  clock,        \* common::time::current_utc_mstime
  node,         \* node_stats_: the shots and the time of the report before
  report,       \* the last report
  since,        \* history: what really happened since the last report
  events,       \* number of changes since the last report
  changes       \* number of changes so far

vars == <<busy, total, net, clock, node, report, since, events, changes>>

-----------------------------------------------------------------------------
Minus(a, b) == (a - b) % Word

\* Division of integers as in C++: towards zero.
Quotient(a, b) == IF a >= 0 THEN a \div b ELSE -((-a) \div b)

\* GetMachineCpuShot: zeros if the reading failed.
CpuShot(readable) ==
  IF readable THEN [usage |-> busy, limit |-> total] ELSE [usage |-> 0, limit |-> 0]

Scale(v) == CHOOSE s \in Powers : IsScale(v, s)

\* Whether the counter is read at its place in the line.
InPlace(k) == k = "recv" \/ net["recv"] < Cut

\* GetMachineNetShot: zeros if the reading failed, else the first digits.
NetShot(readable, frames) ==
  [k \in Directions |->
     IF ~readable THEN 0 ELSE IF InPlace(k) THEN net[k] \div Scale(net[k]) ELSE frames]

\* Faulty variant of Load: the usage since the machine started.
LoadSinceStart(prev, next) ==
  [part |-> next.usage, whole |-> Minus(next.limit, prev.limit)]

\* GetCpuMachineLoad; nothing passed is no load.
Load(prev, next) ==
  IF next.limit = prev.limit THEN [part |-> 0, whole |-> 1]
  ELSE [part |-> Minus(next.usage, prev.usage), whole |-> Minus(next.limit, prev.limit)]

\* Whole seconds from a time to another, one if there is none.
TimeDiff(prev, now) ==
  LET d == Quotient(now - prev, PerSecond) IN IF d = 0 THEN 1 ELSE d

\* The difference of the times is converted to unsigned.
Rate(prev, next, diff) ==
  [k \in Directions |-> Minus(next[k], prev[k]) \div (diff % Word)]

\* In how many bytes a shot taken now counts; 0 if it does not show the counter.
Unit(readable) ==
  [k \in Directions |-> IF readable /\ InPlace(k) THEN Scale(net[k]) ELSE 0]

\* Nothing happened since a report whose shots could be read or not.
Quiet(cpuRead, netRead) ==
  [moved |-> [k \in Directions |-> 0], clock |-> clock, fell |-> FALSE,
   cpuRead |-> cpuRead, unit |-> Unit(netRead)]

\* The unit that both shots of a report made now count in; 0 if there is none.
CommonUnit(netRead) ==
  [k \in Directions |->
     IF ~since.fell /\ since.unit[k] = Unit(netRead)[k] THEN since.unit[k] ELSE 0]

\* Exec takes the first shots before the loop starts.
Init ==
  /\ total \in {0, Word - 1} /\ busy \in {0, total}
  /\ net \in [Directions -> Starts]
  /\ clock \in 0..MaxTime
  /\ \E frames \in Frames :
       node = [cpu |-> CpuShot(TRUE), net |-> NetShot(TRUE, frames), timestamp |-> clock]
  /\ report = [load |-> [part |-> 0, whole |-> 1], rate |-> [k \in Directions |-> 0],
               moved |-> [k \in Directions |-> 0], seconds |-> 0,
               cpuClean |-> TRUE, unit |-> [k \in Directions |-> 0]]
  /\ since = Quiet(TRUE, TRUE)
  /\ events = 0
  /\ changes = 0

-----------------------------------------------------------------------------
(***************************************************************************)
(* The machine.                                                            *)
(***************************************************************************)

Happens ==
  /\ events < MaxEvents /\ events' = events + 1
  /\ changes < MaxChanges /\ changes' = changes + 1

Work(b) ==
  /\ Happens
  /\ total' = (total + 1) % Word
  /\ busy' = (busy + b) % Word
  /\ UNCHANGED <<net, clock, node, report, since>>

Transfer(k, b) ==
  /\ Happens
  /\ net' = [net EXCEPT ![k] = (@ + b) % Word]
  /\ since' = [since EXCEPT !.moved[k] = @ + b]
  /\ UNCHANGED <<busy, total, clock, node, report>>

\* An interface that comes back counts from zero.
InterfaceVanishes ==
  /\ Happens
  /\ net' = [k \in Directions |-> 0]
  /\ since' = [since EXCEPT !.fell = TRUE]
  /\ UNCHANGED <<busy, total, clock, node, report>>

\* Time passes, or the clock is set back or forward.
ClockMoves(t) ==
  /\ Happens
  /\ clock' = t /\ t # clock
  /\ UNCHANGED <<busy, total, net, node, report, since>>

-----------------------------------------------------------------------------
(***************************************************************************)
(* Reports.                                                                *)
(***************************************************************************)

Report(cpu, now, cpuRead, netRead) ==
  /\ report' = [load     |-> Load(node.cpu, cpu),
                rate     |-> Rate(node.net, now, TimeDiff(node.timestamp, clock)),
                moved    |-> since.moved,
                seconds  |-> Quotient(clock - since.clock, PerSecond),
                cpuClean |-> cpuRead /\ since.cpuRead,
                unit     |-> CommonUnit(netRead)]
  /\ since' = Quiet(cpuRead, netRead)
  /\ events' = 0
  /\ UNCHANGED <<busy, total, net, clock, changes>>

\* Faulty variant of MakeServiceStats: the time of the report is not kept.
MakeServiceStatsUntimed(cpuRead, netRead, frames) ==
  /\ Report(CpuShot(cpuRead), NetShot(netRead, frames), cpuRead, netRead)
  /\ node' = [node EXCEPT !.cpu = CpuShot(cpuRead), !.net = NetShot(netRead, frames)]

\* A report for the panel that is activated, or for all verified ones at the
\* node_stats timer.
MakeServiceStats(cpuRead, netRead, frames) ==
  /\ Report(CpuShot(cpuRead), NetShot(netRead, frames), cpuRead, netRead)
  /\ node' = [cpu |-> CpuShot(cpuRead), net |-> NetShot(netRead, frames), timestamp |-> clock]

Next ==
  \/ \E b \in {0, 1} : Work(b)
  \/ \E k \in Directions, b \in Bytes : Transfer(k, b)
  \/ InterfaceVanishes
  \/ \E t \in 0..MaxTime : ClockMoves(t)
  \/ \E cpuRead, netRead \in BOOLEAN, frames \in Frames :
       MakeServiceStats(cpuRead, netRead, frames)

Spec == Init /\ [][Next]_vars

-----------------------------------------------------------------------------
\* The reported load lies between nothing and everything, unless this shot or
\* the one before could not be read: a failed reading of /proc/stat spoils two
\* reports and no more.
LoadWithinWhole == report.cpuClean => report.load.part <= report.load.whole

\* A reported rate is what was received, or sent, since the report before,
\* whoever that one was made for, by the whole seconds since then, or by one
\* second if there was none; it is zero when the clock was set back by a second
\* or more.  It is exact and in bytes as long as the counter has no digits too
\* many; when some are cut it counts in units of ten bytes, a hundred, and so
\* on, of which up to one too many or too few were moved.  Nothing is said of a
\* report in which the unit changed, an interface vanished, one of the two
\* readings failed or, of the sent bytes, one of them was shifted.
RateIsMean ==
  \A k \in Directions :
    report.unit[k] > 0 =>
      \E moved \in 0..(Cut - 1) :
        /\ moved * report.unit[k] - report.moved[k] < report.unit[k]
        /\ report.moved[k] - moved * report.unit[k] < report.unit[k]
        /\ report.rate[k] = IF report.seconds < 0 THEN 0
                            ELSE IF report.seconds = 0 THEN moved
                            ELSE moved \div report.seconds

=============================================================================
