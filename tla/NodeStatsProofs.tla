--------------------------- MODULE NodeStatsProofs ---------------------------
(* The reported load and rate, for words of any width, any number of reports  *)
(* and any behaviour of the machine in which no more happens between two      *)
(* reports than the digits that are read can count.                           *)
EXTENDS NodeStats, TLAPS

Words == 0..(Word - 1)

-----------------------------------------------------------------------------
(***************************************************************************)
(* Unsigned arithmetic.                                                    *)
(***************************************************************************)

LEMMA WordIsPositive == Word \in Nat /\ Word > 1
  BY NodeStatsAssumption

LEMMA ModRange == \A x \in Int : x % Word \in Words
  BY WordIsPositive DEF Words

LEMMA ModSmall == \A x \in Words : x % Word = x
  BY WordIsPositive DEF Words

LEMMA ModAbove == \A x \in Word..(2 * Word - 1) : x % Word = x - Word
  BY WordIsPositive

LEMMA ModBelow == \A x \in (-Word)..(-1) : x % Word = x + Word
  BY WordIsPositive

\* A counter that went on by m shows m in the difference, overflow or not.
LEMMA DifferenceIsChange ==
  ASSUME NEW a \in Words, NEW m \in Words
  PROVE  Minus((a + m) % Word, a) = m
<1> USE WordIsPositive DEF Words, Minus
<1>1. CASE a + m < Word
  <2>1. (a + m) % Word = a + m
    BY <1>1, ModSmall
  <2> QED BY <2>1, ModSmall
<1>2. CASE a + m >= Word
  <2>1. (a + m) % Word = a + m - Word
    BY <1>2, ModAbove
  <2>2. (a + m - Word) - a \in (-Word)..(-1)
    OBVIOUS
  <2>3. ((a + m - Word) - a) % Word = ((a + m - Word) - a) + Word
    BY <2>2, ModBelow
  <2> QED BY <2>1, <2>3
<1> QED BY <1>1, <1>2

\* Two changes of a counter add up.
LEMMA ChangesAdd ==
  ASSUME NEW a \in Words, NEW m \in Nat, NEW b \in Nat, m + b < Word
  PROVE  (((a + m) % Word) + b) % Word = (a + (m + b)) % Word
<1> USE WordIsPositive DEF Words
<1>1. CASE a + m < Word
  BY <1>1, ModSmall
<1>2. CASE a + m >= Word
  <2>1. (a + m) % Word = a + m - Word
    BY <1>2, ModAbove
  <2>2. (a + m - Word + b) % Word = a + m - Word + b
    BY <1>2, ModSmall
  <2>3. (a + (m + b)) % Word = a + (m + b) - Word
    BY <1>2, ModAbove
  <2> QED BY <2>1, <2>2, <2>3
<1> QED BY <1>1, <1>2

-----------------------------------------------------------------------------
(***************************************************************************)
(* The digits that are read.                                               *)
(***************************************************************************)

LEMMA ScaleIsScale ==
  ASSUME NEW v \in Words
  PROVE  /\ Scale(v) \in Powers /\ Scale(v) \in Nat \ {0}
         /\ IsScale(v, Scale(v))
<1>1. \E s \in Powers : IsScale(v, s)
  BY NodeStatsAssumption DEF Words
<1>2. Scale(v) \in Powers /\ IsScale(v, Scale(v))
  BY <1>1 DEF Scale
<1> QED
  BY <1>2, NodeStatsAssumption

LEMMA Division ==
  ASSUME NEW v \in Nat, NEW s \in Nat \ {0}
  PROVE  /\ v \div s \in Nat
         /\ \E rest \in 0..(s - 1) : v = s * (v \div s) + rest
<1>1. v % s \in 0..(s - 1) /\ v = s * (v \div s) + (v % s)
  OBVIOUS
<1> QED
  BY <1>1

\* A number that is short enough is read as it is, and no other is.
LEMMA ShortIsExact ==
  ASSUME NEW v \in Words
  PROVE  Scale(v) = 1 <=> v < Cut
<1>1. v \in Nat /\ Cut \in Nat /\ 1 \in Powers /\ v \div 1 = v
  BY NodeStatsAssumption DEF Words
<1>2. ASSUME Scale(v) = 1 PROVE v < Cut
  BY <1>1, <1>2, ScaleIsScale DEF IsScale
<1>3. ASSUME v < Cut, Scale(v) # 1 PROVE FALSE
  <2>1. 1 < Scale(v)
    BY <1>3, ScaleIsScale
  <2>2. v \div 1 >= Cut
    BY <1>1, <2>1, ScaleIsScale DEF IsScale
  <2> QED BY <1>1, <1>3, <2>2
<1> QED BY <1>2, <1>3

LEMMA FirstDigits ==
  ASSUME NEW v \in Words
  PROVE  v \div Scale(v) \in 0..(Cut - 1)
<1>1. v \div Scale(v) \in Nat
  BY ScaleIsScale, Division DEF Words
<1> QED
  BY <1>1, ScaleIsScale, NodeStatsAssumption DEF IsScale

\* What is cut from two numbers makes their difference wrong by less than a unit.
LEMMA CutDifference ==
  ASSUME NEW a \in Nat, NEW b \in Nat, a <= b, NEW s \in Nat \ {0}
  PROVE  /\ a \div s <= b \div s
         /\ ((b \div s) - (a \div s)) * s - (b - a) < s
         /\ (b - a) - ((b \div s) - (a \div s)) * s < s
<1> DEFINE p == a \div s
           q == b \div s
<1>1. p \in Nat /\ q \in Nat
  BY Division
<1>2. PICK x \in 0..(s - 1) : a = s * p + x
  BY Division
<1>3. PICK y \in 0..(s - 1) : b = s * q + y
  BY Division
<1> HIDE DEF p, q
<1>4. (q - p) * s = s * q - s * p
  BY <1>1
<1>5. s * p \in Int /\ s * q \in Int
  BY <1>1
<1>6. (q - p) * s - (b - a) < s /\ (b - a) - (q - p) * s < s
  BY <1>2, <1>3, <1>4, <1>5
<1>7. p <= q
  <2> SUFFICES ASSUME p > q PROVE FALSE
    BY <1>1
  <2>1. PICK c \in Nat : p = q + 1 + c
    <3>1. p - q - 1 \in Nat /\ p = q + 1 + (p - q - 1)
      BY <1>1
    <3> QED BY <3>1
  <2>2. s * p = s * q + s + s * c
    BY <1>1, <2>1
  <2>3. s * c \in Nat
    OBVIOUS
  <2>4. s * p >= s * q + s
    BY <1>5, <2>2, <2>3
  <2> QED BY <1>2, <1>3, <1>5, <2>4
<1> QED BY <1>6, <1>7 DEF p, q

-----------------------------------------------------------------------------
(***************************************************************************)
(* The invariant.                                                          *)
(***************************************************************************)

StatTypes ==
  /\ busy \in Words /\ total \in Words /\ net \in [Directions -> Words]
  /\ clock \in 0..MaxTime
  /\ node \in [cpu : [usage : Words, limit : Words], net : [Directions -> 0..(Cut - 1)],
               timestamp : 0..MaxTime]
  /\ since \in [moved : [Directions -> Nat], clock : 0..MaxTime, fell : BOOLEAN,
                cpuRead : BOOLEAN, unit : [Directions -> Nat]]
  /\ events \in 0..MaxEvents

\* The time kept with the shots is that of the last report.
Timed == node.timestamp = since.clock

\* Since a shot that was read, the processor did n ticks, m of them busy.
CpuFollows ==
  since.cpuRead =>
    \E n \in 0..events : \E m \in 0..n :
      /\ busy = (node.cpu.usage + m) % Word
      /\ total = (node.cpu.limit + n) % Word

\* Since a shot that showed the first digits of a counter, unless an interface
\* vanished, the counter went on by what was moved.
Follows(k) ==
  \E base \in Words :
    /\ since.unit[k] = Scale(base)
    /\ node.net[k] = base \div Scale(base)
    /\ net[k] = (base + since.moved[k]) % Word

NetFollows ==
  ~since.fell => \A k \in Directions : since.unit[k] # 0 => Follows(k)

\* The bytes of so few events do not need more digits than are read.
MovedBound ==
  \A k \in Directions :
    /\ since.moved[k] * MaxEvents <= events * (Cut - 1)
    /\ MaxEvents = 0 => since.moved[k] = 0

IInv == StatTypes /\ Timed /\ CpuFollows /\ NetFollows /\ MovedBound

LEMMA BoundIsBelowCut ==
  ASSUME NEW moved \in Nat, NEW e \in 0..MaxEvents,
         moved * MaxEvents <= e * (Cut - 1),
         MaxEvents = 0 => moved = 0
  PROVE  moved \in 0..(Cut - 1)
<1> DEFINE room == Cut - 1
<1>1. room \in Nat /\ MaxEvents \in Nat /\ e \in Nat
  BY NodeStatsAssumption
<1>2. e * room <= MaxEvents * room
  BY <1>1
<1>3. CASE MaxEvents = 0
  BY <1>1, <1>3
<1>4. CASE MaxEvents > 0 /\ moved > room
  <2>1. moved * MaxEvents > room * MaxEvents
    BY <1>1, <1>4
  <2> QED BY <1>1, <1>2, <2>1
<1> QED BY <1>1, <1>3, <1>4

LEMMA BytesFit ==
  ASSUME NEW moved \in Nat, NEW e \in 0..(MaxEvents - 1), NEW b \in Bytes,
         moved * MaxEvents <= e * (Cut - 1)
  PROVE  (moved + b) * MaxEvents <= (e + 1) * (Cut - 1)
<1> DEFINE room == Cut - 1
<1>1. room \in Nat /\ MaxEvents \in Nat /\ e \in Nat /\ b \in Nat /\ b * MaxEvents <= room
  BY NodeStatsAssumption
<1>2. (moved + b) * MaxEvents = moved * MaxEvents + b * MaxEvents
  BY <1>1
<1>3. (e + 1) * room = e * room + room
  BY <1>1
<1> QED BY <1>1, <1>2, <1>3

LEMMA OneMoreEvent ==
  ASSUME NEW e \in Nat
  PROVE  e * (Cut - 1) <= (e + 1) * (Cut - 1)
BY NodeStatsAssumption

\* A shot has the digits it should have, of counters that it shows.
LEMMA ShotTypes ==
  ASSUME net \in [Directions -> Words], NEW read \in BOOLEAN, NEW frames \in Frames
  PROVE  /\ NetShot(read, frames) \in [Directions -> 0..(Cut - 1)]
         /\ Unit(read) \in [Directions -> Nat]
<1>1. \A k \in Directions : net[k] \div Scale(net[k]) \in 0..(Cut - 1) /\ Scale(net[k]) \in Nat
  BY FirstDigits, ScaleIsScale
<1>2. 0 \in 0..(Cut - 1) /\ frames \in 0..(Cut - 1)
  BY NodeStatsAssumption
<1> QED BY <1>1, <1>2 DEF NetShot, Unit

LEMMA ShotFollows ==
  ASSUME net \in [Directions -> Words], NEW read \in BOOLEAN, NEW frames \in Frames,
         NEW k \in Directions, Unit(read)[k] # 0
  PROVE  /\ Unit(read)[k] = Scale(net[k])
         /\ NetShot(read, frames)[k] = net[k] \div Scale(net[k])
         /\ net[k] \in Words /\ net[k] = (net[k] + 0) % Word
<1>1. read /\ InPlace(k)
  BY DEF Unit
<1>2. net[k] \in Words
  OBVIOUS
<1>3. net[k] + 0 = net[k] /\ net[k] % Word = net[k]
  BY <1>2, ModSmall, WordIsPositive DEF Words
<1> QED BY <1>1, <1>2, <1>3 DEF Unit, NetShot

LEMMA InitInv == Init => IInv
<1> SUFFICES ASSUME Init PROVE IInv
  OBVIOUS
<1> USE NodeStatsAssumption DEF Init
<1>1. StatTypes
  <2>1. net \in [Directions -> Words]
    BY DEF Words
  <2>2. PICK frames \in Frames :
          node = [cpu |-> CpuShot(TRUE), net |-> NetShot(TRUE, frames), timestamp |-> clock]
    OBVIOUS
  <2>3. CpuShot(TRUE) \in [usage : Words, limit : Words]
    BY DEF CpuShot, Words
  <2>4. since \in [moved : [Directions -> Nat], clock : 0..MaxTime, fell : BOOLEAN,
                   cpuRead : BOOLEAN, unit : [Directions -> Nat]]
    BY <2>1, ShotTypes DEF Quiet
  <2>5. NetShot(TRUE, frames) \in [Directions -> 0..(Cut - 1)]
    BY <2>1, ShotTypes
  <2>6. node \in [cpu : [usage : Words, limit : Words], net : [Directions -> 0..(Cut - 1)],
                  timestamp : 0..MaxTime]
    BY <2>2, <2>3, <2>5
  <2>7. busy \in Words /\ total \in Words /\ clock \in 0..MaxTime /\ events \in 0..MaxEvents
    BY DEF Words
  <2> QED BY <2>1, <2>4, <2>6, <2>7 DEF StatTypes
<1>2. Timed
  BY DEF Timed, Quiet
<1>3. CpuFollows
  <2>1. busy = (node.cpu.usage + 0) % Word /\ total = (node.cpu.limit + 0) % Word
    BY ModSmall DEF CpuShot, Words
  <2> QED BY <2>1 DEF CpuFollows
<1>4. NetFollows
  <2>1. PICK frames \in Frames :
          node = [cpu |-> CpuShot(TRUE), net |-> NetShot(TRUE, frames), timestamp |-> clock]
    OBVIOUS
  <2>2. \A k \in Directions : since.unit[k] = Unit(TRUE)[k] /\ since.moved[k] = 0
    BY DEF Quiet
  <2>3. net \in [Directions -> Words]
    BY <1>1 DEF StatTypes
  <2> SUFFICES ASSUME NEW k \in Directions, Unit(TRUE)[k] # 0 PROVE Follows(k)
    BY <2>2 DEF NetFollows
  <2>4. /\ Unit(TRUE)[k] = Scale(net[k])
        /\ NetShot(TRUE, frames)[k] = net[k] \div Scale(net[k])
        /\ net[k] \in Words /\ net[k] = (net[k] + 0) % Word
    BY <2>3, ShotFollows
  <2> QED BY <2>1, <2>2, <2>4 DEF Follows
<1>5. MovedBound
  BY DEF MovedBound, Quiet
<1> QED BY <1>1, <1>2, <1>3, <1>4, <1>5 DEF IInv

LEMMA BoundStep ==
  ASSUME StatTypes, MovedBound, events' = events + 1, since'.moved = since.moved
  PROVE  MovedBound'
<1> SUFFICES ASSUME NEW k \in Directions
             PROVE  /\ since.moved[k] * MaxEvents <= (events + 1) * (Cut - 1)
                    /\ MaxEvents = 0 => since.moved[k] = 0
  BY DEF MovedBound
<1>1. events * (Cut - 1) <= (events + 1) * (Cut - 1)
  BY OneMoreEvent DEF StatTypes
<1>2. /\ since.moved[k] * MaxEvents <= events * (Cut - 1)
      /\ MaxEvents = 0 => since.moved[k] = 0
  BY DEF MovedBound
<1>3. /\ since.moved[k] * MaxEvents \in Int /\ events * (Cut - 1) \in Int
      /\ (events + 1) * (Cut - 1) \in Int
  BY NodeStatsAssumption DEF StatTypes
<1> QED BY <1>1, <1>2, <1>3

LEMMA NextInv == IInv /\ [Next]_vars => IInv'
<1> SUFFICES ASSUME IInv, [Next]_vars PROVE IInv'
  OBVIOUS
<1> USE NodeStatsAssumption DEF IInv
<1>0. Word \in Nat /\ MaxTime \in Nat /\ MaxEvents \in Nat
  OBVIOUS
<1>1. ASSUME NEW b \in {0, 1}, Work(b) PROVE IInv'
  <2> USE <1>1 DEF Work, Happens
  <2>1. StatTypes'
    <3>1. total + 1 \in Int /\ busy + b \in Int
      BY DEF StatTypes, Words
    <3>2. total' \in Words /\ busy' \in Words
      BY <3>1, ModRange
    <3>3. events' \in 0..MaxEvents
      BY DEF StatTypes
    <3> QED BY <3>2, <3>3 DEF StatTypes
  <2>2. Timed'
    BY DEF Timed
  <2>3. CpuFollows'
    <3> SUFFICES ASSUME since.cpuRead PROVE CpuFollows'
      BY DEF CpuFollows
    <3>1. PICK n \in 0..events : \E m \in 0..n :
            /\ busy = (node.cpu.usage + m) % Word
            /\ total = (node.cpu.limit + n) % Word
      BY DEF CpuFollows
    <3>2. PICK m \in 0..n :
            /\ busy = (node.cpu.usage + m) % Word
            /\ total = (node.cpu.limit + n) % Word
      BY <3>1
    <3>3. n + 1 \in 0..events' /\ m + b \in 0..(n + 1) /\ n + 1 < Word /\ m + b < Word
      BY DEF StatTypes
    <3>b. b \in Nat
      OBVIOUS
    <3>4. node.cpu.usage \in Words /\ node.cpu.limit \in Words /\ m \in Nat /\ n \in Nat
      BY DEF StatTypes
    <3>5. busy' = (node.cpu.usage + (m + b)) % Word
      <4>1. (((node.cpu.usage + m) % Word) + b) % Word = (node.cpu.usage + (m + b)) % Word
        BY <3>3, <3>4, <3>b, ChangesAdd
      <4> QED BY <3>2, <4>1
    <3>6. total' = (node.cpu.limit + (n + 1)) % Word
      <4>1. (((node.cpu.limit + n) % Word) + 1) % Word = (node.cpu.limit + (n + 1)) % Word
        BY <3>3, <3>4, ChangesAdd
      <4> QED BY <3>2, <4>1
    <3> QED BY <3>3, <3>5, <3>6 DEF CpuFollows
  <2>4. NetFollows'
    BY DEF NetFollows, Follows
  <2>5. MovedBound'
    BY BoundStep DEF StatTypes
  <2> QED BY <2>1, <2>2, <2>3, <2>4, <2>5
<1>2. ASSUME NEW k \in Directions, NEW b \in Bytes, Transfer(k, b) PROVE IInv'
  <2> USE <1>2 DEF Transfer, Happens
  <2>0. b \in Nat /\ net[k] \in Words /\ since.moved[k] \in Nat /\ events \in 0..(MaxEvents - 1)
    BY DEF StatTypes
  <2>1. net' \in [Directions -> Words] /\ since'.moved = [since.moved EXCEPT ![k] = @ + b]
    <3>1. (net[k] + b) % Word \in Words
      BY <2>0, ModRange DEF Words
    <3> QED BY <3>1 DEF StatTypes
  <2>2. /\ since'.clock = since.clock /\ since'.fell = since.fell
        /\ since'.cpuRead = since.cpuRead /\ since'.unit = since.unit
    BY DEF StatTypes
  <2>3. StatTypes'
    <3>1. since' \in [moved : [Directions -> Nat], clock : 0..MaxTime, fell : BOOLEAN,
                     cpuRead : BOOLEAN, unit : [Directions -> Nat]]
      BY <2>0 DEF StatTypes
    <3> QED BY <2>0, <2>1, <3>1 DEF StatTypes
  <2>4. Timed'
    BY <2>2 DEF Timed
  <2>5. CpuFollows'
    <3>1. 0..events \subseteq 0..events'
      BY <2>0
    <3> QED BY <2>2, <3>1 DEF CpuFollows
  <2>6. MovedBound'
    <3>1. (since.moved[k] + b) * MaxEvents <= (events + 1) * (Cut - 1)
      BY <2>0, BytesFit DEF MovedBound
    <3>2. events * (Cut - 1) <= (events + 1) * (Cut - 1)
      BY <2>0, OneMoreEvent
    <3>3. \A c \in Directions : since'.moved[c] * MaxEvents <= events' * (Cut - 1)
      <4> SUFFICES ASSUME NEW c \in Directions
                   PROVE  since'.moved[c] * MaxEvents <= events' * (Cut - 1)
        OBVIOUS
      <4>1. CASE c = k
        BY <2>1, <3>1, <4>1 DEF StatTypes
      <4>2. CASE c # k
        <5>1. since'.moved[c] = since.moved[c] /\ since.moved[c] \in Nat
          BY <2>1, <4>2 DEF StatTypes
        <5>2. since.moved[c] * MaxEvents <= events * (Cut - 1)
          BY DEF MovedBound
        <5>3. since.moved[c] * MaxEvents \in Int /\ events * (Cut - 1) \in Int
              /\ (events + 1) * (Cut - 1) \in Int
          BY <2>0, <5>1
        <5> QED BY <3>2, <5>1, <5>2, <5>3
      <4> QED BY <4>1, <4>2
    <3>4. MaxEvents # 0
      BY <2>0
    <3> QED BY <3>3, <3>4 DEF MovedBound
  <2>7. NetFollows'
    <3> SUFFICES ASSUME ~since.fell, NEW c \in Directions, since.unit[c] # 0
                 PROVE  Follows(c)'
      BY <2>2 DEF NetFollows
    <3>1. PICK base \in Words :
            /\ since.unit[c] = Scale(base)
            /\ node.net[c] = base \div Scale(base)
            /\ net[c] = (base + since.moved[c]) % Word
      BY DEF NetFollows, Follows
    <3>2. net'[c] = (base + since'.moved[c]) % Word
      <4>1. CASE c # k
        BY <2>1, <3>1, <4>1 DEF StatTypes
      <4>2. CASE c = k
        <5>1. since'.moved[k] = since.moved[k] + b
          BY <2>0, <2>1 DEF StatTypes
        <5>2. since.moved[k] + b \in 0..(Cut - 1)
          BY <2>0, <2>3, <2>6, <5>1, BoundIsBelowCut DEF MovedBound, StatTypes
        <5>3. since.moved[k] + b < Word
          BY <5>2
        <5>4. net'[k] = (((base + since.moved[k]) % Word) + b) % Word
          BY <3>1, <4>2 DEF StatTypes
        <5> QED BY <2>0, <3>1, <4>2, <5>1, <5>3, <5>4, ChangesAdd
      <4> QED BY <4>1, <4>2
    <3> QED BY <2>2, <3>1, <3>2 DEF Follows
  <2> QED BY <2>3, <2>4, <2>5, <2>6, <2>7
<1>3. CASE InterfaceVanishes
  <2> USE <1>3 DEF InterfaceVanishes, Happens
  <2>1. StatTypes'
    <3>1. 0 \in Words /\ events' \in 0..MaxEvents
      BY DEF StatTypes, Words
    <3> QED BY <3>1 DEF StatTypes
  <2>2. Timed'
    BY DEF Timed, StatTypes
  <2>3. CpuFollows'
    <3>1. 0..events \subseteq 0..events' /\ since'.cpuRead = since.cpuRead
      BY DEF StatTypes
    <3> QED BY <3>1 DEF CpuFollows
  <2>4. NetFollows'
    BY DEF NetFollows, StatTypes
  <2>5. MovedBound'
    BY BoundStep DEF StatTypes
  <2> QED BY <2>1, <2>2, <2>3, <2>4, <2>5
<1>4. ASSUME NEW t \in 0..MaxTime, ClockMoves(t) PROVE IInv'
  <2> USE <1>4 DEF ClockMoves, Happens
  <2>1. StatTypes' /\ Timed'
    BY DEF StatTypes, Timed
  <2>2. CpuFollows' /\ NetFollows'
    BY DEF CpuFollows, NetFollows, Follows, StatTypes
  <2>3. MovedBound'
    BY BoundStep DEF StatTypes
  <2> QED BY <2>1, <2>2, <2>3
<1>5. ASSUME NEW cpuRead \in BOOLEAN, NEW netRead \in BOOLEAN, NEW frames \in Frames,
             MakeServiceStats(cpuRead, netRead, frames)
      PROVE  IInv'
  <2> USE <1>5 DEF MakeServiceStats, Report
  <2>1. StatTypes'
    <3>1. CpuShot(cpuRead) \in [usage : Words, limit : Words]
      BY DEF CpuShot, StatTypes, Words
    <3>2. /\ NetShot(netRead, frames) \in [Directions -> 0..(Cut - 1)]
          /\ Unit(netRead) \in [Directions -> Nat]
      BY ShotTypes DEF StatTypes
    <3>3. Quiet(cpuRead, netRead) \in
            [moved : [Directions -> Nat], clock : 0..MaxTime, fell : BOOLEAN,
             cpuRead : BOOLEAN, unit : [Directions -> Nat]]
      BY <3>2 DEF Quiet, StatTypes
    <3> QED BY <3>1, <3>2, <3>3 DEF StatTypes
  <2>2. Timed'
    BY DEF Timed, Quiet
  <2>3. CpuFollows'
    <3> SUFFICES ASSUME cpuRead PROVE CpuFollows'
      BY DEF CpuFollows, Quiet
    <3>1. /\ busy' = (node'.cpu.usage + 0) % Word
          /\ total' = (node'.cpu.limit + 0) % Word
      BY ModSmall DEF CpuShot, StatTypes, Words
    <3> QED BY <3>1 DEF CpuFollows
  <2>4. NetFollows'
    <3> SUFFICES ASSUME NEW k \in Directions, since'.unit[k] # 0 PROVE Follows(k)'
      BY DEF NetFollows
    <3>1. since'.unit[k] = Unit(netRead)[k] /\ since'.moved[k] = 0 /\ net' = net
          /\ node'.net[k] = NetShot(netRead, frames)[k]
      BY DEF Quiet
    <3>2. /\ Unit(netRead)[k] = Scale(net[k])
          /\ NetShot(netRead, frames)[k] = net[k] \div Scale(net[k])
          /\ net[k] \in Words /\ net[k] = (net[k] + 0) % Word
      BY <3>1, ShotFollows DEF StatTypes
    <3> QED BY <3>1, <3>2 DEF Follows
  <2>5. MovedBound'
    BY DEF MovedBound, Quiet
  <2> QED BY <2>1, <2>2, <2>3, <2>4, <2>5
<1>6. CASE UNCHANGED vars
  BY <1>6 DEF vars, StatTypes, Timed, CpuFollows, NetFollows, Follows, MovedBound
<1> QED
  BY <1>1, <1>2, <1>3, <1>4, <1>5, <1>6 DEF Next

-----------------------------------------------------------------------------
(***************************************************************************)
(* What a report says.                                                     *)
(***************************************************************************)

\* Between two shots that were read, no more ticks were busy than passed.
LEMMA LoadIsPart ==
  ASSUME IInv, since.cpuRead
  PROVE  Load(node.cpu, CpuShot(TRUE)).part <= Load(node.cpu, CpuShot(TRUE)).whole
<1> USE NodeStatsAssumption DEF IInv
<1>1. PICK n \in 0..events : \E m \in 0..n :
        /\ busy = (node.cpu.usage + m) % Word
        /\ total = (node.cpu.limit + n) % Word
  BY DEF CpuFollows
<1>2. PICK m \in 0..n :
        /\ busy = (node.cpu.usage + m) % Word
        /\ total = (node.cpu.limit + n) % Word
  BY <1>1
<1>3. n \in Words /\ m \in Words
  BY DEF StatTypes, Words
<1>4. Minus(busy, node.cpu.usage) = m /\ Minus(total, node.cpu.limit) = n
  BY <1>2, <1>3, DifferenceIsChange DEF StatTypes
<1> QED
  BY <1>4 DEF Load, CpuShot

LEMMA QuotientRange ==
  ASSUME NEW d \in (-MaxTime)..MaxTime
  PROVE  Quotient(d, PerSecond) \in (-MaxTime)..MaxTime
<1> USE NodeStatsAssumption
<1>1. \A x \in 0..MaxTime : x \div PerSecond \in 0..MaxTime
  OBVIOUS
<1>2. CASE d >= 0
  BY <1>1, <1>2 DEF Quotient
<1>3. CASE d < 0
  <2>1. -d \in 0..MaxTime
    BY <1>3
  <2> QED BY <1>1, <1>3, <2>1 DEF Quotient
<1> QED BY <1>2, <1>3

\* Two readings in one unit differ by what was moved, but for less than a unit.
LEMMA ReadingsDiffer ==
  ASSUME IInv, NEW k \in Directions, NEW read \in BOOLEAN, NEW frames \in Frames,
         CommonUnit(read)[k] > 0
  PROVE  \E moved \in 0..(Cut - 1) :
           /\ Minus(NetShot(read, frames)[k], node.net[k]) = moved
           /\ moved * CommonUnit(read)[k] - since.moved[k] < CommonUnit(read)[k]
           /\ since.moved[k] - moved * CommonUnit(read)[k] < CommonUnit(read)[k]
<1> USE DEF IInv
<1> DEFINE u == since.unit[k]
           m == since.moved[k]
<1>1. /\ ~since.fell /\ u # 0 /\ u \in Nat
      /\ CommonUnit(read)[k] = u /\ Unit(read)[k] = u
  BY DEF CommonUnit, StatTypes
<1>2. PICK base \in Words :
        u = Scale(base) /\ node.net[k] = base \div Scale(base) /\ net[k] = (base + m) % Word
  BY <1>1 DEF NetFollows, Follows
<1>3. /\ u = Scale(net[k]) /\ net[k] \in Words
      /\ NetShot(read, frames)[k] = net[k] \div u
  BY <1>1, ShotFollows DEF StatTypes
<1>4. m \in 0..(Cut - 1)
  BY BoundIsBelowCut DEF MovedBound, StatTypes
<1>5. Word \in Nat /\ Cut \in Nat \ {0} /\ 2 * Cut <= Word /\ base \in 0..(Word - 1)
  BY NodeStatsAssumption DEF Words
<1> HIDE DEF u, m
\* After an overflow the counter would be short, and was not before.
<1>6. base + m < Word
  <2> SUFFICES ASSUME base + m >= Word PROVE FALSE
    BY <1>4, <1>5
  <2> DEFINE sum == base + m
  <2>1. net[k] = sum % Word
    BY <1>2
  <2>2. sum \in Word..(2 * Word - 1)
    BY <1>4, <1>5
  <2> HIDE DEF sum
  <2>3. net[k] = sum - Word
    BY <2>1, <2>2, ModAbove
  <2>4. sum = base + m
    BY DEF sum
  <2>5. net[k] < Cut /\ base >= Cut
    BY <1>4, <1>5, <2>3, <2>4
  <2>6. Scale(net[k]) = 1
    BY <1>3, <2>5, ShortIsExact
  <2>7. Scale(base) # 1
    BY <1>2, <1>5, <2>5, ShortIsExact
  <2> QED BY <1>2, <1>3, <2>6, <2>7
<1>7. net[k] = base + m
  <2> DEFINE sum == base + m
  <2>1. net[k] = sum % Word
    BY <1>2
  <2>2. sum \in Words
    BY <1>4, <1>5, <1>6 DEF Words
  <2> HIDE DEF sum
  <2>3. net[k] = sum
    BY <2>1, <2>2, ModSmall
  <2> QED BY <2>3 DEF sum
<1> DEFINE p == base \div u
           q == net[k] \div u
<1>8. /\ p \in 0..(Cut - 1) /\ q \in 0..(Cut - 1)
      /\ p <= q
      /\ (q - p) * u - m < u /\ m - (q - p) * u < u
  <2>1. p \in 0..(Cut - 1) /\ q \in 0..(Cut - 1)
    BY <1>2, <1>3, FirstDigits
  <2>2. net[k] - base = m /\ base <= net[k] /\ base \in Nat /\ net[k] \in Nat /\ u \in Nat \ {0}
    BY <1>1, <1>4, <1>5, <1>7
  <2>3. /\ p <= q
        /\ (q - p) * u - (net[k] - base) < u /\ (net[k] - base) - (q - p) * u < u
    BY <2>2, CutDifference
  <2> QED BY <2>1, <2>2, <2>3
<1> HIDE DEF p, q
<1>9. q - p \in 0..(Cut - 1) /\ (q - p) % Word = q - p
  BY <1>5, <1>8, ModSmall DEF Words
<1>10. Minus(NetShot(read, frames)[k], node.net[k]) = q - p
  BY <1>2, <1>3, <1>9 DEF Minus, p, q
<1> QED
  BY <1>1, <1>8, <1>9, <1>10 DEF m

\* A small difference by the seconds passed, as MakeServiceStats divides it.
LEMMA RateIsQuotient ==
  ASSUME IInv, NEW moved \in 0..(Cut - 1)
  PROVE  LET seconds == Quotient(clock - since.clock, PerSecond)
         IN  moved \div (TimeDiff(node.timestamp, clock) % Word) =
               IF seconds < 0 THEN 0 ELSE IF seconds = 0 THEN moved ELSE moved \div seconds
<1> DEFINE d == Quotient(clock - since.clock, PerSecond)
<1> USE NodeStatsAssumption DEF IInv
<1>1. d \in (-MaxTime)..MaxTime
  BY QuotientRange DEF StatTypes
<1>2. TimeDiff(node.timestamp, clock) = IF d = 0 THEN 1 ELSE d
  BY DEF TimeDiff, Timed
<1> HIDE DEF d
<1>3. CASE d < 0
  <2>1. d % Word = d + Word
    BY <1>1, <1>3, ModBelow
  <2>2. moved < d + Word
    BY <1>1
  <2>3. moved \div (d + Word) = 0
    BY <1>1, <2>2
  <2> QED BY <1>2, <1>3, <2>1, <2>3 DEF d
<1>4. CASE d = 0
  <2>1. 1 % Word = 1
    BY ModSmall DEF Words
  <2> QED BY <1>2, <1>4, <2>1 DEF d
<1>5. CASE d > 0
  <2>1. d % Word = d
    BY <1>1, <1>5, ModSmall DEF Words
  <2>2. TimeDiff(node.timestamp, clock) = d
    BY <1>1, <1>2, <1>5
  <2> QED BY <1>1, <1>5, <2>1, <2>2 DEF d
<1> QED BY <1>1, <1>3, <1>4, <1>5

LEMMA InitReport == Init => LoadWithinWhole /\ RateIsMean
  BY DEF Init, LoadWithinWhole, RateIsMean

LEMMA NextReport ==
  ASSUME IInv, LoadWithinWhole, RateIsMean, [Next]_vars
  PROVE  LoadWithinWhole' /\ RateIsMean'
<1>1. ASSUME NEW cpuRead \in BOOLEAN, NEW netRead \in BOOLEAN, NEW frames \in Frames,
             MakeServiceStats(cpuRead, netRead, frames)
      PROVE  LoadWithinWhole' /\ RateIsMean'
  <2>1. LoadWithinWhole'
    BY <1>1, LoadIsPart DEF MakeServiceStats, Report, LoadWithinWhole
  <2>2. RateIsMean'
    <3> SUFFICES ASSUME NEW k \in Directions, report'.unit[k] > 0
                 PROVE  \E moved \in 0..(Cut - 1) :
                          /\ moved * report'.unit[k] - report'.moved[k] < report'.unit[k]
                          /\ report'.moved[k] - moved * report'.unit[k] < report'.unit[k]
                          /\ report'.rate[k] = IF report'.seconds < 0 THEN 0
                                               ELSE IF report'.seconds = 0 THEN moved
                                               ELSE moved \div report'.seconds
      BY DEF RateIsMean
    <3>1. /\ report'.unit[k] = CommonUnit(netRead)[k] /\ report'.moved[k] = since.moved[k]
          /\ report'.seconds = Quotient(clock - since.clock, PerSecond)
          /\ report'.rate[k] = Minus(NetShot(netRead, frames)[k], node.net[k])
                                 \div (TimeDiff(node.timestamp, clock) % Word)
      BY <1>1 DEF MakeServiceStats, Report, Rate
    <3>2. PICK moved \in 0..(Cut - 1) :
            /\ Minus(NetShot(netRead, frames)[k], node.net[k]) = moved
            /\ moved * CommonUnit(netRead)[k] - since.moved[k] < CommonUnit(netRead)[k]
            /\ since.moved[k] - moved * CommonUnit(netRead)[k] < CommonUnit(netRead)[k]
      BY <3>1, ReadingsDiffer
    <3>3. report'.rate[k] = IF report'.seconds < 0 THEN 0
                            ELSE IF report'.seconds = 0 THEN moved
                            ELSE moved \div report'.seconds
      BY <3>1, <3>2, RateIsQuotient
    <3> QED BY <3>1, <3>2, <3>3
  <2> QED BY <2>1, <2>2
<1>2. CASE UNCHANGED report
  BY <1>2 DEF LoadWithinWhole, RateIsMean
<1> QED
  BY <1>1, <1>2 DEF Next, Work, Transfer, InterfaceVanishes, ClockMoves, vars

LEMMA InductiveInvariant == Spec => []IInv
<1> QED BY InitInv, NextInv, PTL DEF Spec

\* No report says that more ticks were busy than passed, unless one of its two
\* readings of /proc/stat failed (GetCpuMachineLoad).
THEOREM LoadAlwaysWithinWhole == Spec => []LoadWithinWhole
<1>1. Init => LoadWithinWhole /\ RateIsMean
  BY InitReport
<1>2. IInv /\ LoadWithinWhole /\ RateIsMean /\ [Next]_vars => (LoadWithinWhole /\ RateIsMean)'
  BY NextReport
<1> QED
  BY <1>1, <1>2, InductiveInvariant, PTL DEF Spec

\* The rates of a report are what was moved since the one before, by the seconds
\* since then, in the unit of the digits that GetMachineNetShot reads, to less
\* than one unit; a clock that is set back is included.
THEOREM RateAlwaysMean == Spec => []RateIsMean
<1>1. Init => LoadWithinWhole /\ RateIsMean
  BY InitReport
<1>2. IInv /\ LoadWithinWhole /\ RateIsMean /\ [Next]_vars => (LoadWithinWhole /\ RateIsMean)'
  BY NextReport
<1> QED
  BY <1>1, <1>2, InductiveInvariant, PTL DEF Spec

=============================================================================
