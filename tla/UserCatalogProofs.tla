------------------------- MODULE UserCatalogProofs -------------------------
(***************************************************************************)
(* Proofs about UserCatalog, for any streams, layouts of entries, values   *)
(* and lengths of the arrays.                                              *)
(*                                                                         *)
(* The argument has four parts.                                            *)
(*  - GoodEntry: no entry has a field twice, and in an entry that the      *)
(*    program pushed no "locked" comes before "recent".  $set keeps both,  *)
(*    since a missing field is appended (AppendedField, SetFieldGood).     *)
(*  - FirstIsWanted: the first entry of a stream in the array of its class *)
(*    has the marks stored last.  It needs the sequence lemmas: $push and  *)
(*    $pull keep the first entry of every other stream.                    *)
(*  - What is read of an entry (FoundUpTo): a field that is appended       *)
(*    changes the reading of no other.                                     *)
(*  - Counted: SetRecent's second write follows its first.                 *)
(***************************************************************************)
EXTENDS UserCatalog, FiniteSetTheorems, WellFoundedInduction, TLAPS

(***************************************************************************)
(* Choosing places of a sequence.                                          *)
(***************************************************************************)

\* A set of naturals that is not empty has a least one.
LEMMA NatMinimum ==
  ASSUME NEW T, T \subseteq Nat, T # {}
  PROVE  \E i \in T : \A j \in T : i <= j
<1>1. PICK i \in T : \A j \in T : <<j, i>> \notin OpToRel(<, Nat)
  BY WFMin, NatLessThanWellFounded
<1>2. \A j \in T : ~(j < i)
  BY <1>1 DEF OpToRel
<1>3. QED
  BY <1>2

Upto(I, n) == {j \in I : j <= n}

\* What belongs to Upto.
LEMMA UptoMember ==
  ASSUME NEW I, NEW n, NEW k
  PROVE  k \in Upto(I, n) <=> k \in I /\ k <= n
BY DEF Upto

\* A set of places is finite, and so is what it has up to a number.
LEMMA UptoFinite ==
  ASSUME NEW len \in Nat, NEW I \in SUBSET (1..len), NEW n \in Int
  PROVE  /\ IsFiniteSet(I) /\ IsFiniteSet(Upto(I, n))
         /\ Cardinality(I) \in Nat /\ Cardinality(Upto(I, n)) \in Nat
<1>1. IsFiniteSet(1..len)
  BY FS_Interval
<1>2. IsFiniteSet(I) /\ IsFiniteSet(Upto(I, n))
  BY <1>1, FS_Subset DEF Upto
<1> QED BY <1>2, FS_CardinalityType

\* Upto grows with its bound.
LEMMA UptoStep ==
  ASSUME NEW I \in SUBSET Int, NEW i \in Int, NEW j \in Int, i <= j
  PROVE  Upto(I, i) \subseteq Upto(I, j)
<1> SUFFICES ASSUME NEW k \in Upto(I, i) PROVE k \in Upto(I, j)
  OBVIOUS
<1>1. k \in I /\ k <= i
  BY UptoMember
<1>2. k \in Int
  BY <1>1
<1>3. k <= j
  BY <1>1, <1>2
<1> QED BY <1>1, <1>3, UptoMember

\* A later place of the set has more of them up to it.
LEMMA UptoGrows ==
  ASSUME NEW len \in Nat, NEW I \in SUBSET (1..len), NEW i \in I, NEW j \in I, i < j
  PROVE  Cardinality(Upto(I, i)) < Cardinality(Upto(I, j))
<1>0. I \in SUBSET Int /\ i \in Int /\ j \in Int
  OBVIOUS
<1>1. Upto(I, i) \subseteq Upto(I, j)
  BY <1>0, UptoStep
<1>2. j \in Upto(I, j) /\ j \notin Upto(I, i)
  BY <1>0, UptoMember
<1>3. /\ IsFiniteSet(Upto(I, j))
      /\ Cardinality(Upto(I, i)) \in Nat /\ Cardinality(Upto(I, j)) \in Nat
  BY <1>0, UptoFinite
<1>4. /\ Cardinality(Upto(I, i)) <= Cardinality(Upto(I, j))
      /\ Cardinality(Upto(I, i)) # Cardinality(Upto(I, j))
  BY <1>1, <1>2, <1>3, FS_Subset
<1> QED
  BY <1>3, <1>4

\* The next number adds itself or nothing.
LEMMA UptoNext ==
  ASSUME NEW I \in SUBSET Int, NEW p \in Int, NEW i \in Int, i = p + 1
  PROVE  Upto(I, i) = IF i \in I THEN Upto(I, p) \cup {i} ELSE Upto(I, p)
<1>1. ASSUME NEW k PROVE k \in Upto(I, i) <=> k \in Upto(I, p) \/ (k = i /\ i \in I)
  <2>1. CASE k \in I
    <3>1. k \in Int
      BY <2>1
    <3>2. k <= i <=> k <= p \/ k = i
      BY <3>1
    <3> QED BY <2>1, <3>2, UptoMember
  <2>2. CASE k \notin I
    BY <2>2, UptoMember
  <2> QED BY <2>1, <2>2
<1> QED BY <1>1

\* Up to the length of the sequence are all places, up to 0 none.
LEMMA UptoEnds ==
  ASSUME NEW len \in Nat, NEW I \in SUBSET (1..len)
  PROVE  Upto(I, len) = I /\ Upto(I, 0) = {}
<1>1. ASSUME NEW k \in I PROVE k <= len /\ ~(k <= 0)
  <2>1. k \in 1..len
    OBVIOUS
  <2> QED BY <2>1
<1>2. ASSUME NEW k PROVE (k \in Upto(I, len) <=> k \in I) /\ k \notin Upto(I, 0)
  <2>1. CASE k \in I
    BY <1>1, <2>1, UptoMember
  <2>2. CASE k \notin I
    BY <2>2, UptoMember
  <2> QED BY <2>1, <2>2
<1> QED BY <1>2

\* Every number up to the size of the set has a place.
LEMMA NthExists ==
  ASSUME NEW len \in Nat, NEW I \in SUBSET (1..len), NEW n \in 1..Cardinality(I)
  PROVE  \E i \in I : Cardinality(Upto(I, i)) = n
<1> DEFINE T == {k \in 0..len : Cardinality(Upto(I, k)) >= n}
<1>1. I \in SUBSET Int /\ len \in Int
  OBVIOUS
<1>2. \A k \in Int : IsFiniteSet(Upto(I, k)) /\ Cardinality(Upto(I, k)) \in Nat
  BY UptoFinite
<1>3. Cardinality(I) \in Nat
  BY <1>1, UptoFinite
<1>4. n \in Nat /\ 1 <= n /\ n <= Cardinality(I)
  BY <1>3
<1>5. len \in T /\ 0 \notin T
  BY <1>4, UptoEnds, FS_EmptySet
<1>6. T \subseteq Nat
  OBVIOUS
<1> HIDE DEF T
<1>7. PICK i \in T : \A k \in T : i <= k
  BY <1>5, <1>6, NatMinimum
<1> USE DEF T
<1>8. PICK p \in Int : i = p + 1 /\ p \in 0..len /\ p \notin T /\ i \in Int
  <2>1. i \in 0..len /\ i # 0
    BY <1>5, <1>7
  <2>2. i - 1 \in 0..len /\ ~(i <= i - 1)
    BY <2>1
  <2>3. i - 1 \notin T
    BY <1>7, <2>2
  <2> QED BY <2>1, <2>2, <2>3
<1>9. Cardinality(Upto(I, p)) < n /\ Cardinality(Upto(I, i)) >= n
  BY <1>2, <1>4, <1>7, <1>8
<1> HIDE DEF T
<1>10. i \in I
  BY <1>1, <1>2, <1>4, <1>8, <1>9, UptoNext
<1>11. Upto(I, i) = Upto(I, p) \cup {i}
  BY <1>1, <1>8, <1>10, UptoNext
<1>12. i \notin Upto(I, p)
  BY <1>8, UptoMember
<1>13. Cardinality(Upto(I, i)) = Cardinality(Upto(I, p)) + 1
  BY <1>2, <1>8, <1>11, <1>12, FS_AddElement
<1>14. Cardinality(Upto(I, i)) = n
  BY <1>2, <1>4, <1>8, <1>9, <1>13
<1> QED
  BY <1>10, <1>14

\* Nth counts the places of the set in their order.
LEMMA NthPlace ==
  ASSUME NEW len \in Nat, NEW I \in SUBSET (1..len), NEW n \in 1..Cardinality(I)
  PROVE  Nth(I, n) \in I /\ Cardinality(Upto(I, Nth(I, n))) = n
<1>1. PICK i \in I : Cardinality(Upto(I, i)) = n
  BY NthExists
<1>2. Nth(I, n) = CHOOSE k \in I : Cardinality(Upto(I, k)) = n
  BY DEF Nth, Upto
<1> HIDE DEF Upto
<1> QED
  BY <1>1, <1>2, Zenon

\* Every place of the set is the n-th for some n.
LEMMA PlaceIsNth ==
  ASSUME NEW len \in Nat, NEW I \in SUBSET (1..len), NEW i \in I
  PROVE  \E n \in 1..Cardinality(I) : Nth(I, n) = i
<1> DEFINE n == Cardinality(Upto(I, i))
<1>1. i \in Int /\ Upto(I, i) \subseteq I /\ i \in Upto(I, i)
  BY DEF Upto
<1>2. n \in 1..Cardinality(I)
  <2>1. /\ IsFiniteSet(I) /\ IsFiniteSet(Upto(I, i))
        /\ Cardinality(I) \in Nat /\ Cardinality(Upto(I, i)) \in Nat
    BY <1>1, UptoFinite
  <2>2. Cardinality(Upto(I, i)) <= Cardinality(I)
    BY <1>1, <2>1, FS_Subset
  <2>3. Cardinality(Upto(I, i)) # 0
    BY <1>1, <2>1, FS_EmptySet
  <2> QED BY <2>1, <2>2, <2>3
<1>3. Nth(I, n) \in I /\ Cardinality(Upto(I, Nth(I, n))) = n
  BY <1>2, NthPlace
<1>4. ~(Nth(I, n) < i) /\ ~(i < Nth(I, n))
  <2>1. n \in Nat
    BY <1>1, UptoFinite
  <2>2. ASSUME Nth(I, n) < i PROVE FALSE
    <3>1. Cardinality(Upto(I, Nth(I, n))) < Cardinality(Upto(I, i))
      BY <1>3, <2>2, UptoGrows
    <3> QED BY <1>3, <2>1, <3>1
  <2>3. ASSUME i < Nth(I, n) PROVE FALSE
    <3>1. Cardinality(Upto(I, i)) < Cardinality(Upto(I, Nth(I, n)))
      BY <1>3, <2>3, UptoGrows
    <3> QED BY <1>3, <2>1, <3>1
  <2> QED BY <2>2, <2>3
<1>5. Nth(I, n) = i
  <2>1. \A k \in I : k \in Int
    OBVIOUS
  <2>2. Nth(I, n) \in Int /\ i \in Int
    BY <1>3, <2>1
  <2> HIDE DEF n
  <2> QED BY <1>4, <2>2
<1> QED
  BY <1>2, <1>5

\* Nth keeps the order of the places.
LEMMA NthGrows ==
  ASSUME NEW len \in Nat, NEW I \in SUBSET (1..len),
         NEW m \in 1..Cardinality(I), NEW n \in 1..Cardinality(I), m < n
  PROVE  Nth(I, m) < Nth(I, n)
<1>1. /\ Nth(I, m) \in I /\ Cardinality(Upto(I, Nth(I, m))) = m
      /\ Nth(I, n) \in I /\ Cardinality(Upto(I, Nth(I, n))) = n
  BY NthPlace
<1>2. ASSUME Nth(I, n) < Nth(I, m) PROVE FALSE
  <2>1. Cardinality(Upto(I, Nth(I, n))) < Cardinality(Upto(I, Nth(I, m)))
    BY <1>1, <1>2, UptoGrows
  <2> QED BY <1>1, <2>1
<1>3. Nth(I, m) # Nth(I, n)
  BY <1>1
<1>4. \A k \in I : k \in Int
  OBVIOUS
<1>5. Nth(I, m) \in Int /\ Nth(I, n) \in Int
  BY <1>1, <1>4
<1> QED
  BY <1>2, <1>3, <1>5

\* What is kept of a sequence is a sequence of its elements.
LEMMA KeptType ==
  ASSUME NEW S, NEW q \in Seq(S), NEW I \in SUBSET DOMAIN q
  PROVE  /\ Kept(q, I) \in Seq(S)
         /\ Len(Kept(q, I)) = Cardinality(I)
         /\ DOMAIN Kept(q, I) = 1..Cardinality(I)
         /\ \A n \in DOMAIN Kept(q, I) :
              Nth(I, n) \in I /\ Kept(q, I)[n] = q[Nth(I, n)]
<1>1. Len(q) \in Nat /\ I \in SUBSET (1..Len(q))
  OBVIOUS
<1>2. \A n \in 1..Cardinality(I) : Nth(I, n) \in I
  BY <1>1, NthPlace
<1>3. Cardinality(I) \in Nat
  <2>1. Len(q) \in Int
    BY <1>1
  <2> QED BY <1>1, <2>1, UptoFinite
<1>4. Kept(q, I) = [n \in 1..Cardinality(I) |-> q[Nth(I, n)]]
  BY DEF Kept
<1>5. \A n \in 1..Cardinality(I) : q[Nth(I, n)] \in S
  BY <1>1, <1>2
<1> HIDE DEF Kept
<1> QED
  BY <1>2, <1>3, <1>4, <1>5

-----------------------------------------------------------------------------
(***************************************************************************)
(* Finding the first element with an id.                                   *)
(***************************************************************************)

\* Place i of q is the first with id t.
FirstAt(q, t, i) ==
  i \in DOMAIN q /\ q[i].sid = t /\ \A j \in 1..(i - 1) : q[j].sid # t

\* A stream with an entry has a first one.
LEMMA FirstExists ==
  ASSUME NEW S, NEW q \in Seq(S), NEW t, NEW i \in DOMAIN q, q[i].sid = t
  PROVE  \E j \in DOMAIN q : FirstAt(q, t, j)
<1> DEFINE T == {j \in DOMAIN q : q[j].sid = t}
<1>1. T \subseteq Nat /\ i \in T
  OBVIOUS
<1> HIDE DEF T
<1>2. PICK j \in T : \A k \in T : j <= k
  BY <1>1, NatMinimum
<1> USE DEF T
<1>3. \A k \in 1..(j - 1) : k \in DOMAIN q /\ ~(j <= k)
  BY <1>1, <1>2
<1> QED
  BY <1>2, <1>3 DEF FirstAt

\* It has only one.
LEMMA FirstUnique ==
  ASSUME NEW S, NEW q \in Seq(S), NEW t, NEW i, NEW j, FirstAt(q, t, i), FirstAt(q, t, j)
  PROVE  i = j
<1>1. i \in 1..Len(q) /\ j \in 1..Len(q)
  BY DEF FirstAt
<1>2. ~(i < j) /\ ~(j < i)
  BY <1>1 DEF FirstAt
<1> QED BY <1>1, <1>2

\* What the positional operator and First choose is that place.
LEMMA FirstIsChosen ==
  ASSUME NEW S, NEW k, NEW s, NEW i, arrays[k] \in Seq(S), FirstAt(arrays[k], s, i)
  PROVE  Holds(k, s) /\ Chosen(k, s) = i /\ First(k, s) = arrays[k][i]
<1> DEFINE H == {j \in DOMAIN arrays[k] : arrays[k][j].sid = s}
<1>1. i \in H /\ H \subseteq 1..Len(arrays[k])
  BY DEF FirstAt
<1>2. \A j \in H : i <= j
  <2> SUFFICES ASSUME NEW j \in H, ~(i <= j) PROVE FALSE
    OBVIOUS
  <2>1. j \in 1..(i - 1)
    BY <1>1
  <2> QED BY <2>1 DEF FirstAt
<1>3. \A j \in H : (\A l \in H : j <= l) => j = i
  BY <1>1, <1>2
<1> HIDE DEF H
<1>4. (CHOOSE j \in H : \A l \in H : j <= l) = i
  BY <1>1, <1>2, <1>3
<1>5. Holders(k, s) = H
  BY DEF Holders, H
<1> QED
  BY <1>1, <1>4, <1>5 DEF Holds, Chosen, First

\* An array that holds a stream has a first entry of it.
LEMMA HeldIsFirst ==
  ASSUME NEW S, NEW k, NEW s, arrays[k] \in Seq(S), Holds(k, s)
  PROVE  \E i \in DOMAIN arrays[k] : FirstAt(arrays[k], s, i)
BY FirstExists DEF Holds, Holders

\* An array that does not hold a stream has no entry of it.
LEMMA NotHeld ==
  ASSUME NEW k, NEW s
  PROVE  ~Holds(k, s) <=> \A i \in DOMAIN arrays[k] : arrays[k][i].sid # s
BY DEF Holds, Holders

\* Keeping the places of an id, and others, keeps its first one first.
LEMMA KeptFirst ==
  ASSUME NEW S, NEW q \in Seq(S), NEW I \in SUBSET DOMAIN q, NEW t,
         NEW i \in I, FirstAt(q, t, i)
  PROVE  \E n \in DOMAIN Kept(q, I) : FirstAt(Kept(q, I), t, n) /\ Kept(q, I)[n] = q[i]
<1>1. Len(q) \in Nat /\ I \in SUBSET (1..Len(q))
  OBVIOUS
<1>2. PICK n \in 1..Cardinality(I) : Nth(I, n) = i
  BY <1>1, PlaceIsNth
<1>3. DOMAIN Kept(q, I) = 1..Cardinality(I) /\ n \in Nat
  BY KeptType
<1>4. Kept(q, I)[n] = q[i]
  BY <1>2, <1>3, KeptType
<1>5. ASSUME NEW m \in 1..(n - 1) PROVE Kept(q, I)[m].sid # t
  <2>1. m \in 1..Cardinality(I) /\ m < n
    <3>1. Kept(q, I) \in Seq(S) /\ Len(Kept(q, I)) = Cardinality(I)
      BY KeptType
    <3>2. Cardinality(I) \in Nat
      BY <3>1
    <3> QED BY <1>3, <3>2
  <2>2. Nth(I, m) < i /\ Nth(I, m) \in I /\ Kept(q, I)[m] = q[Nth(I, m)]
    BY <1>1, <1>2, <1>3, <2>1, NthGrows, KeptType
  <2>3. Nth(I, m) \in 1..(i - 1)
    BY <1>1, <2>2
  <2> QED BY <2>2, <2>3 DEF FirstAt
<1> QED
  BY <1>2, <1>3, <1>4, <1>5 DEF FirstAt

\* $pull leaves entries of the array, none with the id.
LEMMA WithoutType ==
  ASSUME NEW S, NEW q \in Seq(S), NEW s
  PROVE  /\ Without(q, s) \in Seq(S)
         /\ \A n \in DOMAIN Without(q, s) :
              /\ Without(q, s)[n].sid # s
              /\ \E i \in DOMAIN q : Without(q, s)[n] = q[i]
<1> DEFINE I == {i \in DOMAIN q : q[i].sid # s}
<1>1. I \in SUBSET DOMAIN q
  OBVIOUS
<1>2. \A i \in I : i \in DOMAIN q /\ q[i].sid # s
  OBVIOUS
<1>3. Without(q, s) = Kept(q, I)
  BY DEF Without
<1> HIDE DEF I
<1>4. Kept(q, I) \in Seq(S)
  BY <1>1, KeptType
<1>5. \A n \in DOMAIN Kept(q, I) : Nth(I, n) \in I /\ Kept(q, I)[n] = q[Nth(I, n)]
  BY <1>1, KeptType
<1> QED
  BY <1>2, <1>3, <1>4, <1>5

\* $pull of one id keeps the first entry of every other.
LEMMA WithoutFirst ==
  ASSUME NEW S, NEW q \in Seq(S), NEW s, NEW t, s # t, NEW i, FirstAt(q, t, i)
  PROVE  \E n \in DOMAIN Without(q, s) :
           FirstAt(Without(q, s), t, n) /\ Without(q, s)[n] = q[i]
<1> DEFINE I == {j \in DOMAIN q : q[j].sid # s}
<1>1. i \in I /\ I \in SUBSET DOMAIN q
  BY DEF FirstAt
<1>2. Without(q, s) = Kept(q, I)
  BY DEF Without
<1> HIDE DEF I
<1> QED
  BY <1>1, <1>2, KeptFirst

-----------------------------------------------------------------------------
(***************************************************************************)
(* Entries.                                                                *)
(***************************************************************************)

\* A document has an id and no field twice.
Proper(order) ==
  /\ Has(order, "sid")
  /\ \A m, n \in DOMAIN order : order[m] = order[n] => m = n

\* What makes the times of a catchup unreadable: no "locked" before "recent",
\* and none can come before it, since "recent" is there.
Forgets(order) == Has(order, "recent") /\ ~Before(order, "locked", "recent")

GoodEntry ==
  {e \in EntryType : Proper(e.order) /\ (e.by = "program" => Forgets(e.order))}

\* A field that was missing is appended: nothing else moves.
LEMMA AppendedField ==
  ASSUME NEW order \in Seq(Fields), NEW f \in Settings, ~Has(order, f)
  PROVE  /\ Append(order, f) \in Seq(Fields)
         /\ Proper(order) => Proper(Append(order, f))
         /\ \A g : Has(Append(order, f), g) <=> Has(order, g) \/ g = f
         /\ \A g, h : Before(Append(order, f), g, h)
                        <=> Before(order, g, h) \/ (Has(order, g) /\ h = f)
<1> DEFINE long == Append(order, f)
<1>1. /\ long \in Seq(Fields) /\ Len(long) = Len(order) + 1 /\ Len(order) \in Nat
      /\ DOMAIN long = 1..(Len(order) + 1) /\ DOMAIN order = 1..Len(order)
      /\ long[Len(order) + 1] = f
      /\ \A i \in 1..Len(order) : long[i] = order[i]
  BY DEF Fields
<1> HIDE DEF long
<1>2. \A i \in DOMAIN long : i \in DOMAIN order \/ i = Len(order) + 1
  BY <1>1
<1>3. \A g : Has(long, g) <=> Has(order, g) \/ g = f
  <2> SUFFICES ASSUME NEW g PROVE Has(long, g) <=> Has(order, g) \/ g = f
    OBVIOUS
  <2>1. Len(order) + 1 \in DOMAIN long /\ DOMAIN order \subseteq DOMAIN long
    BY <1>1
  <2> QED BY <1>1, <1>2, <2>1 DEF Has
<1>4. Proper(order) => Proper(long)
  <2> SUFFICES ASSUME Proper(order), NEW m \in DOMAIN long, NEW n \in DOMAIN long,
                      long[m] = long[n]
               PROVE  m = n
    BY <1>3 DEF Proper
  <2> QED BY <1>1, <1>2 DEF Has, Proper
<1>5. ASSUME NEW g, NEW h
      PROVE  Before(long, g, h) <=> Before(order, g, h) \/ (Has(order, g) /\ h = f)
  <2>1. ASSUME Before(long, g, h) PROVE Before(order, g, h) \/ (Has(order, g) /\ h = f)
    <3>1. PICK i, j \in DOMAIN long : i < j /\ long[i] = g /\ long[j] = h
      BY <2>1 DEF Before
    <3>2. i \in DOMAIN order
      BY <1>1, <1>2, <3>1
    <3>3. CASE j \in DOMAIN order
      BY <1>1, <3>1, <3>2, <3>3 DEF Before
    <3>4. CASE j = Len(order) + 1
      BY <1>1, <3>1, <3>2, <3>4 DEF Has
    <3> QED BY <1>2, <3>3, <3>4
  <2>2. ASSUME Before(order, g, h) PROVE Before(long, g, h)
    <3>1. PICK i, j \in DOMAIN order : i < j /\ order[i] = g /\ order[j] = h
      BY <2>2 DEF Before
    <3> QED BY <1>1, <3>1 DEF Before
  <2>3. ASSUME Has(order, g), h = f PROVE Before(long, g, h)
    <3>1. PICK i \in DOMAIN order : order[i] = g
      BY <2>3 DEF Has
    <3>2. i \in DOMAIN long /\ Len(order) + 1 \in DOMAIN long /\ i < Len(order) + 1
      BY <1>1, <3>1
    <3> QED BY <1>1, <2>3, <3>1, <3>2 DEF Before
  <2> QED BY <2>1, <2>2, <2>3
<1> QED
  BY <1>1, <1>3, <1>4, <1>5 DEF long

\* $set keeps the id and the other values, and a good entry good.
LEMMA SetFieldGood ==
  ASSUME NEW e \in GoodEntry, NEW f \in Settings, NEW v \in Values
  PROVE  /\ SetField(e, f, v) \in GoodEntry
         /\ SetField(e, f, v).sid = e.sid
         /\ SetField(e, f, v).value = [e.value EXCEPT ![f] = v]
         /\ SetField(e, f, v).order = IF Has(e.order, f) THEN e.order ELSE Append(e.order, f)
<1> DEFINE x == SetField(e, f, v)
<1>1. e \in EntryType /\ Proper(e.order) /\ (e.by = "program" => Forgets(e.order))
  BY DEF GoodEntry
<1>2. /\ x.sid = e.sid /\ x.by = e.by /\ x.value = [e.value EXCEPT ![f] = v]
      /\ x.order = IF Has(e.order, f) THEN e.order ELSE Append(e.order, f)
  BY <1>1 DEF SetField, EntryType
<1>3. x.order \in Seq(Fields) /\ Proper(x.order)
  BY <1>1, <1>2, AppendedField DEF EntryType
<1>4. e.by = "program" => Forgets(x.order)
  <2>1. CASE Has(e.order, f)
    BY <1>1, <1>2, <2>1
  <2>2. CASE ~Has(e.order, f)
    <3> SUFFICES ASSUME e.by = "program" PROVE Forgets(Append(e.order, f))
      BY <1>2, <2>2
    <3>1. Has(e.order, "recent") /\ ~Before(e.order, "locked", "recent") /\ f # "recent"
      BY <1>1, <2>2 DEF Forgets
    <3> QED BY <1>1, <2>2, <3>1, AppendedField DEF Forgets, EntryType
  <2> QED BY <2>1, <2>2
<1>5. x \in EntryType
  <2>1. [e.value EXCEPT ![f] = v] \in [Settings -> Values]
    BY <1>1 DEF EntryType
  <2>2. ASSUME NEW o \in Seq(Fields), NEW w \in [Settings -> Values]
        PROVE  [e EXCEPT !.order = o, !.value = w] \in EntryType
    BY <1>1 DEF EntryType
  <2>3. x = [e EXCEPT !.order = x.order, !.value = x.value]
    BY <1>1 DEF SetField, EntryType
  <2> HIDE DEF x
  <2>4. x.order \in Seq(Fields) /\ x.value \in [Settings -> Values]
    BY <1>2, <1>3, <2>1
  <2>5. [e EXCEPT !.order = x.order, !.value = x.value] \in EntryType
    BY <2>2, <2>4
  <2> QED BY <2>3, <2>5, Zenon
<1> HIDE DEF x
<1>6. x \in GoodEntry
  BY <1>2, <1>3, <1>4, <1>5 DEF GoodEntry
<1> QED
  BY <1>2, <1>6 DEF x

\* What the panel writes is a good entry.
LEMMA PanelEntryGood ==
  ASSUME NEW s \in Sids, NEW order \in Layouts
  PROVE  Entry(s, order, "panel") \in GoodEntry
<1>1. order \in Seq(Fields) /\ Proper(order)
  BY UserCatalogAssumption DEF Proper, Has
<1> QED
  BY <1>1, UserCatalogAssumption DEF Entry, GoodEntry, EntryType

\* So is what AddStreamToUserCatchupsArray pushes: it has no "locked".
LEMMA ProgramEntryGood ==
  ASSUME NEW s \in Sids
  PROVE  Entry(s, ProgramLayout, "program") \in GoodEntry
<1>1. /\ Len(ProgramLayout) = 6 /\ DOMAIN ProgramLayout = 1..6
      /\ ProgramLayout[1] = "sid" /\ ProgramLayout[2] = "favorite"
      /\ ProgramLayout[3] = "private" /\ ProgramLayout[4] = "recent"
      /\ ProgramLayout[5] = "interruption_time" /\ ProgramLayout[6] = "_cls"
      /\ ProgramLayout \in Seq(Fields)
  BY DEF ProgramLayout, Fields, Settings
<1>2. \A i \in DOMAIN ProgramLayout : i = 1 \/ i = 2 \/ i = 3 \/ i = 4 \/ i = 5 \/ i = 6
  BY <1>1
<1>3. Proper(ProgramLayout)
  BY <1>1, <1>2 DEF Proper, Has
<1>4. ~Has(ProgramLayout, "locked")
  BY <1>1, <1>2 DEF Has
<1>5. Forgets(ProgramLayout)
  BY <1>1, <1>4 DEF Forgets, Has, Before
<1> QED
  BY <1>1, <1>3, <1>5, UserCatalogAssumption DEF Entry, GoodEntry, EntryType

-----------------------------------------------------------------------------
(***************************************************************************)
(* The types.                                                              *)
(***************************************************************************)

\* The types of what SetRecent's two writes depend on.
CountTypes ==
  /\ stored \in [Sids -> {"absent", "hidden", "visible"}]
  /\ job \in Jobs \cup {NoJob}
  /\ wanted \in [Sids -> [Marks -> Values]]

ArrayTypes ==
  /\ class \in [Sids -> Classes]
  /\ arrays \in [Arrays -> Seq(GoodEntry)]
  /\ viewed \subseteq Sids /\ uncounted \subseteq Sids

\* What is wanted of a stream that is not listed.
LEMMA UnsetType == Unset \in [Marks -> Values] /\ Unset["recent"] = 0
  BY UserCatalogAssumption DEF Unset, Marks

\* Every stream has an array.
LEMMA ArrayOfType == \A s : ArrayOf(s) \in Arrays
  BY DEF ArrayOf, Arrays

\* A job that is to update names a stream, a mark and a value.
LEMMA JobWithUpdate ==
  ASSUME CountTypes, job # NoJob, job.step = "update"
  PROVE  /\ job \in [step : {"update"}, setting : Marks, sid : Sids, value : Values]
         /\ job.setting \in Marks /\ job.setting \in Settings
         /\ job.sid \in Sids /\ job.value \in Values
BY DEF CountTypes, Jobs, Marks, Settings

\* The entry that an update chooses is the first with the id.
LEMMA ChosenIsFirst ==
  ASSUME ArrayTypes, NEW k \in Arrays, NEW s, Holds(k, s)
  PROVE  /\ Chosen(k, s) \in DOMAIN arrays[k] /\ FirstAt(arrays[k], s, Chosen(k, s))
         /\ First(k, s) = arrays[k][Chosen(k, s)]
<1>1. arrays[k] \in Seq(GoodEntry)
  BY DEF ArrayTypes
<1>2. PICK i \in DOMAIN arrays[k] : FirstAt(arrays[k], s, i)
  BY <1>1, HeldIsFirst
<1>3. Chosen(k, s) = i /\ First(k, s) = arrays[k][i]
  BY <1>1, <1>2, FirstIsChosen
<1> QED BY <1>2, <1>3

\* The array an update or the panel writes, with one entry set anew.
LEMMA OneEntrySet ==
  ASSUME NEW q \in Seq(GoodEntry), NEW i \in DOMAIN q, NEW f \in Settings, NEW v \in Values
  PROVE  [q EXCEPT ![i] = SetField(@, f, v)] \in Seq(GoodEntry)
<1>1. q[i] \in GoodEntry
  OBVIOUS
<1>2. SetField(q[i], f, v) \in GoodEntry
  BY <1>1, SetFieldGood
<1> QED BY <1>2

\* The empty arrays have the types.
LEMMA InitTypes == Init => CountTypes /\ ArrayTypes
  BY UnsetType DEF Init, CountTypes, ArrayTypes

\* No step changes the types of job and history.
LEMMA NextCountTypes == CountTypes /\ [Next]_vars => CountTypes'
<1> SUFFICES ASSUME CountTypes, [Next]_vars PROVE CountTypes'
  OBVIOUS
<1> USE UnsetType DEF CountTypes
<1>1. ASSUME NEW f \in Marks, NEW s \in Sids, NEW v \in Values, Request(f, s, v)
      PROVE CountTypes'
  BY <1>1 DEF Request, Jobs
<1>2. CASE UpdateStored
  <2>1. job \in [step : {"update"}, setting : Marks, sid : Sids, value : Values]
    BY <1>2 DEF UpdateStored, Jobs
  <2>2. job' \in Jobs \cup {NoJob}
    BY <1>2, <2>1 DEF UpdateStored, AfterUpdate, Jobs
  <2>3. wanted' \in [Sids -> [Marks -> Values]]
    BY <1>2, <2>1 DEF UpdateStored
  <2> QED BY <1>2, <2>2, <2>3 DEF UpdateStored
<1>3. CASE UpdateLost
  <2>1. job \in [step : {"update"}, setting : Marks, sid : Sids, value : Values]
    BY <1>3 DEF UpdateLost, Jobs
  <2> QED BY <1>3, <2>1 DEF UpdateLost, AfterUpdate, Jobs
<1>4. CASE CountView \/ CountLost
  BY <1>4 DEF CountView, CountLost
<1>5. ASSUME NEW s \in Sids, AddUserCatchup(s) \/ RemoveUserCatchup(s)
      PROVE CountTypes'
  BY <1>5 DEF AddUserCatchup, RemoveUserCatchup
<1>6. CASE Panel
  BY <1>6 DEF Panel, PanelLists, PanelDrops, PanelDeletesStream, PanelSets
<1>7. CASE UNCHANGED vars
  BY <1>7 DEF vars
<1> QED
  BY <1>1, <1>2, <1>3, <1>4, <1>5, <1>6, <1>7 DEF Next

\* Every array stays a sequence of good entries.
LEMMA NextArrayTypes == CountTypes /\ ArrayTypes /\ [Next]_vars => ArrayTypes'
<1> SUFFICES ASSUME CountTypes, ArrayTypes, [Next]_vars PROVE ArrayTypes'
  OBVIOUS
<1>1. ASSUME NEW f \in Marks, NEW s \in Sids, NEW v \in Values, Request(f, s, v)
      PROVE ArrayTypes'
  BY <1>1 DEF Request, ArrayTypes
<1>2. CASE UpdateStored
  <2> DEFINE k == ArrayOf(job.sid)
             i == Chosen(k, job.sid)
  <2>1. k \in Arrays /\ arrays[k] \in Seq(GoodEntry)
    BY ArrayOfType DEF ArrayTypes
  <2>2. CASE Holds(k, job.sid)
    <3>1. i \in DOMAIN arrays[k]
      BY <2>1, <2>2, ChosenIsFirst
    <3>2. arrays' = [arrays EXCEPT ![k] =
                       [arrays[k] EXCEPT ![i] = SetField(@, job.setting, job.value)]]
      BY <1>2, <2>2 DEF UpdateStored
    <3>3. job.setting \in Settings /\ job.value \in Values
      BY <1>2, JobWithUpdate DEF UpdateStored
    <3>4. [arrays[k] EXCEPT ![i] = SetField(@, job.setting, job.value)] \in Seq(GoodEntry)
      BY <2>1, <3>1, <3>3, OneEntrySet
    <3> HIDE DEF k, i
    <3> QED BY <1>2, <2>1, <3>2, <3>4 DEF UpdateStored, ArrayTypes
  <2>3. CASE ~Holds(k, job.sid)
    BY <1>2, <2>3 DEF UpdateStored, ArrayTypes
  <2> QED BY <2>2, <2>3
<1>3. CASE UpdateLost
  BY <1>3 DEF UpdateLost, ArrayTypes
<1>4. CASE CountView \/ CountLost
  BY <1>4 DEF CountView, CountLost, ArrayTypes, CountTypes, Jobs
<1>5. ASSUME NEW s \in Sids, AddUserCatchup(s) PROVE ArrayTypes'
  <2>1. Entry(s, ProgramLayout, "program") \in GoodEntry
    BY ProgramEntryGood
  <2> QED BY <1>5, <2>1 DEF AddUserCatchup, ArrayTypes, Arrays
<1>6. ASSUME NEW s \in Sids, RemoveUserCatchup(s) PROVE ArrayTypes'
  <2>1. Without(arrays["catchups"], s) \in Seq(GoodEntry)
    BY WithoutType DEF ArrayTypes, Arrays
  <2> QED BY <1>6, <2>1 DEF RemoveUserCatchup, ArrayTypes
<1>7. ASSUME NEW s \in Sids, NEW order \in Layouts, PanelLists(s, order) PROVE ArrayTypes'
  <2>1. Entry(s, order, "panel") \in GoodEntry
    BY PanelEntryGood
  <2> QED BY <1>7, <2>1, ArrayOfType DEF PanelLists, ArrayTypes
<1>8. ASSUME NEW s \in Sids, PanelDrops(s) PROVE ArrayTypes'
  <2>1. Without(arrays[ArrayOf(s)], s) \in Seq(GoodEntry)
    BY WithoutType, ArrayOfType DEF ArrayTypes
  <2> QED BY <1>8, <2>1 DEF PanelDrops, ArrayTypes
<1>9. ASSUME NEW s \in Sids, PanelDeletesStream(s) PROVE ArrayTypes'
  BY <1>9 DEF PanelDeletesStream, ArrayTypes
<1>10. ASSUME NEW f \in {"private", "locked"}, NEW k \in Arrays, NEW v \in Values,
              NEW i \in DOMAIN arrays[k], PanelSets(f, k, i, v)
       PROVE  ArrayTypes'
  <2>1. f \in Settings /\ arrays[k] \in Seq(GoodEntry)
    BY DEF Settings, ArrayTypes
  <2>2. arrays' = [arrays EXCEPT ![k] = [arrays[k] EXCEPT ![i] = SetField(@, f, v)]]
    BY <1>10 DEF PanelSets, SetField
  <2>3. [arrays[k] EXCEPT ![i] = SetField(@, f, v)] \in Seq(GoodEntry)
    BY <2>1, OneEntrySet
  <2> QED BY <1>10, <2>2, <2>3 DEF PanelSets, ArrayTypes
<1>11. CASE UNCHANGED vars
  BY <1>11 DEF vars, ArrayTypes
<1> QED
  BY <1>1, <1>2, <1>3, <1>4, <1>5, <1>6, <1>7, <1>8, <1>9, <1>10, <1>11 DEF Next, Panel

\* Both hold of every state.
LEMMA TypesInv == Spec => [](CountTypes /\ ArrayTypes)
  BY InitTypes, NextCountTypes, NextArrayTypes, PTL DEF Spec

\* They are stronger than TypeOK.
LEMMA TypesGood == CountTypes /\ ArrayTypes => TypeOK
<1> SUFFICES ASSUME CountTypes, ArrayTypes PROVE TypeOK
  OBVIOUS
<1>1. ASSUME NEW k \in Arrays PROVE arrays[k] \in Seq(GoodEntry)
  BY DEF ArrayTypes
<1>2. ASSUME NEW k \in Arrays, NEW i \in DOMAIN arrays[k]
      PROVE  arrays[k][i] \in EntryType /\ Proper(arrays[k][i].order)
  <2>1. arrays[k][i] \in GoodEntry
    BY <1>1
  <2> QED BY <2>1 DEF GoodEntry
<1>3. ASSUME NEW k \in Arrays PROVE arrays[k] \in Seq(EntryType)
  BY <1>1, <1>2
<1> QED
  BY <1>2, <1>3 DEF TypeOK, CountTypes, ArrayTypes, Proper

\* Every array is a sequence of entries without a field twice, whatever the
\* setting handlers, generate_catchup, undo_catchup and the panel write.
THEOREM TypeCorrect == Spec => []TypeOK
  BY TypesInv, TypesGood, PTL

\* The iterator does not reach the times of an entry the program pushed.
LEMMA ForgottenTimes == ArrayTypes => CatchupPositionsForgotten
<1> SUFFICES ASSUME ArrayTypes, NEW i \in DOMAIN arrays["catchups"],
                    arrays["catchups"][i].by = "program"
             PROVE  /\ UserStreamInfo(arrays["catchups"][i]).recent = 0
                    /\ UserStreamInfo(arrays["catchups"][i]).interruption_time = 0
  BY DEF CatchupPositionsForgotten
<1> DEFINE e == arrays["catchups"][i]
<1>1. Forgets(e.order)
  BY DEF ArrayTypes, Arrays, GoodEntry
<1>2. /\ DOMAIN ReadingOrder = 1..6
      /\ ReadingOrder[3] = "private" /\ ReadingOrder[4] = "locked"
      /\ ReadingOrder[5] = "recent" /\ ReadingOrder[6] = "interruption_time"
  BY DEF ReadingOrder
<1>3. ~Reads(e.order, "recent") /\ ~Reads(e.order, "interruption_time")
  BY <1>1, <1>2 DEF Reads, Forgets
<1> HIDE DEF e
<1> QED
  BY <1>3 DEF UserStreamInfo, Settings, e

\* The times that set_recent and interrupt_stream_time store for a catchup
\* that the program listed are never shown again: no step of panel or client
\* puts "locked" where makeUserStreamInfo looks for it.
THEOREM PositionsAlwaysForgotten == Spec => []CatchupPositionsForgotten
  BY TypesInv, ForgottenTimes, PTL

-----------------------------------------------------------------------------
(***************************************************************************)
(* The entry that is shown first has what was stored last.                 *)
(***************************************************************************)

\* The first entry of a stream has the marks that were stored last; a stream
\* that is not listed has none.
FirstIsWanted ==
  \A s \in Sids :
    LET q == arrays[ArrayOf(s)]
    IN  /\ \A i \in DOMAIN q : FirstAt(q, s, i) =>
             \A f \in Marks : q[i].value[f] = wanted[s][f]
        /\ (\A i \in DOMAIN q : q[i].sid # s) => wanted[s] = Unset

\* The first entry of t has the same marks in r as in q, if it has one at all.
SameFirst(q, r, t) ==
  /\ \A j \in DOMAIN r : FirstAt(r, t, j) =>
       \E i \in DOMAIN q : FirstAt(q, t, i) /\ \A f \in Marks : r[j].value[f] = q[i].value[f]
  /\ (\A j \in DOMAIN r : r[j].sid # t) => \A i \in DOMAIN q : q[i].sid # t

\* An array that is not written keeps its first entries.
LEMMA SameFirstRefl == \A q, t : SameFirst(q, q, t)
  BY DEF SameFirst

\* $push keeps the first entry of a stream that has one, and of every other.
LEMMA AppendSameFirst ==
  ASSUME NEW S, NEW q \in Seq(S), NEW e \in S, NEW t,
         e.sid # t \/ \E i \in DOMAIN q : q[i].sid = t
  PROVE  SameFirst(q, Append(q, e), t)
<1> DEFINE r == Append(q, e)
<1>1. /\ r \in Seq(S) /\ Len(q) \in Nat /\ DOMAIN q = 1..Len(q)
      /\ DOMAIN r = 1..(Len(q) + 1) /\ r[Len(q) + 1] = e
      /\ \A i \in 1..Len(q) : r[i] = q[i]
  OBVIOUS
<1> HIDE DEF r
<1>2. ASSUME NEW j \in DOMAIN r, FirstAt(r, t, j)
      PROVE  j \in DOMAIN q /\ FirstAt(q, t, j)
  <2>1. j \in DOMAIN q
    <3>1. SUFFICES ASSUME j = Len(q) + 1 PROVE FALSE
      BY <1>1
    <3>2. e.sid = t
      BY <1>1, <1>2, <3>1 DEF FirstAt
    <3>3. PICK i \in DOMAIN q : q[i].sid = t
      BY <3>2
    <3>4. i \in 1..(j - 1) /\ r[i].sid = t
      BY <1>1, <3>1, <3>3
    <3> QED BY <1>2, <3>4 DEF FirstAt
  <2>2. \A k \in 1..(j - 1) : k \in 1..Len(q)
    BY <1>1, <2>1
  <2> QED BY <1>1, <1>2, <2>1, <2>2 DEF FirstAt
<1>3. ASSUME \A j \in DOMAIN r : r[j].sid # t, NEW i \in DOMAIN q PROVE q[i].sid # t
  BY <1>1, <1>3
<1>4. \A j \in DOMAIN r : FirstAt(r, t, j) => r[j] = q[j]
  BY <1>1, <1>2
<1> QED
  BY <1>2, <1>3, <1>4 DEF SameFirst, r

\* $set of a field moves no entry.
LEMMA SetFirstAt ==
  ASSUME NEW q \in Seq(GoodEntry), NEW i \in DOMAIN q, NEW f \in Settings, NEW v \in Values,
         NEW t, NEW j
  PROVE  LET r == [q EXCEPT ![i] = SetField(@, f, v)]
         IN  FirstAt(r, t, j) <=> FirstAt(q, t, j)
<1> DEFINE r == [q EXCEPT ![i] = SetField(@, f, v)]
<1>0. q[i] \in GoodEntry
  OBVIOUS
<1>1. SetField(q[i], f, v).sid = q[i].sid
  BY <1>0, SetFieldGood
<1>2. DOMAIN r = DOMAIN q /\ \A k \in DOMAIN q : r[k].sid = q[k].sid
  BY <1>1
<1>3. DOMAIN q = 1..Len(q) /\ Len(q) \in Nat
  OBVIOUS
<1> HIDE DEF r
<1>4. \A k \in DOMAIN q : \A m \in 1..(k - 1) : m \in DOMAIN q
  BY <1>3
<1>5. FirstAt(r, t, j) <=> FirstAt(q, t, j)
  BY <1>2, <1>4 DEF FirstAt
<1> QED
  BY <1>5 DEF r

\* Setting a field that no client sets, or a field of another stream.
LEMMA SetSameFirst ==
  ASSUME NEW q \in Seq(GoodEntry), NEW i \in DOMAIN q, NEW f \in Settings, NEW v \in Values,
         NEW t, f \notin Marks \/ q[i].sid # t
  PROVE  SameFirst(q, [q EXCEPT ![i] = SetField(@, f, v)], t)
<1> DEFINE r == [q EXCEPT ![i] = SetField(@, f, v)]
<1>1. q[i] \in GoodEntry /\ q[i].value \in [Settings -> Values]
  BY DEF GoodEntry, EntryType
<1>2. /\ SetField(q[i], f, v).sid = q[i].sid
      /\ SetField(q[i], f, v).value = [q[i].value EXCEPT ![f] = v]
  BY <1>1, SetFieldGood
<1>3. DOMAIN r = DOMAIN q /\ \A k \in DOMAIN q : r[k].sid = q[k].sid
  BY <1>2
<1>4. \A k \in DOMAIN q : k # i => r[k] = q[k]
  OBVIOUS
<1>5. r[i].value = [q[i].value EXCEPT ![f] = v]
  BY <1>2
<1>6. \A j : FirstAt(r, t, j) <=> FirstAt(q, t, j)
  BY SetFirstAt
<1> HIDE DEF r
<1>7. ASSUME NEW j \in DOMAIN q, FirstAt(q, t, j), NEW g \in Marks
      PROVE  r[j].value[g] = q[j].value[g]
  <2>1. CASE j # i
    BY <1>4, <2>1
  <2>2. CASE j = i
    <3>1. f # g
      BY <1>7, <2>2 DEF FirstAt
    <3> QED BY <1>1, <1>5, <2>2, <3>1 DEF Marks, Settings
  <2> QED BY <2>1, <2>2
<1> QED
  BY <1>3, <1>6, <1>7 DEF SameFirst, r

\* $pull keeps the marks of the first entry of every other stream.
LEMMA WithoutSameFirst ==
  ASSUME NEW S, NEW q \in Seq(S), NEW s, NEW t, s # t
  PROVE  SameFirst(q, Without(q, s), t)
<1> DEFINE r == Without(q, s)
<1>1. r \in Seq(S)
  BY WithoutType
<1>2. ASSUME NEW i \in DOMAIN q, q[i].sid = t
      PROVE  \E k \in DOMAIN q, n \in DOMAIN r :
               FirstAt(q, t, k) /\ FirstAt(r, t, n) /\ r[n] = q[k]
  <2>1. PICK k \in DOMAIN q : FirstAt(q, t, k)
    BY <1>2, FirstExists
  <2> QED BY <2>1, WithoutFirst
<1>3. ASSUME NEW j \in DOMAIN r, FirstAt(r, t, j)
      PROVE  \E k \in DOMAIN q : FirstAt(q, t, k) /\ r[j] = q[k]
  <2>1. PICK i \in DOMAIN q : r[j] = q[i]
    BY WithoutType
  <2>2. q[i].sid = t
    BY <1>3, <2>1 DEF FirstAt
  <2>3. PICK k \in DOMAIN q, n \in DOMAIN r :
          FirstAt(q, t, k) /\ FirstAt(r, t, n) /\ r[n] = q[k]
    BY <1>2, <2>2
  <2>4. n = j
    BY <1>1, <1>3, <2>3, FirstUnique
  <2> QED BY <2>3, <2>4
<1> HIDE DEF r
<1>4. ASSUME \A j \in DOMAIN r : r[j].sid # t, NEW i \in DOMAIN q PROVE q[i].sid # t
  BY <1>2, <1>4 DEF FirstAt
<1> QED
  BY <1>3, <1>4 DEF SameFirst, r

\* A step that keeps the first entry of a stream, and what was stored last.
LEMMA FirstStays ==
  ASSUME FirstIsWanted, NEW t \in Sids, ArrayOf(t)' = ArrayOf(t), wanted'[t] = wanted[t],
         SameFirst(arrays[ArrayOf(t)], arrays'[ArrayOf(t)], t)
  PROVE  LET q == arrays'[ArrayOf(t)']
         IN  /\ \A i \in DOMAIN q : FirstAt(q, t, i) =>
                  \A f \in Marks : q[i].value[f] = wanted'[t][f]
             /\ (\A i \in DOMAIN q : q[i].sid # t) => wanted'[t] = Unset
BY DEF FirstIsWanted, SameFirst

\* Nothing is listed at the start.
LEMMA InitWanted == Init => FirstIsWanted
  BY ArrayOfType DEF Init, FirstIsWanted

\* An entry appended for a stream that was not listed is its first.
LEMMA AppendedFirst ==
  ASSUME NEW q \in Seq(GoodEntry), NEW e \in GoodEntry, NEW t, e.sid = t,
         \A i \in DOMAIN q : q[i].sid # t, e.value = [g \in Settings |-> 0]
  PROVE  LET r == Append(q, e)
         IN  /\ \A i \in DOMAIN r : FirstAt(r, t, i) =>
                  \A f \in Marks : r[i].value[f] = Unset[f]
             /\ \E i \in DOMAIN r : r[i].sid = t
<1> DEFINE r == Append(q, e)
<1>1. /\ Len(q) \in Nat /\ DOMAIN r = 1..(Len(q) + 1) /\ r[Len(q) + 1] = e
      /\ \A i \in 1..Len(q) : i \in DOMAIN q /\ r[i] = q[i]
  OBVIOUS
<1> HIDE DEF r
<1>2. ASSUME NEW i \in DOMAIN r, FirstAt(r, t, i) PROVE i = Len(q) + 1
  BY <1>1, <1>2 DEF FirstAt
<1>3. \A f \in Marks : e.value[f] = Unset[f]
  BY DEF Unset, Marks, Settings
<1>4. Len(q) + 1 \in DOMAIN r
  BY <1>1
<1> QED
  BY <1>1, <1>2, <1>3, <1>4 DEF r

\* Every step keeps the marks of first entries, or stores them as wanted.
LEMMA NextWanted == CountTypes /\ ArrayTypes /\ FirstIsWanted /\ [Next]_vars => FirstIsWanted'
<1> SUFFICES ASSUME CountTypes, ArrayTypes, FirstIsWanted, [Next]_vars, NEW t \in Sids
             PROVE  LET q == arrays'[ArrayOf(t)']
                    IN  /\ \A i \in DOMAIN q : FirstAt(q, t, i) =>
                             \A f \in Marks : q[i].value[f] = wanted'[t][f]
                        /\ (\A i \in DOMAIN q : q[i].sid # t) => wanted'[t] = Unset
  BY DEF FirstIsWanted
<1> DEFINE Goal == LET q == arrays'[ArrayOf(t)']
                   IN  /\ \A i \in DOMAIN q : FirstAt(q, t, i) =>
                            \A f \in Marks : q[i].value[f] = wanted'[t][f]
                       /\ (\A i \in DOMAIN q : q[i].sid # t) => wanted'[t] = Unset
<1>a. \A s : ArrayOf(s) \in Arrays /\ arrays[ArrayOf(s)] \in Seq(GoodEntry)
  BY ArrayOfType DEF ArrayTypes
<1>b. ASSUME UNCHANGED class PROVE ArrayOf(t)' = ArrayOf(t)
  BY <1>b DEF ArrayOf
<1>1. ASSUME UNCHANGED <<class, arrays, wanted>> PROVE Goal
  BY <1>1, <1>b, SameFirstRefl, FirstStays
<1>2. ASSUME UpdateStored PROVE Goal
  <2> DEFINE s == job.sid
             k == ArrayOf(s)
             i == Chosen(k, s)
             f == job.setting
             q == arrays[k]
             r == [q EXCEPT ![i] = SetField(@, f, job.value)]
  <2>1. f \in Marks /\ f \in Settings /\ job.value \in Values /\ s \in Sids
    BY <1>2, JobWithUpdate DEF UpdateStored
  <2>2. CASE ~Holds(k, s)
    <3>1. UNCHANGED <<class, arrays, wanted>>
      BY <1>2, <2>2 DEF UpdateStored
    <3> QED BY <1>1, <3>1
  <2>3. CASE Holds(k, s)
    <3>1. /\ arrays' = [arrays EXCEPT ![k] = r]
          /\ wanted' = [wanted EXCEPT ![s][f] = job.value]
          /\ UNCHANGED class
      BY <1>2, <2>3 DEF UpdateStored
    <3>2. i \in DOMAIN q /\ FirstAt(q, s, i) /\ q \in Seq(GoodEntry)
      BY <1>a, <2>3, ChosenIsFirst
    <3>3. arrays'[k] = r /\ \A l \in Arrays \ {k} : arrays'[l] = arrays[l]
      BY <1>a, <3>1 DEF ArrayTypes
    <3>4. q[i].sid = s
      BY <3>2 DEF FirstAt
    <3>5. CASE s # t
      <4>1. SameFirst(q, r, t)
        BY <2>1, <3>2, <3>4, <3>5, SetSameFirst
      <4>2. SameFirst(arrays[ArrayOf(t)], arrays'[ArrayOf(t)], t)
        BY <1>a, <3>3, <4>1, SameFirstRefl
      <4>3. wanted'[t] = wanted[t]
        BY <3>1, <3>5 DEF CountTypes
      <4> QED BY <1>b, <3>1, <4>2, <4>3, FirstStays
    <3>6. CASE s = t
      <4>1. \A j : FirstAt(r, t, j) <=> FirstAt(q, t, j)
        BY <2>1, <3>2, SetFirstAt
      <4>2. ASSUME NEW j \in DOMAIN r, FirstAt(r, t, j) PROVE j = i
        BY <3>2, <3>6, <4>1, <4>2, FirstUnique
      <4>3. q[i] \in GoodEntry /\ q[i].value \in [Settings -> Values]
        BY <3>2 DEF GoodEntry, EntryType
      <4>4. r[i].value = [q[i].value EXCEPT ![f] = job.value]
        BY <2>1, <3>2, <4>3, SetFieldGood
      <4>5. \A g \in Marks : q[i].value[g] = wanted[t][g]
        BY <3>2, <3>6 DEF FirstIsWanted
      <4>6. ASSUME NEW g \in Marks PROVE r[i].value[g] = wanted'[t][g]
        BY <2>1, <3>1, <3>6, <4>3, <4>4, <4>5 DEF CountTypes, Marks, Settings
      <4>7. i \in DOMAIN r /\ r[i].sid = t
        BY <3>2, <3>6, <4>1 DEF FirstAt
      <4>8. arrays'[ArrayOf(t)'] = r
        BY <1>b, <3>1, <3>3, <3>6
      <4> HIDE DEF r, q, k, i, f, s
      <4> QED BY <4>2, <4>6, <4>7, <4>8
    <3> QED BY <3>5, <3>6
  <2> QED BY <2>2, <2>3
<1>3. ASSUME NEW s \in Sids, AddUserCatchup(s) PROVE Goal
  <2> DEFINE e == Entry(s, ProgramLayout, "program")
             q == arrays["catchups"]
  <2>1. /\ arrays' = [arrays EXCEPT !["catchups"] = Append(@, e)]
        /\ class[s] = "catchup" /\ UNCHANGED <<class, wanted>>
    BY <1>3 DEF AddUserCatchup
  <2>2. e \in GoodEntry /\ e.sid = s /\ q \in Seq(GoodEntry) /\ "catchups" \in Arrays
        /\ e.value = [g \in Settings |-> 0]
    BY ProgramEntryGood DEF ArrayTypes, Arrays, Entry
  <2>3. ArrayOf(s) = "catchups"
    BY <2>1 DEF ArrayOf, IsVod
  <2>4. arrays'["catchups"] = Append(q, e) /\ \A l \in Arrays \ {"catchups"} : arrays'[l] = arrays[l]
    BY <2>1, <2>2 DEF ArrayTypes
  <2> HIDE DEF e, q
  <2>5. CASE s # t \/ \E i \in DOMAIN q : q[i].sid = t
    <3>1. SameFirst(q, Append(q, e), t)
      BY <2>2, <2>5, AppendSameFirst
    <3>2. SameFirst(arrays[ArrayOf(t)], arrays'[ArrayOf(t)], t)
      BY <1>a, <2>4, <3>1, SameFirstRefl DEF q
    <3> QED BY <1>b, <2>1, <3>2, FirstStays
  <2>6. CASE s = t /\ \A i \in DOMAIN q : q[i].sid # t
    BY <1>b, <2>1, <2>2, <2>3, <2>4, <2>6, AppendedFirst DEF FirstIsWanted, q
  <2> QED BY <2>5, <2>6
<1>4. ASSUME NEW s \in Sids, RemoveUserCatchup(s) PROVE Goal
  <2>1. /\ arrays' = [arrays EXCEPT !["catchups"] = Without(@, s)]
        /\ wanted' = IF class[s] = "catchup" THEN [wanted EXCEPT ![s] = Unset] ELSE wanted
        /\ UNCHANGED class
    BY <1>4 DEF RemoveUserCatchup
  <2>2. /\ arrays'["catchups"] = Without(arrays["catchups"], s)
        /\ \A l \in Arrays \ {"catchups"} : arrays'[l] = arrays[l]
    BY <2>1 DEF ArrayTypes, Arrays
  <2>3. arrays["catchups"] \in Seq(GoodEntry)
    BY DEF ArrayTypes, Arrays
  <2>4. CASE s # t
    <3>1. SameFirst(arrays[ArrayOf(t)], arrays'[ArrayOf(t)], t)
      BY <1>a, <2>2, <2>3, <2>4, SameFirstRefl, WithoutSameFirst
    <3>2. wanted'[t] = wanted[t]
      BY <2>1, <2>4 DEF CountTypes
    <3> QED BY <1>b, <2>1, <3>1, <3>2, FirstStays
  <2>5. CASE s = t /\ class[s] = "catchup"
    <3>1. ArrayOf(t)' = "catchups"
      BY <1>b, <2>1, <2>5 DEF ArrayOf, IsVod
    <3>2. wanted'[t] = Unset
      BY <2>1, <2>5 DEF CountTypes
    <3> QED BY <2>2, <2>3, <2>5, <3>1, <3>2, WithoutType DEF FirstAt
  <2>6. CASE s = t /\ class[s] # "catchup"
    <3>1. ArrayOf(t) \in Arrays \ {"catchups"}
      BY <1>a, <2>6 DEF ArrayOf, IsVod
    <3>2. SameFirst(arrays[ArrayOf(t)], arrays'[ArrayOf(t)], t)
      BY <2>2, <3>1, SameFirstRefl
    <3> QED BY <1>b, <2>1, <2>6, <3>2, FirstStays
  <2> QED BY <2>4, <2>5, <2>6
<1>5. ASSUME NEW s \in Sids, NEW order \in Layouts, PanelLists(s, order) PROVE Goal
  <2> DEFINE e == Entry(s, order, "panel")
             k == ArrayOf(s)
             q == arrays[k]
  <2>1. /\ arrays' = [arrays EXCEPT ![k] = Append(@, e)]
        /\ ~Holds(k, s) /\ UNCHANGED <<class, wanted>>
    BY <1>5 DEF PanelLists
  <2>2. e \in GoodEntry /\ e.sid = s /\ e.value = [g \in Settings |-> 0]
    BY PanelEntryGood DEF Entry
  <2>3. q \in Seq(GoodEntry) /\ k \in Arrays
    BY <1>a
  <2>4. arrays'[k] = Append(q, e) /\ \A l \in Arrays \ {k} : arrays'[l] = arrays[l]
    BY <2>1, <2>3 DEF ArrayTypes
  <2>5. \A i \in DOMAIN q : q[i].sid # s
    BY <2>1, NotHeld
  <2> HIDE DEF e
  <2>6. CASE s # t
    <3>1. SameFirst(q, Append(q, e), t)
      BY <2>2, <2>3, <2>6, AppendSameFirst
    <3>2. SameFirst(arrays[ArrayOf(t)], arrays'[ArrayOf(t)], t)
      BY <1>a, <2>4, <3>1, SameFirstRefl
    <3> QED BY <1>b, <2>1, <3>2, FirstStays
  <2>7. CASE s = t
    <3>1. wanted'[t] = Unset
      BY <2>1, <2>5, <2>7 DEF FirstIsWanted
    <3>2. arrays'[ArrayOf(t)'] = Append(q, e)
      BY <1>b, <2>1, <2>4, <2>7
    <3> HIDE DEF q, k
    <3>3. /\ \A i \in DOMAIN Append(q, e) : FirstAt(Append(q, e), t, i) =>
               \A f \in Marks : Append(q, e)[i].value[f] = Unset[f]
          /\ \E i \in DOMAIN Append(q, e) : Append(q, e)[i].sid = t
      BY <2>2, <2>3, <2>5, <2>7, AppendedFirst
    <3> QED BY <3>1, <3>2, <3>3
  <2> QED BY <2>6, <2>7
<1>6. ASSUME NEW s \in Sids, PanelDrops(s) PROVE Goal
  <2> DEFINE k == ArrayOf(s)
  <2>1. /\ arrays' = [arrays EXCEPT ![k] = Without(@, s)]
        /\ wanted' = [wanted EXCEPT ![s] = Unset]
        /\ UNCHANGED class
    BY <1>6 DEF PanelDrops
  <2>2. k \in Arrays /\ arrays[k] \in Seq(GoodEntry)
    BY <1>a
  <2>3. arrays'[k] = Without(arrays[k], s) /\ \A l \in Arrays \ {k} : arrays'[l] = arrays[l]
    BY <2>1, <2>2 DEF ArrayTypes
  <2>4. CASE s # t
    <3>1. SameFirst(arrays[ArrayOf(t)], arrays'[ArrayOf(t)], t)
      BY <1>a, <2>2, <2>3, <2>4, SameFirstRefl, WithoutSameFirst
    <3>2. wanted'[t] = wanted[t]
      BY <2>1, <2>4 DEF CountTypes
    <3> QED BY <1>b, <2>1, <3>1, <3>2, FirstStays
  <2>5. CASE s = t
    <3>1. ArrayOf(t)' = k
      BY <1>b, <2>1, <2>5
    <3>2. wanted'[t] = Unset
      BY <2>1, <2>5 DEF CountTypes
    <3> QED BY <2>2, <2>3, <2>5, <3>1, <3>2, WithoutType DEF FirstAt
  <2> QED BY <2>4, <2>5
<1>7. ASSUME NEW f \in {"private", "locked"}, NEW k \in Arrays, NEW v \in Values,
             NEW i \in DOMAIN arrays[k], PanelSets(f, k, i, v)
      PROVE  Goal
  <2>1. arrays' = [arrays EXCEPT ![k] = [arrays[k] EXCEPT ![i] = SetField(@, f, v)]]
        /\ UNCHANGED <<class, wanted>>
    BY <1>7 DEF PanelSets, SetField
  <2>2. arrays[k] \in Seq(GoodEntry) /\ f \in Settings /\ f \notin Marks
    BY DEF ArrayTypes, Settings, Marks
  <2>3. /\ arrays'[k] = [arrays[k] EXCEPT ![i] = SetField(@, f, v)]
        /\ \A l \in Arrays \ {k} : arrays'[l] = arrays[l]
    BY <2>1 DEF ArrayTypes
  <2>4. SameFirst(arrays[k], arrays'[k], t)
    BY <2>2, <2>3, SetSameFirst
  <2>5. SameFirst(arrays[ArrayOf(t)], arrays'[ArrayOf(t)], t)
    BY <1>a, <2>3, <2>4, SameFirstRefl
  <2> QED BY <1>b, <2>1, <2>5, FirstStays
<1> HIDE DEF Goal
<1>8. ASSUME UNCHANGED vars PROVE Goal
  <2>1. UNCHANGED <<class, arrays, wanted>>
    BY <1>8 DEF vars
  <2> QED BY <1>1, <2>1
<1>9. ASSUME \/ \E f \in Marks, s \in Sids, v \in Values : Request(f, s, v)
             \/ UpdateLost \/ CountView \/ CountLost
             \/ \E s \in Sids : PanelDeletesStream(s)
      PROVE  Goal
  <2>1. UNCHANGED <<class, arrays, wanted>>
    BY <1>9 DEF Request, UpdateLost, CountView, CountLost, PanelDeletesStream
  <2> QED BY <1>1, <2>1
<1>10. ASSUME Panel PROVE Goal
  <2>1. \/ \E s \in Sids, order \in Layouts : PanelLists(s, order)
        \/ \E s \in Sids : PanelDrops(s)
        \/ \E s \in Sids : PanelDeletesStream(s)
        \/ \E f \in {"private", "locked"}, k \in Arrays, v \in Values :
             \E i \in DOMAIN arrays[k] : PanelSets(f, k, i, v)
    BY <1>10 DEF Panel
  <2> QED BY <1>5, <1>6, <1>7, <1>9, <2>1
<1>11. Goal
  <2>1. \/ \E f \in Marks, s \in Sids, v \in Values : Request(f, s, v)
        \/ UpdateStored \/ UpdateLost \/ CountView \/ CountLost
        \/ \E s \in Sids : AddUserCatchup(s)
        \/ \E s \in Sids : RemoveUserCatchup(s)
        \/ Panel \/ UNCHANGED vars
    BY DEF Next
  <2> QED BY <1>2, <1>3, <1>4, <1>8, <1>9, <1>10, <2>1
<1> QED
  BY <1>11 DEF Goal

\* The strengthening holds of every state.
LEMMA WantedInv == Spec => [](CountTypes /\ ArrayTypes /\ FirstIsWanted)
  BY TypesInv, InitWanted, NextWanted, PTL DEF Spec

-----------------------------------------------------------------------------
(***************************************************************************)
(* What is read of an entry.                                               *)
(***************************************************************************)

\* The places of the six fields in the reading order.
LEMMA ReadingOrderPlaces ==
  /\ DOMAIN ReadingOrder = 1..6
  /\ ReadingOrder[1] = "sid" /\ ReadingOrder[2] = "favorite"
  /\ ReadingOrder[3] = "private" /\ ReadingOrder[4] = "locked"
  /\ ReadingOrder[5] = "recent" /\ ReadingOrder[6] = "interruption_time"
  /\ \A m, n \in 1..6 : ReadingOrder[m] = ReadingOrder[n] => m = n
  /\ \A f \in Settings : \E n \in 2..6 : ReadingOrder[n] = f
BY DEF ReadingOrder, Settings

\* The first n fields of the reading order are found one behind the other.
FoundUpTo(order, n) ==
  \A i, j \in 1..n :
    /\ Has(order, ReadingOrder[j])
    /\ i < j => Before(order, ReadingOrder[i], ReadingOrder[j])

\* A field is read if all of the order up to it is found.
LEMMA ReadsPlace ==
  ASSUME NEW order, NEW n \in 1..6
  PROVE  Reads(order, ReadingOrder[n]) <=> FoundUpTo(order, n)
BY ReadingOrderPlaces DEF Reads, FoundUpTo

\* An entry that can be read to its end shows every field.
LEMMA ReadToItsEnd ==
  ASSUME NEW order, Reads(order, "interruption_time")
  PROVE  \A f \in Settings : Reads(order, f)
<1>1. FoundUpTo(order, 6)
  BY ReadingOrderPlaces, ReadsPlace
<1>2. ASSUME NEW n \in 1..6 PROVE FoundUpTo(order, n)
  BY <1>1 DEF FoundUpTo
<1> QED
  BY <1>2, ReadingOrderPlaces, ReadsPlace

\* A field before another one is there.
LEMMA BeforeHas == \A order, f, g : Before(order, f, g) => Has(order, f)
  BY DEF Before, Has

\* A field that is appended changes the reading of no other field.
LEMMA AppendedReads ==
  ASSUME NEW order \in Seq(Fields), NEW g \in Settings, ~Has(order, g),
         NEW f \in Settings, f # g
  PROVE  Reads(Append(order, g), f) <=> Reads(order, f)
<1> DEFINE long == Append(order, g)
<1>1. PICK n \in 1..6 : ReadingOrder[n] = f
  BY ReadingOrderPlaces
<1>2. PICK m \in 1..6 : ReadingOrder[m] = g
  BY ReadingOrderPlaces
<1>3. /\ \A x : Has(long, x) <=> Has(order, x) \/ x = g
      /\ \A x, y : Before(long, x, y) <=> Before(order, x, y) \/ (Has(order, x) /\ y = g)
  BY AppendedField
<1>4. m # n
  BY <1>1, <1>2
<1> HIDE DEF long
<1>5. CASE m < n
  <2>1. m \in 1..n /\ n \in 1..n
    BY <1>5
  <2>2. ~Before(order, g, f) /\ ~Before(long, g, f)
    BY <1>3, BeforeHas
  <2>3. ~FoundUpTo(order, n) /\ ~FoundUpTo(long, n)
    BY <1>1, <1>2, <1>5, <2>1, <2>2 DEF FoundUpTo
  <2> QED BY <1>1, <2>3, ReadsPlace DEF long
<1>6. CASE n < m
  <2>1. \A j \in 1..n : ReadingOrder[j] # g
    BY <1>2, <1>6, ReadingOrderPlaces
  <2>2. FoundUpTo(long, n) <=> FoundUpTo(order, n)
    BY <1>3, <2>1 DEF FoundUpTo
  <2> QED BY <1>1, <2>2, ReadsPlace DEF long
<1> QED
  BY <1>4, <1>5, <1>6

\* $set of one field changes what is shown of no other.
LEMMA SetFieldShowsOne ==
  ASSUME NEW e \in GoodEntry, NEW g \in Settings, NEW v \in Values,
         NEW f \in Settings, f # g
  PROVE  UserStreamInfo(SetField(e, g, v))[f] = UserStreamInfo(e)[f]
<1> DEFINE x == SetField(e, g, v)
<1>1. e.order \in Seq(Fields) /\ e.value \in [Settings -> Values]
  BY DEF GoodEntry, EntryType
<1>2. /\ x.value = [e.value EXCEPT ![g] = v]
      /\ x.order = IF Has(e.order, g) THEN e.order ELSE Append(e.order, g)
  BY SetFieldGood
<1> HIDE DEF x
<1>3. x.value[f] = e.value[f]
  BY <1>1, <1>2
<1>4. Reads(x.order, f) <=> Reads(e.order, f)
  BY <1>1, <1>2, AppendedReads
<1>5. UserStreamInfo(x)[f] = UserStreamInfo(e)[f]
  BY <1>3, <1>4 DEF UserStreamInfo
<1> QED
  BY <1>5 DEF x

\* An update changes what is shown of one entry, and of that one field.
LEMMA RequestChangesOne ==
  ASSUME CountTypes, ArrayTypes, UpdateStored, NEW k \in Arrays
  PROVE  /\ DOMAIN arrays'[k] = DOMAIN arrays[k]
         /\ \A i \in DOMAIN arrays[k], f \in Settings :
              f # job.setting \/ arrays[k][i].sid # job.sid =>
                UserStreamInfo(arrays'[k][i])[f] = UserStreamInfo(arrays[k][i])[f]
<1> DEFINE s == job.sid
           c == Chosen(k, s)
           q == arrays[k]
           r == [q EXCEPT ![c] = SetField(@, job.setting, job.value)]
<1>1. job.setting \in Settings /\ job.value \in Values
  BY JobWithUpdate DEF UpdateStored
<1>2. q \in Seq(GoodEntry)
  BY DEF ArrayTypes
<1>3. CASE k = ArrayOf(s) /\ Holds(k, s)
  <2>1. arrays' = [arrays EXCEPT ![k] = r]
    BY <1>3 DEF UpdateStored
  <2>2. arrays'[k] = r
    BY <2>1 DEF ArrayTypes
  <2>3. c \in DOMAIN q /\ q[c].sid = s
    BY <1>3, ChosenIsFirst DEF FirstAt
  <2>4. DOMAIN r = DOMAIN q /\ \A i \in DOMAIN q : i # c => r[i] = q[i]
    BY <1>2
  <2>5. r[c] = SetField(q[c], job.setting, job.value) /\ q[c] \in GoodEntry
    BY <1>2, <2>3
  <2> HIDE DEF r, q, c, s
  <2>6. \A f \in Settings : f # job.setting => UserStreamInfo(r[c])[f] = UserStreamInfo(q[c])[f]
    BY <1>1, <2>5, SetFieldShowsOne
  <2>7. ASSUME NEW i \in DOMAIN q, NEW f \in Settings, f # job.setting \/ q[i].sid # s
        PROVE  UserStreamInfo(r[i])[f] = UserStreamInfo(q[i])[f]
    BY <2>3, <2>4, <2>6, <2>7
  <2> QED BY <2>2, <2>4, <2>7 DEF q, s
<1>4. CASE ~(k = ArrayOf(s) /\ Holds(k, s))
  <2>1. arrays'[k] = arrays[k]
    BY <1>4 DEF UpdateStored, ArrayTypes
  <2> QED BY <2>1
<1> QED
  BY <1>3, <1>4

\* A request of a client changes nothing in the answer but the one setting it
\* names, of the one stream: $set of one field moves no item between the
\* private and the public list and uncovers no field of any layout of entries.
THEOREM RequestsSetOneField == Spec => RequestSetsOneField
<1>1. CountTypes /\ ArrayTypes =>
        [\A k \in Arrays : UpdateStored =>
           /\ DOMAIN arrays'[k] = DOMAIN arrays[k]
           /\ \A i \in DOMAIN arrays[k], f \in Settings :
                f # job.setting \/ arrays[k][i].sid # job.sid =>
                  UserStreamInfo(arrays'[k][i])[f] = UserStreamInfo(arrays[k][i])[f]]_vars
  BY RequestChangesOne
<1> QED
  BY <1>1, TypesInv, PTL DEF RequestSetsOneField

\* The places of an array whose entries make the items of one list.
Shown(k, priv) ==
  {i \in DOMAIN arrays[k] :
     /\ Listed(k, arrays[k][i])
     /\ k # "catchups" => UserStreamInfo(arrays[k][i]).private = priv}

\* The items of a list are made from the entries at these places.
LEMMA AnswerOfShown ==
  ASSUME NEW k, NEW priv
  PROVE  Answer(k, priv) = [i \in DOMAIN Kept(arrays[k], Shown(k, priv)) |->
                              Item(Kept(arrays[k], Shown(k, priv))[i])]
BY DEF Answer, Shown

\* The first entry of a stream makes the first item with its id.
LEMMA FirstIsShown ==
  ASSUME ArrayTypes, FirstIsWanted, NEW s \in Sids,
         Holds(ArrayOf(s), s), Listed(ArrayOf(s), First(ArrayOf(s), s)),
         Shows(First(ArrayOf(s), s), "interruption_time")
  PROVE  LET k == ArrayOf(s)
             list == Answer(k, UserStreamInfo(First(k, s)).private)
         IN  \E i \in DOMAIN list :
               /\ list[i].sid = s
               /\ \A j \in 1..(i - 1) : list[j].sid # s
               /\ \A f \in Marks : list[i].info[f] = wanted[s][f]
<1> DEFINE k == ArrayOf(s)
           q == arrays[k]
           c == Chosen(k, s)
           e == First(k, s)
           I == Shown(k, UserStreamInfo(e).private)
           p == Kept(q, I)
           list == Answer(k, UserStreamInfo(e).private)
<1>1. k \in Arrays /\ q \in Seq(GoodEntry)
  BY ArrayOfType DEF ArrayTypes
<1>2. c \in DOMAIN q /\ FirstAt(q, s, c) /\ e = q[c]
  BY <1>1, ChosenIsFirst
<1>3. \A f \in Marks : e.value[f] = wanted[s][f]
  BY <1>2 DEF FirstIsWanted
<1>4. \A f \in Marks : UserStreamInfo(e)[f] = e.value[f]
  BY ReadToItsEnd DEF Shows, UserStreamInfo, Marks, Settings
<1>5. Listed(k, e)
  OBVIOUS
<1> HIDE DEF e, c
<1>6. c \in I /\ I \in SUBSET DOMAIN q
  BY <1>2, <1>5 DEF Shown
<1>7. list = [i \in DOMAIN p |-> Item(p[i])]
  BY AnswerOfShown
<1> HIDE DEF q, k, I, list
<1>8. PICK n \in DOMAIN p : FirstAt(p, s, n) /\ p[n] = e
  BY <1>1, <1>2, <1>6, KeptFirst
<1>9. DOMAIN p = 1..Len(p) /\ Len(p) \in Nat
  BY <1>1, <1>6, KeptType
<1> HIDE DEF p
<1>10. n \in DOMAIN list /\ list[n] = Item(e)
  BY <1>7, <1>8
<1>11. ASSUME NEW j \in 1..(n - 1) PROVE list[j].sid # s
  <2>1. j \in DOMAIN p /\ p[j].sid # s
    BY <1>8, <1>9 DEF FirstAt
  <2> QED BY <1>7, <2>1 DEF Item
<1>12. list[n].sid = s /\ list[n].info = UserStreamInfo(e)
  BY <1>2, <1>10 DEF Item, FirstAt
<1> QED
  BY <1>3, <1>4, <1>10, <1>11, <1>12 DEF list, k, e

\* That entry has the marks stored last.
LEMMA WantedIsShown == ArrayTypes /\ FirstIsWanted => LastStoredShown
  BY FirstIsShown DEF LastStoredShown

\* What a request stored last is what the user is shown: the first item of the
\* stream in the list that ClientGetChannels answers is made from the entry
\* that the positional $set of UpdateStored chose, however the entries of the
\* other streams, of the same stream and the panel's edits lie around it.
THEOREM LastStoredAlwaysShown == Spec => []LastStoredShown
  BY WantedInv, WantedIsShown, PTL

-----------------------------------------------------------------------------
(***************************************************************************)
(* A view is counted for every recent time.  The arrays do not matter: a   *)
(* time is remembered in "wanted" only while its entry is listed.          *)
(***************************************************************************)

Counting(s) == job # NoJob /\ job.step = "count" /\ job.sid = s

\* RecentIsCounted without the entry, which makes it inductive.
Counted ==
  \A s \in Sids : wanted[s]["recent"] # 0 /\ stored[s] # "absent" =>
    s \in viewed \cup uncounted \/ Counting(s)

\* Nothing was requested at the start.
LEMMA InitCounts == Init => Counted
  BY UserCatalogAssumption DEF Init, Counted, Unset, Marks

\* A recent time is stored by a job that goes on to count; what ends that job
\* counts the view or notes that it failed.
LEMMA NextCounted == CountTypes /\ Counted /\ [Next]_vars => Counted'
<1> SUFFICES ASSUME CountTypes, Counted, [Next]_vars,
                    NEW t \in Sids, wanted'[t]["recent"] # 0, stored'[t] # "absent"
             PROVE  (t \in viewed \cup uncounted \/ Counting(t))'
  BY DEF Counted
<1> USE UnsetType DEF CountTypes, Counted, Counting
<1>1. ASSUME NEW f \in Marks, NEW s \in Sids, NEW v \in Values, Request(f, s, v)
      PROVE (t \in viewed \cup uncounted \/ Counting(t))'
  BY <1>1 DEF Request
<1>2. CASE UpdateStored
  <2>1. job \in [step : {"update"}, setting : Marks, sid : Sids, value : Values]
    BY <1>2 DEF UpdateStored, Jobs
  <2>2. CASE wanted[t]["recent"] # 0
    BY <1>2, <2>2 DEF UpdateStored
  <2>3. CASE wanted[t]["recent"] = 0
    <3>1. job.sid = t /\ job.setting = "recent"
      BY <1>2, <2>1, <2>3 DEF UpdateStored, Marks
    <3>2. job' = [step |-> "count", sid |-> t]
      BY <1>2, <3>1 DEF UpdateStored, AfterUpdate
    <3>3. job' # NoJob
      BY <3>2, UserCatalogAssumption DEF Jobs
    <3> QED BY <3>2, <3>3
  <2> QED BY <2>2, <2>3
<1>3. CASE UpdateLost
  BY <1>3 DEF UpdateLost
<1>4. CASE CountView
  BY <1>4 DEF CountView
<1>5. CASE CountLost
  BY <1>5 DEF CountLost
<1>6. ASSUME NEW s \in Sids, AddUserCatchup(s) \/ RemoveUserCatchup(s)
      PROVE (t \in viewed \cup uncounted \/ Counting(t))'
  BY <1>6 DEF AddUserCatchup, RemoveUserCatchup
<1>7. CASE Panel
  BY <1>7 DEF Panel, PanelLists, PanelDrops, PanelDeletesStream, PanelSets
<1>8. CASE UNCHANGED vars
  BY <1>8 DEF vars
<1> QED
  BY <1>1, <1>2, <1>3, <1>4, <1>5, <1>6, <1>7, <1>8 DEF Next

\* A recent time in the user's document has a view counted in the stream's,
\* unless the increment failed or is still to come (SetRecent).
THEOREM RecentAlwaysCounted == Spec => []RecentIsCounted
<1>1. Init => CountTypes /\ Counted
  BY InitTypes, InitCounts
<1>2. CountTypes /\ Counted /\ [Next]_vars => (CountTypes /\ Counted)'
  BY NextCountTypes, NextCounted
<1>3. Counted => RecentIsCounted
  BY DEF Counted, Counting, RecentIsCounted
<1> QED
  BY <1>1, <1>2, <1>3, PTL DEF Spec

=============================================================================
