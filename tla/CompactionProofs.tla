-------------------------- MODULE CompactionProofs --------------------------
(***************************************************************************)
(* Proofs about Compaction, for any session files, requests and bounds.    *)
(***************************************************************************)
EXTENDS Compaction, FiniteSetTheorems, WellFoundedInduction, TLAPS

(***************************************************************************)
(* Places of a sequence.  A nonempty set of numbers has a least element;   *)
(* counting upwards, the i-th place of T exists.                           *)
(***************************************************************************)
\* A nonempty set of natural numbers has a least element.
LEMMA LeastNat ==
  ASSUME NEW T \in SUBSET Nat, T # {}
  PROVE  \E m \in T : \A k \in T : m <= k
<1> DEFINE R == OpToRel(<, Nat)
<1>1. IsWellFoundedOn(R, Nat)
  BY NatLessThanWellFounded
<1>2. \A k, m \in Nat : k < m => <<k, m>> \in R
  BY DEF OpToRel
<1> HIDE DEF R
<1>3. PICK m \in T : \A k \in T : ~ (<<k, m>> \in R)
  BY <1>1, WFMin
<1>4. ASSUME NEW k \in T PROVE m <= k
  <2>1. ~(k < m)
    BY <1>2, <1>3
  <2> QED BY <2>1
<1> QED BY <1>4

\* A nonempty set of places has a greatest element.
LEMMA GreatestPlace ==
  ASSUME NEW n \in Nat, NEW T \in SUBSET (1..n), T # {}
  PROVE  \E m \in T : \A k \in T : k <= m
<1> DEFINE U == {n - k : k \in T}
<1>0. \A k \in T : n - k \in Nat
  OBVIOUS
<1>1. U \in SUBSET Nat /\ U # {}
  BY <1>0
<1>2. PICK u \in U : \A v \in U : u <= v
  BY <1>1, LeastNat
<1>3. PICK m \in T : u = n - m
  OBVIOUS
<1>4. ASSUME NEW k \in T PROVE k <= m
  <2>1. n - k \in U
    OBVIOUS
  <2>2. n - m <= n - k
    BY <2>1, <1>2, <1>3
  <2> QED BY <2>2
<1> QED BY <1>4

UpTo(T, k) == Cardinality({j \in T : j <= k})

\* Counting the places up to k: one more at each place of T.
LEMMA CountStep ==
  ASSUME NEW n \in Nat, NEW T \in SUBSET (1..n), NEW k \in 1..n
  PROVE  /\ UpTo(T, k) \in Nat /\ UpTo(T, k - 1) \in Nat
         /\ k \in T => UpTo(T, k) = UpTo(T, k - 1) + 1
         /\ k \notin T => UpTo(T, k) = UpTo(T, k - 1)
<1>0. IsFiniteSet(1..n)
  BY FS_Interval
<1>1. IsFiniteSet(T)
  BY <1>0, FS_Subset
<1> DEFINE A == {j \in T : j <= k}
           B == {j \in T : j <= k - 1}
<1>2. IsFiniteSet(A) /\ IsFiniteSet(B)
  BY <1>1, FS_Subset
<1>3. Cardinality(A) \in Nat /\ Cardinality(B) \in Nat
  BY <1>2, FS_CardinalityType
<1>4. \A j \in T : j \in Int /\ (j <= k <=> j <= k - 1 \/ j = k)
  OBVIOUS
<1>5. k \notin B
  OBVIOUS
<1>6. CASE k \in T
  <2>1. A = B \cup {k}
    BY <1>6, <1>4
  <2>2. Cardinality(A) = Cardinality(B) + 1
    BY <2>1, <1>5, <1>2, FS_AddElement
  <2> QED BY <1>3, <1>6, <2>2 DEF UpTo
<1>7. CASE k \notin T
  <2>1. A = B
    BY <1>7, <1>4
  <2> QED BY <1>3, <1>7, <2>1 DEF UpTo
<1> QED BY <1>6, <1>7

LEMMA CountEnds ==
  ASSUME NEW n \in Nat, NEW T \in SUBSET (1..n)
  PROVE  /\ UpTo(T, 0) = 0
         /\ UpTo(T, n) = Cardinality(T)
         /\ Cardinality(T) \in Nat
         /\ \A k \in 0..n : UpTo(T, k) \in Nat
<1>0. IsFiniteSet(1..n)
  BY FS_Interval
<1>1. IsFiniteSet(T)
  BY <1>0, FS_Subset
<1>5. \A j \in T : j \in 1..n /\ ~(j <= 0) /\ j <= n
  OBVIOUS
<1>2. {j \in T : j <= 0} = {} /\ {j \in T : j <= n} = T
  BY <1>5
<1>3. \A k : IsFiniteSet({j \in T : j <= k})
  BY <1>1, FS_Subset
<1> QED BY <1>1, <1>2, <1>3, FS_EmptySet, FS_CardinalityType DEF UpTo

\* The count never falls, so a place of T is counted before every later one.
LEMMA CountRises ==
  ASSUME NEW n \in Nat, NEW T \in SUBSET (1..n), NEW j \in 0..n, NEW k \in 0..n, j <= k
  PROVE  /\ UpTo(T, j) <= UpTo(T, k)
         /\ j < k /\ k \in T => UpTo(T, j) < UpTo(T, k)
<1>0. IsFiniteSet(1..n)
  BY FS_Interval
<1>1. IsFiniteSet(T)
  BY <1>0, FS_Subset
<1> DEFINE A == {i \in T : i <= j}
           B == {i \in T : i <= k}
<1>2. IsFiniteSet(A) /\ IsFiniteSet(B)
  BY <1>1, FS_Subset
<1>6. \A i \in T : i \in Int /\ (i <= j => i <= k)
  OBVIOUS
<1>3. A \subseteq B
  BY <1>6
<1>4. Cardinality(A) \in Nat /\ Cardinality(B) \in Nat /\ Cardinality(A) <= Cardinality(B)
  BY <1>2, <1>3, FS_Subset, FS_CardinalityType
<1>5. ASSUME j < k, k \in T PROVE Cardinality(A) < Cardinality(B)
  <2>1. k \in B /\ k \notin A
    BY <1>5
  <2>2. A # B
    BY <2>1
  <2>3. Cardinality(A) # Cardinality(B)
    BY <2>2, <1>2, <1>3, FS_Subset
  <2> QED BY <2>3, <1>4
<1> QED BY <1>4, <1>5 DEF UpTo

\* The i-th place of T is a place of T, and the i-th one.
LEMMA NthPlace ==
  ASSUME NEW n \in Nat, NEW T \in SUBSET (1..n), NEW i \in 1..Cardinality(T)
  PROVE  Nth(T, i) \in T /\ UpTo(T, Nth(T, i)) = i
<1> DEFINE K == {k \in 0..n : UpTo(T, k) >= i}
<1>1. /\ UpTo(T, 0) = 0 /\ UpTo(T, n) = Cardinality(T) /\ Cardinality(T) \in Nat
      /\ \A k \in 0..n : UpTo(T, k) \in Nat
  BY CountEnds
<1>2. K \in SUBSET Nat /\ n \in K
  BY <1>1
<1>3. PICK m \in K : \A k \in K : m <= k
  BY <1>2, LeastNat
<1>4. m \in 1..n
  BY <1>1, <1>3
<1>5. m - 1 \notin K
  BY <1>3, <1>4
<1>6. UpTo(T, m - 1) < i
  BY <1>5, <1>4, <1>1
<1>7. UpTo(T, m) >= i
  OBVIOUS
<1>8. m \in T /\ UpTo(T, m) = i
  BY <1>4, <1>6, <1>7, CountStep
<1>9. \E k \in T : Cardinality({j \in T : j <= k}) = i
  BY <1>8 DEF UpTo
<1> QED BY <1>9 DEF Nth, UpTo

\* Every place of T is one of them, and they come in order.
LEMMA NthIs ==
  ASSUME NEW n \in Nat, NEW T \in SUBSET (1..n)
  PROVE  /\ Cardinality(T) \in Nat
         /\ \A k \in T : UpTo(T, k) \in 1..Cardinality(T) /\ Nth(T, UpTo(T, k)) = k
         /\ \A i, j \in 1..Cardinality(T) : i < j => Nth(T, i) < Nth(T, j)
<1>1. /\ UpTo(T, 0) = 0 /\ UpTo(T, n) = Cardinality(T) /\ Cardinality(T) \in Nat
      /\ \A k \in 0..n : UpTo(T, k) \in Nat
  BY CountEnds
<1>2. \A j, k \in T : j < k => UpTo(T, j) < UpTo(T, k)
  <2> SUFFICES ASSUME NEW j \in T, NEW k \in T, j < k PROVE UpTo(T, j) < UpTo(T, k)
    OBVIOUS
  <2>1. j \in 0..n /\ k \in 0..n /\ j <= k
    OBVIOUS
  <2> QED BY <2>1, CountRises
<1>3. ASSUME NEW k \in T PROVE UpTo(T, k) \in 1..Cardinality(T)
  <2>1. k \in 1..n /\ k \in 0..n /\ n \in 0..n /\ k <= n
    OBVIOUS
  <2>2. UpTo(T, k) <= UpTo(T, n)
    BY <2>1, CountRises
  <2>3. UpTo(T, k) = UpTo(T, k - 1) + 1 /\ UpTo(T, k - 1) \in Nat
    BY <2>1, CountStep
  <2> QED BY <2>2, <2>3, <1>1
<1>4. ASSUME NEW k \in T PROVE Nth(T, UpTo(T, k)) = k
  <2> DEFINE m == Nth(T, UpTo(T, k))
  <2>1. m \in T /\ UpTo(T, m) = UpTo(T, k)
    BY <1>3, NthPlace
  <2> HIDE DEF m
  <2>2. UpTo(T, m) \in Nat /\ UpTo(T, k) \in Nat
    BY <2>1, <1>3, <1>1
  <2>3. ~(m < k) /\ ~(k < m)
    BY <2>1, <2>2, <1>2
  <2>4. m = k
    BY <2>1, <2>3
  <2> QED BY <2>4 DEF m
<1>5. ASSUME NEW i \in 1..Cardinality(T), NEW j \in 1..Cardinality(T), i < j
      PROVE  Nth(T, i) < Nth(T, j)
  <2>1. /\ Nth(T, i) \in T /\ UpTo(T, Nth(T, i)) = i
        /\ Nth(T, j) \in T /\ UpTo(T, Nth(T, j)) = j
    BY NthPlace
  <2> DEFINE a == Nth(T, i)
             b == Nth(T, j)
  <2> HIDE DEF a, b
  <2>2. a \in T /\ UpTo(T, a) = i /\ b \in T /\ UpTo(T, b) = j
    BY <2>1 DEF a, b
  <2>3. i \in Int /\ j \in Int /\ a \in Int /\ b \in Int
    BY <2>2, <1>1
  <2>4. ~(b < a) /\ b # a
    BY <2>2, <2>3, <1>2, <1>5
  <2>5. a < b
    BY <2>3, <2>4
  <2> QED BY <2>5 DEF a, b
<1> QED BY <1>1, <1>3, <1>4, <1>5

\* What Selected returns: the elements at the places of T, in order, and no other.
LEMMA SelectedIs ==
  ASSUME NEW S, NEW s \in Seq(S), NEW T \in SUBSET (1..Len(s))
  PROVE  /\ Selected(s, T) \in Seq(S) /\ Len(Selected(s, T)) = Cardinality(T)
         /\ \A i \in 1..Cardinality(T) : Nth(T, i) \in T /\ Selected(s, T)[i] = s[Nth(T, i)]
         /\ \A i, j \in 1..Cardinality(T) : i < j => Nth(T, i) < Nth(T, j)
         /\ \A k \in T : \E i \in 1..Cardinality(T) : Nth(T, i) = k /\ Selected(s, T)[i] = s[k]
<1>1. Len(s) \in Nat
  OBVIOUS
<1>2. /\ Cardinality(T) \in Nat
      /\ \A k \in T : UpTo(T, k) \in 1..Cardinality(T) /\ Nth(T, UpTo(T, k)) = k
      /\ \A i, j \in 1..Cardinality(T) : i < j => Nth(T, i) < Nth(T, j)
  BY <1>1, NthIs
<1>3. \A i \in 1..Cardinality(T) : Nth(T, i) \in T
  BY <1>1, NthPlace
<1>10. \A k \in T : s[k] \in S
  OBVIOUS
<1>4. \A i \in 1..Cardinality(T) : s[Nth(T, i)] \in S
  BY <1>3, <1>10
<1> DEFINE c == Cardinality(T)
           t == [i \in 1..c |-> s[Nth(T, i)]]
<1>5. t \in [1..c -> S]
  BY <1>4
<1> HIDE DEF c
<1>6. c \in Nat
  BY <1>2 DEF c
<1>7. t \in Seq(S) /\ Len(t) = c
  BY <1>5, <1>6
<1>8. Selected(s, T) = t
  BY DEF Selected, c
<1>9. \A i \in 1..c : t[i] = s[Nth(T, i)]
  OBVIOUS
<1> QED BY <1>2, <1>3, <1>7, <1>8, <1>9 DEF c

(***************************************************************************)
(* The replacement image.  Every record of it but the summary stands at a  *)
(* place of the original that is no pane output; the places come in order, *)
(* and none is left out.                                                   *)
(***************************************************************************)
LEMMA Concat ==
  ASSUME NEW S, NEW a \in Seq(S), NEW b \in Seq(S)
  PROVE  /\ a \o b \in Seq(S) /\ Len(a \o b) = Len(a) + Len(b)
         /\ \A i \in 1..Len(a) : (a \o b)[i] = a[i]
         /\ \A i \in 1..Len(b) : (a \o b)[Len(a) + i] = b[i]
<1>1. a \o b \in Seq(S) /\ Len(a \o b) = Len(a) + Len(b)
  OBVIOUS
<1>2. \A i \in 1..Len(a) : (a \o b)[i] = a[i]
  OBVIOUS
<1>3. ASSUME NEW i \in 1..Len(b) PROVE (a \o b)[Len(a) + i] = b[i]
  <2>1. (a \o b)[Len(a) + i] = b[(Len(a) + i) - Len(a)]
    OBVIOUS
  <2>2. (Len(a) + i) - Len(a) = i
    OBVIOUS
  <2> QED BY <2>1, <2>2
<1> QED BY <1>1, <1>2, <1>3

LEMMA CutIs ==
  ASSUME NEW s \in Seq(Record), Panes(s) # {}
  PROVE  /\ Panes(s) \in SUBSET (1..Len(s))
         /\ Cut(s) \in Panes(s) /\ Cut(s) \in 1..Len(s)
         /\ \A j \in Panes(s) : j <= Cut(s)
<1>1. Len(s) \in Nat /\ DOMAIN s = 1..Len(s)
  OBVIOUS
<1>2. Panes(s) \in SUBSET (1..Len(s))
  BY <1>1 DEF Panes
<1>3. \E k \in Panes(s) : \A j \in Panes(s) : j <= k
  BY <1>1, <1>2, GreatestPlace
<1>4. Cut(s) \in Panes(s) /\ \A j \in Panes(s) : j <= Cut(s)
  BY <1>3 DEF Cut
<1> QED BY <1>2, <1>4

KeptPlaces(s) == 1..Cut(s) \ Panes(s)
Kept(s) == Cardinality(KeptPlaces(s))
Place(s, i) == IF i <= Kept(s) THEN Nth(KeptPlaces(s), i) ELSE Cut(s) + (i - Kept(s)) - 1

LEMMA CompactedIs ==
  ASSUME NEW s \in Seq(Record), Panes(s) # {}, NEW id \in Plans
  PROVE  /\ Compacted(s, id) \in Seq(Record)
         /\ Kept(s) \in Nat /\ Cut(s) \in 1..Len(s)
         /\ Len(Compacted(s, id)) = Kept(s) + 1 + (Len(s) - Cut(s))
         /\ \A i \in 1..Kept(s) : Compacted(s, id)[i] = s[Nth(KeptPlaces(s), i)]
         /\ Compacted(s, id)[Kept(s) + 1] = <<"summary", id>>
         /\ \A i \in 1..Len(s) - Cut(s) : Compacted(s, id)[Kept(s) + 1 + i] = s[Cut(s) + i]
<1> DEFINE n == Len(s)
           k == Cut(s)
           T == KeptPlaces(s)
           m == Kept(s)
           a == Selected(s, T)
           b == <<<<"summary", id>>>>
           d == SubSeq(s, k + 1, n)
<1>1. Panes(s) \in SUBSET (1..n) /\ k \in 1..n /\ n \in Nat
  BY CutIs
<1>2. T \in SUBSET (1..n)
  BY <1>1 DEF KeptPlaces
<1>3. /\ a \in Seq(Record) /\ Len(a) = Cardinality(T)
      /\ \A i \in 1..Cardinality(T) : a[i] = s[Nth(T, i)]
  BY <1>2, SelectedIs
<1>4. m \in Nat /\ m = Cardinality(T)
  <2>1. Len(a) \in Nat
    BY <1>3
  <2> QED BY <2>1, <1>3 DEF Kept
<1>5. b \in Seq(Record) /\ Len(b) = 1 /\ b[1] = <<"summary", id>>
  <2>1. <<"summary", id>> \in Record
    BY DEF Record
  <2> DEFINE r == <<"summary", id>>
  <2> HIDE DEF r
  <2>2. r \in Record
    BY <2>1 DEF r
  <2>3. <<r>> \in Seq(Record) /\ Len(<<r>>) = 1 /\ <<r>>[1] = r
    BY <2>2
  <2> QED BY <2>3 DEF r
<1> HIDE DEF n, k
<1>6. d \in Seq(Record) /\ Len(d) = n - k /\ \A i \in 1..n - k : d[i] = s[k + i]
  <2>1. k + 1 \in Int /\ n \in Int /\ n = Len(s)
    BY <1>1 DEF n
  <2>2. d \in Seq(Record)
    BY <1>1, <2>1
  <2>3. Len(d) = n - k
    BY <1>1, <2>1
  <2>4. ASSUME NEW i \in 1..n - k PROVE d[i] = s[k + i]
    <3>1. d[i] = s[(k + 1) + i - 1]
      BY <1>1, <2>1
    <3>2. (k + 1) + i - 1 = k + i
      BY <1>1
    <3> QED BY <3>1, <3>2
  <2> QED BY <2>2, <2>3, <2>4
<1>7. Compacted(s, id) = (a \o b) \o d
  BY DEF Compacted, KeptPlaces, n, k
<1> HIDE DEF T, m, a, b, d
<1>19. a \in Seq(Record) /\ Len(a) = m /\ m \in Nat /\ b \in Seq(Record) /\ Len(b) = 1
  BY <1>3, <1>4, <1>5
<1>20. /\ a \o b \in Seq(Record) /\ Len(a \o b) = Len(a) + Len(b)
       /\ \A i \in 1..Len(a) : (a \o b)[i] = a[i]
       /\ \A i \in 1..Len(b) : (a \o b)[Len(a) + i] = b[i]
  <2>1. a \in Seq(Record) /\ b \in Seq(Record)
    BY <1>19
  <2> QED BY <2>1, Concat
<1>8. a \o b \in Seq(Record) /\ Len(a \o b) = m + 1
  BY <1>19, <1>20
<1>9. /\ \A i \in 1..m : (a \o b)[i] = a[i]
      /\ (a \o b)[m + 1] = b[1]
  <2>1. 1 \in 1..Len(b)
    BY <1>19
  <2> QED BY <2>1, <1>19, <1>20
<1> DEFINE e == a \o b
           c == e \o d
<1>10. e \in Seq(Record) /\ Len(e) = m + 1 /\ m \in Nat
  BY <1>8, <1>4
<1>11. /\ \A i \in 1..m : e[i] = a[i]
       /\ e[m + 1] = b[1]
  BY <1>9
<1> HIDE DEF e
<1>21. /\ e \o d \in Seq(Record) /\ Len(e \o d) = Len(e) + Len(d)
       /\ \A i \in 1..Len(e) : (e \o d)[i] = e[i]
       /\ \A i \in 1..Len(d) : (e \o d)[Len(e) + i] = d[i]
  <2>1. e \in Seq(Record) /\ d \in Seq(Record)
    BY <1>10, <1>6
  <2> QED BY <2>1, Concat
<1>12. c \in Seq(Record) /\ Len(c) = m + 1 + (n - k)
  BY <1>10, <1>6, <1>1, <1>21
<1>13. \A i \in 1..m + 1 : c[i] = e[i]
  BY <1>10, <1>21
<1>14. \A i \in 1..n - k : c[m + 1 + i] = d[i]
  BY <1>10, <1>6, <1>21
<1>15. Compacted(s, id) = c
  BY <1>7 DEF e
<1> HIDE DEF c
<1>16. \A i \in 1..m : c[i] = s[Nth(T, i)]
  <2> TAKE i \in 1..m
  <2>1. i \in 1..m + 1
    BY <1>4
  <2> QED BY <2>1, <1>13, <1>11, <1>3, <1>4
<1>17. c[m + 1] = <<"summary", id>>
  <2>1. m + 1 \in 1..m + 1
    BY <1>4
  <2> QED BY <2>1, <1>13, <1>11, <1>5
<1>18. \A i \in 1..n - k : c[m + 1 + i] = s[k + i]
  BY <1>14, <1>6
<1> QED BY <1>1, <1>4, <1>12, <1>15, <1>16, <1>17, <1>18 DEF n, k, T, m

LEMMA CompactedPlaces ==
  ASSUME NEW s \in Seq(Record), Panes(s) # {}, NEW id \in Plans
  PROVE  LET c == Compacted(s, id) IN
         /\ c \in Seq(Record) /\ Kept(s) + 1 \in DOMAIN c /\ c[Kept(s) + 1] = <<"summary", id>>
         /\ \A i \in DOMAIN c \ {Kept(s) + 1} :
               Place(s, i) \in DOMAIN s \ Panes(s) /\ c[i] = s[Place(s, i)]
         /\ \A i, j \in DOMAIN c \ {Kept(s) + 1} : i < j => Place(s, i) < Place(s, j)
         /\ \A q \in DOMAIN s \ Panes(s) : \E i \in DOMAIN c \ {Kept(s) + 1} : Place(s, i) = q
<1>0. /\ Compacted(s, id) \in Seq(Record)
      /\ Kept(s) \in Nat /\ Cut(s) \in 1..Len(s)
      /\ Len(Compacted(s, id)) = Kept(s) + 1 + (Len(s) - Cut(s))
      /\ \A i \in 1..Kept(s) : Compacted(s, id)[i] = s[Nth(KeptPlaces(s), i)]
      /\ Compacted(s, id)[Kept(s) + 1] = <<"summary", id>>
      /\ \A i \in 1..Len(s) - Cut(s) : Compacted(s, id)[Kept(s) + 1 + i] = s[Cut(s) + i]
  BY CompactedIs
<1> DEFINE n == Len(s)
           k == Cut(s)
           T == KeptPlaces(s)
           m == Kept(s)
           c == Compacted(s, id)
           P == Panes(s)
<1>1. P \in SUBSET (1..n) /\ k \in 1..n /\ n \in Nat /\ DOMAIN s = 1..n /\ \A j \in P : j <= k
  BY CutIs
<1>2. /\ c \in Seq(Record) /\ m \in Nat /\ Len(c) = m + 1 + (n - k)
      /\ \A i \in 1..m : c[i] = s[Nth(T, i)]
      /\ c[m + 1] = <<"summary", id>>
      /\ \A i \in 1..n - k : c[m + 1 + i] = s[k + i]
  BY <1>0
<1>3. T \in SUBSET (1..n) /\ T = 1..k \ P
  BY <1>1 DEF KeptPlaces
<1>4. /\ m = Cardinality(T)
      /\ \A i \in 1..m : Nth(T, i) \in T
      /\ \A i, j \in 1..m : i < j => Nth(T, i) < Nth(T, j)
      /\ \A q \in T : \E i \in 1..m : Nth(T, i) = q
  <2> HIDE DEF T
  <2>1. T \in SUBSET (1..Len(s))
    BY <1>3
  <2>2. /\ \A i \in 1..Cardinality(T) : Nth(T, i) \in T
        /\ \A i, j \in 1..Cardinality(T) : i < j => Nth(T, i) < Nth(T, j)
        /\ \A q \in T : \E i \in 1..Cardinality(T) : Nth(T, i) = q
    BY <2>1, SelectedIs
  <2>3. m = Cardinality(T)
    BY DEF Kept, T
  <2> QED BY <2>2, <2>3
<1>5. \A i : Place(s, i) = IF i <= m THEN Nth(T, i) ELSE k + (i - m) - 1
  BY DEF Place
<1>6. DOMAIN c = 1..(m + 1 + (n - k))
  BY <1>2
<1> HIDE DEF n, k, T, m, c, P
<1>7. ASSUME NEW i \in DOMAIN c \ {m + 1}
      PROVE  Place(s, i) \in DOMAIN s \ P /\ c[i] = s[Place(s, i)]
  <2>1. CASE i <= m
    <3>1. i \in 1..m
      BY <2>1, <1>6, <1>2, <1>1
    <3>2. Place(s, i) = Nth(T, i) /\ Nth(T, i) \in T
      BY <3>1, <2>1, <1>5, <1>4
    <3> QED BY <3>1, <3>2, <1>2, <1>3, <1>1
  <2>2. CASE ~(i <= m)
    <3> DEFINE h == i - m - 1
    <3>1. h \in 1..n - k /\ i = m + 1 + h
      BY <2>2, <1>6, <1>2, <1>1
    <3>2. Place(s, i) = k + h
      BY <2>2, <3>1, <1>5, <1>1, <1>2
    <3>3. k + h \in 1..n /\ k + h \notin P
      BY <3>1, <1>1
    <3>4. c[m + 1 + h] = s[k + h]
      BY <3>1, <1>2
    <3> HIDE DEF h
    <3> QED BY <3>1, <3>2, <3>3, <3>4, <1>1
  <2> QED BY <2>1, <2>2
<1>8. ASSUME NEW i \in DOMAIN c \ {m + 1}, NEW j \in DOMAIN c \ {m + 1}, i < j
      PROVE  Place(s, i) < Place(s, j)
  <2>0. i \in Int /\ j \in Int /\ m \in Int /\ k \in Int /\ i >= 1
    BY <1>6, <1>2, <1>1
  <2>1. CASE j <= m
    <3>1. i \in 1..m /\ j \in 1..m /\ i <= m
      BY <2>0, <2>1, <1>8, <1>6, <1>2, <1>1
    <3> QED BY <3>1, <2>1, <1>4, <1>5, <1>8
  <2>2. CASE i <= m /\ ~(j <= m)
    <3>1. i \in 1..m
      BY <2>0, <2>2
    <3>2. Place(s, i) = Nth(T, i) /\ Nth(T, i) \in T
      BY <3>1, <2>2, <1>5, <1>4
    <3>3. Place(s, j) = k + (j - m) - 1
      BY <2>2, <1>5
    <3>4. Nth(T, i) \in 1..k
      BY <3>2, <1>3
    <3>5. j # m + 1
      OBVIOUS
    <3>6. k + (j - m) - 1 > k
      BY <2>0, <2>2, <3>5
    <3> HIDE DEF T
    <3> DEFINE x == Nth(T, i)
    <3> HIDE DEF x
    <3>7. x \in 1..k /\ Place(s, i) = x
      BY <3>2, <3>4 DEF x
    <3>8. x < k + (j - m) - 1
      BY <3>7, <3>6, <2>0
    <3> QED BY <3>3, <3>7, <3>8
  <2>3. CASE ~(i <= m)
    <3>1. ~(j <= m)
      BY <2>0, <2>3, <1>8
    <3>2. Place(s, i) = k + (i - m) - 1 /\ Place(s, j) = k + (j - m) - 1
      BY <2>3, <3>1, <1>5
    <3>3. k + (i - m) - 1 < k + (j - m) - 1
      BY <2>0, <1>8
    <3> QED BY <3>2, <3>3
  <2> QED BY <2>1, <2>2, <2>3
<1>9. ASSUME NEW q \in DOMAIN s \ P
      PROVE  \E i \in DOMAIN c \ {m + 1} : Place(s, i) = q
  <2>1. CASE q <= k
    <3>1. q \in T
      BY <2>1, <1>1, <1>3
    <3>2. PICK i \in 1..m : Nth(T, i) = q
      BY <3>1, <1>4
    <3>3. i \in DOMAIN c \ {m + 1} /\ i <= m
      BY <1>6, <1>2, <1>1
    <3> QED BY <3>2, <3>3, <1>5
  <2>2. CASE ~(q <= k)
    <3> DEFINE i == m + 1 + (q - k)
    <3>1. q \in 1..n
      BY <1>1
    <3>2. i \in DOMAIN c \ {m + 1} /\ ~(i <= m)
      BY <2>2, <3>1, <1>6, <1>2, <1>1
    <3>3. k + (i - m) - 1 = q
      BY <3>1, <1>1, <1>2
    <3>4. Place(s, i) = q
      BY <3>2, <3>3, <1>5
    <3> QED BY <3>2, <3>4
  <2> QED BY <2>1, <2>2
<1>10. m + 1 \in DOMAIN c
  BY <1>6, <1>2, <1>1
<1> QED BY <1>2, <1>7, <1>8, <1>9, <1>10 DEF m, c, P

\* The place and the class of a summary.
LEMMA SummaryIs ==
  ASSUME NEW id
  PROVE  /\ <<"summary", id>>[1] = "summary" /\ "summary" \notin Paths /\ "edit" \notin Paths
         /\ ClassOf(<<"summary", id>>) = "note"
BY SessionAssumption DEF ClassOf

\* A summary stands for the pane output; every other record is kept, and no other added.
LEMMA CompactedKeeps ==
  ASSUME NEW s \in Seq(Record), Panes(s) # {}, NEW id \in Plans
  PROVE  LET c == Compacted(s, id) IN
         /\ c \in Seq(Record) /\ <<"summary", id>> \in Range(c)
         /\ \A r \in Range(c) : r \in Range(s) \/ r = <<"summary", id>>
         /\ \A r \in Range(s) : ClassOf(r) # "pane" => r \in Range(c)
         /\ Panes(c) = {}
<1> DEFINE c == Compacted(s, id)
           z == Kept(s) + 1
           x == <<"summary", id>>
<1>1. /\ c \in Seq(Record) /\ z \in DOMAIN c /\ c[z] = x
      /\ \A i \in DOMAIN c \ {z} : Place(s, i) \in DOMAIN s \ Panes(s) /\ c[i] = s[Place(s, i)]
      /\ \A q \in DOMAIN s \ Panes(s) : \E i \in DOMAIN c \ {z} : Place(s, i) = q
  BY CompactedPlaces
<1>2. ClassOf(x) = "note"
  BY SummaryIs
<1> HIDE DEF c, z, x
<1>3. x \in Range(c)
  BY <1>1 DEF Range
<1>4. ASSUME NEW r \in Range(c) PROVE r \in Range(s) \/ r = x
  <2>1. PICK i \in DOMAIN c : r = c[i]
    BY <1>4 DEF Range
  <2>2. CASE i = z
    BY <2>1, <2>2, <1>1
  <2>3. CASE i # z
    BY <2>1, <2>3, <1>1 DEF Range
  <2> QED BY <2>2, <2>3
<1>5. ASSUME NEW r \in Range(s), ClassOf(r) # "pane" PROVE r \in Range(c)
  <2>1. PICK q \in DOMAIN s : r = s[q]
    BY <1>5 DEF Range
  <2>2. q \notin Panes(s)
    BY <2>1, <1>5 DEF Panes
  <2>3. PICK i \in DOMAIN c \ {z} : Place(s, i) = q
    BY <2>2, <1>1
  <2>4. c[i] = r
    BY <2>1, <2>3, <1>1
  <2> QED BY <2>4 DEF Range
<1>6. Panes(c) = {}
  <2> SUFFICES ASSUME NEW i \in DOMAIN c, ClassOf(c[i]) = "pane" PROVE FALSE
    BY DEF Panes
  <2>1. i # z
    BY <1>1, <1>2
  <2>2. Place(s, i) \in DOMAIN s \ Panes(s) /\ c[i] = s[Place(s, i)]
    BY <2>1, <1>1
  <2> QED BY <2>2 DEF Panes
<1> QED BY <1>1, <1>3, <1>4, <1>5, <1>6 DEF c, x

\* What is kept stays in order.
LEMMA CompactedInOrder ==
  ASSUME NEW s \in Seq(Record), Panes(s) # {}, NEW id \in Plans, Ordered(s)
  PROVE  Ordered(Compacted(s, id))
<1> DEFINE c == Compacted(s, id)
           z == Kept(s) + 1
<1>1. /\ c \in Seq(Record) /\ z \in DOMAIN c /\ c[z] = <<"summary", id>>
      /\ \A i \in DOMAIN c \ {z} : Place(s, i) \in DOMAIN s \ Panes(s) /\ c[i] = s[Place(s, i)]
      /\ \A i, j \in DOMAIN c \ {z} : i < j => Place(s, i) < Place(s, j)
  BY CompactedPlaces
<1>2. c[z][1] \notin Paths
  BY <1>1, SummaryIs
<1> HIDE DEF c, z
<1>3. ASSUME NEW i \in DOMAIN c, NEW j \in DOMAIN c, i < j, c[i][1] \in Paths, c[j][1] \in Paths
      PROVE  c[i][2] < c[j][2]
  <2>1. i # z /\ j # z
    BY <1>2, <1>3
  <2> DEFINE p == Place(s, i)
             q == Place(s, j)
  <2>2. p \in DOMAIN s /\ q \in DOMAIN s /\ p < q /\ c[i] = s[p] /\ c[j] = s[q]
    BY <2>1, <1>1, <1>3
  <2> HIDE DEF p, q
  <2> QED BY <2>2, <1>3 DEF Ordered
<1> QED BY <1>3 DEF Ordered, c

LEMMA StartsIs ==
  ASSUME NEW s \in Seq(Record), NEW t \in Seq(Record)
  PROVE  StartsWith(s, t) <=> Len(t) <= Len(s) /\ \A i \in 1..Len(t) : s[i] = t[i]
<1>0. Len(s) \in Nat /\ Len(t) \in Nat
  OBVIOUS
<1>1. ASSUME Len(t) <= Len(s)
      PROVE  /\ SubSeq(s, 1, Len(t)) \in Seq(Record) /\ Len(SubSeq(s, 1, Len(t))) = Len(t)
             /\ \A i \in 1..Len(t) : SubSeq(s, 1, Len(t))[i] = s[i]
  <2>1. 1 \in Int /\ Len(t) \in Int /\ Len(t) <= Len(s) /\ Len(t) >= 0
    BY <1>0, <1>1
  <2> DEFINE n == Len(t)
  <2> HIDE DEF n
  <2>2. n \in Nat /\ n <= Len(s)
    BY <2>1 DEF n
  <2>3. SubSeq(s, 1, n) \in Seq(Record) /\ Len(SubSeq(s, 1, n)) = n
    BY <2>2
  <2>4. \A i \in 1..n : SubSeq(s, 1, n)[i] = s[i]
    BY <2>2
  <2> QED BY <2>3, <2>4 DEF n
<1>2. ASSUME StartsWith(s, t)
      PROVE  Len(t) <= Len(s) /\ \A i \in 1..Len(t) : s[i] = t[i]
  BY <1>1, <1>2 DEF StartsWith
<1>3. ASSUME Len(t) <= Len(s), \A i \in 1..Len(t) : s[i] = t[i]
      PROVE  StartsWith(s, t)
  <2> DEFINE u == SubSeq(s, 1, Len(t))
  <2>1. u \in Seq(Record) /\ Len(u) = Len(t) /\ \A i \in 1..Len(t) : u[i] = t[i]
    BY <1>1, <1>3
  <2> HIDE DEF u
  <2>2. u = t
    BY <2>1
  <2> QED BY <2>2, <1>3 DEF StartsWith, u
<1> QED BY <1>2, <1>3

\* A beginning without pane output is still the beginning of the replacement image.
LEMMA CompactedStarts ==
  ASSUME NEW s \in Seq(Record), Panes(s) # {}, NEW id \in Plans,
         NEW t \in Seq(Record), Panes(t) = {}, StartsWith(s, t)
  PROVE  StartsWith(Compacted(s, id), t)
<1> DEFINE n == Len(t)
           T == KeptPlaces(s)
           c == Compacted(s, id)
<1>0. n \in Nat /\ Len(s) \in Nat /\ DOMAIN s = 1..Len(s) /\ DOMAIN t = 1..n
  OBVIOUS
<1>1. n <= Len(s) /\ \A i \in 1..n : s[i] = t[i]
  BY StartsIs
<1>2. /\ Panes(s) \in SUBSET (1..Len(s)) /\ Cut(s) \in Panes(s) /\ Cut(s) \in 1..Len(s)
  BY CutIs
<1>3. ASSUME NEW i \in 1..n PROVE i \notin Panes(s)
  <2>1. i \notin Panes(t) /\ i \in DOMAIN t
    BY <1>0
  <2>2. ClassOf(t[i]) # "pane"
    BY <2>1 DEF Panes
  <2> QED BY <2>2, <1>1 DEF Panes
<1>4. n < Cut(s)
  <2>1. Cut(s) \notin 1..n
    BY <1>2, <1>3
  <2> QED BY <2>1, <1>2, <1>0
<1>5. 1..n \subseteq T
  BY <1>3, <1>4, <1>2, <1>0 DEF KeptPlaces
<1>6. T \in SUBSET (1..Len(s))
  BY <1>2, <1>0 DEF KeptPlaces
<1>7. /\ c \in Seq(Record) /\ Kept(s) \in Nat
      /\ Len(c) = Kept(s) + 1 + (Len(s) - Cut(s))
      /\ \A i \in 1..Kept(s) : c[i] = s[Nth(T, i)]
  BY CompactedIs
<1> HIDE DEF T, c
<1>8. ASSUME NEW i \in 1..n PROVE i \in 1..Kept(s) /\ Nth(T, i) = i
  <2>0. \A j \in T : j \in 1..Len(s)
    BY <1>6
  <2>1. i \in Nat /\ i \in T /\ 1 <= i /\ i <= n
    BY <1>0, <1>5
  <2>4. \A j \in 1..i : j \in 1..n /\ j <= i
    BY <2>1, <1>0
  <2>5. \A j \in T : j <= i => j \in 1..i
    BY <2>1, <2>0
  <2>2. {j \in T : j <= i} = 1..i
    BY <2>4, <2>5, <1>5
  <2>3. Cardinality(1..i) = i
    <3>1. 1 \in Int /\ i \in Int /\ ~(1 > i)
      BY <2>1
    <3>2. Cardinality(1..i) = IF 1 > i THEN 0 ELSE i - 1 + 1
      BY <3>1, FS_Interval
    <3> QED BY <3>1, <3>2
  <2>6. UpTo(T, i) = i
    BY <2>2, <2>3 DEF UpTo
  <2>7. UpTo(T, i) \in 1..Cardinality(T) /\ Nth(T, UpTo(T, i)) = i
    BY <2>1, <1>6, <1>0, NthIs
  <2>8. Kept(s) = Cardinality(T)
    BY DEF Kept, T
  <2> QED BY <2>6, <2>7, <2>8
<1>9. n <= Len(c)
  <2>1. n <= Kept(s)
    <3>1. CASE n = 0
      BY <3>1, <1>7
    <3>2. CASE n # 0
      <4>1. n \in 1..n
        BY <3>2, <1>0
      <4>2. n \in 1..Kept(s)
        BY <4>1, <1>8
      <4> QED BY <4>2
    <3> QED BY <3>1, <3>2
  <2>2. Cut(s) <= Len(s) /\ Cut(s) \in Int
    BY <1>2
  <2> QED BY <2>1, <2>2, <1>7, <1>0
<1>10. \A i \in 1..n : c[i] = t[i]
  BY <1>8, <1>7, <1>1
<1>11. Len(t) <= Len(c) /\ \A i \in 1..Len(t) : c[i] = t[i]
  BY <1>9, <1>10
<1> HIDE DEF n
<1> QED BY <1>11, <1>7, StartsIs DEF c

(***************************************************************************)
(* Types.                                                                  *)
(***************************************************************************)
Core == TypeOK /\ LeaseHeld /\ HandleCurrent /\ WorkFenced /\ SendOrder /\ CopiesInOrder /\ JournalTrue

LEMMA RecordIs ==
  /\ SessionRecord \subseteq Record /\ \A n \in Nat : <<"edit", n>> \in Record
  /\ \A r \in SessionRecord : r[1] \in Paths /\ r[2] \in 1..Len(Class[r[1]]) /\ r = <<r[1], r[2]>>
  /\ \A p \in Paths : Len(Class[p]) \in Nat /\ \A k \in 1..Len(Class[p]) : <<p, k>> \in SessionRecord
<1>1. Class \in [Paths -> Seq({"pane", "end", "release", "note"})]
  BY SessionAssumption
<1>2. \A p \in Paths : Len(Class[p]) \in Nat
  BY <1>1
<1>3. \A n \in Nat : <<"edit", n>> \in Record
  BY DEF Record
<1> QED BY <1>2, <1>3 DEF SessionRecord, Record

\* The records somebody else wrote have no place in a session.
LEMMA OfSession ==
  ASSUME NEW r \in Record, r[1] \in Paths
  PROVE  r \in SessionRecord /\ r[1] \in Paths /\ r[2] \in 1..Len(Class[r[1]])
BY SessionAssumption, RecordIs DEF Record

LEMMA FileIs ==
  ASSUME TypeOK, NEW p \in Paths
  PROVE  /\ live[p] \in 1..MaxInode /\ live[p] \in 1..used /\ live[p] # 0
         /\ Bytes(p) \in Seq(Record) /\ Len(Bytes(p)) \in Nat /\ DOMAIN Bytes(p) = 1..Len(Bytes(p))
         /\ handle[p] \in 0..used /\ (handle[p] # 0 => handle[p] \in 1..MaxInode)
<1>1. /\ used \in 0..MaxInode /\ inode \in [1..MaxInode -> Seq(Record)]
      /\ live \in [Paths -> 1..used] /\ handle \in [Paths -> 0..used] /\ MaxInode \in Nat
  BY CompactionBounds DEF TypeOK
<1>2. live[p] \in 1..used /\ live[p] \in 1..MaxInode /\ live[p] # 0
  BY <1>1
<1>3. Bytes(p) \in Seq(Record)
  BY <1>1, <1>2 DEF Bytes
<1> QED BY <1>1, <1>2, <1>3

LEMMA PlanIs ==
  ASSUME TypeOK
  PROVE  /\ Plan \in Plans /\ NoPlan \in Plans /\ Named(NoPlan) = {}
         /\ \A p \in Paths : p \in Named(Plan) <=> Eligible(p)
         /\ \A p \in Named(Plan) : Plan[p] = Fingerprint(p)
         /\ \A id \in Plans : Named(id) \subseteq Paths
<1>1. \A p \in Paths : /\ live[p] \in 0..MaxInode /\ live[p] # 0 /\ Len(Bytes(p)) \in Nat
  <2> TAKE p \in Paths
  <2>1. live[p] \in 1..MaxInode /\ live[p] # 0 /\ Len(Bytes(p)) \in Nat
    BY FileIs
  <2> QED BY <2>1
<1>2. \A p \in Paths : Fingerprint(p) \in (0..MaxInode) \X Nat /\ Fingerprint(p) # <<0, 0>>
  BY <1>1 DEF Fingerprint
<1>3. <<0, 0>> \in (0..MaxInode) \X Nat
  BY CompactionBounds
<1>4. Plan \in Plans /\ NoPlan \in Plans
  BY <1>2, <1>3 DEF Plan, NoPlan, Plans
<1>5. \A p \in Paths : NoPlan[p] = <<0, 0>>
  BY DEF NoPlan
<1>6. \A p \in Paths : Plan[p] = IF Eligible(p) THEN Fingerprint(p) ELSE <<0, 0>>
  BY DEF Plan
<1>7. Named(NoPlan) = {}
  BY <1>5 DEF Named
<1>8. \A p \in Paths : p \in Named(Plan) <=> Eligible(p)
  BY <1>6, <1>2 DEF Named
<1>9. \A p \in Named(Plan) : p \in Paths /\ Plan[p] = Fingerprint(p)
  BY <1>6, <1>8 DEF Named
<1> QED BY <1>4, <1>7, <1>8, <1>9 DEF Named

Command == [op : {"append"}, rec : SessionRecord] \cup [op : {"lease", "release"}, rec : Requests]
Pcs == Holding \cup {"idle", "asked", "waiting", "done"}

LEMMA QueueIs ==
  ASSUME TypeOK
  PROVE  /\ queue \in Seq(Command) /\ Len(queue) \in Nat /\ DOMAIN queue = 1..Len(queue)
         /\ \A k \in DOMAIN queue : queue[k] \in Command
         /\ deferred \in Seq(SessionRecord) /\ Len(deferred) \in Nat /\ DOMAIN deferred = 1..Len(deferred)
         /\ \A k \in DOMAIN deferred : deferred[k] \in SessionRecord
BY DEF TypeOK, Command

LEMMA CommandIs ==
  ASSUME NEW c \in Command
  PROVE  /\ c.op = "append" => c.rec \in SessionRecord
         /\ c.op # "append" => c.rec \in Requests /\ c.op \in {"lease", "release"}
         /\ c.op \in {"append", "lease", "release"}
BY DEF Command

LEMMA HeadIs ==
  ASSUME TypeOK, NEW op, Head1(op)
  PROVE  /\ 1 \in DOMAIN queue /\ queue[1] \in Command /\ queue[1].op = op
         /\ op = "append" => queue[1].rec \in SessionRecord /\ queue[1].rec[1] \in Paths
         /\ op \in {"lease", "release"} => queue[1].rec \in Requests
         /\ Tail(queue) \in Seq(Command) /\ Len(Tail(queue)) = Len(queue) - 1
         /\ \A k \in DOMAIN Tail(queue) :
               /\ k \in Nat /\ k + 1 \in DOMAIN queue /\ k + 1 # 1
               /\ Tail(queue)[k] = queue[k + 1]
<1>1. /\ queue \in Seq(Command) /\ Len(queue) \in Nat /\ DOMAIN queue = 1..Len(queue)
      /\ \A k \in DOMAIN queue : queue[k] \in Command
  BY QueueIs
<1>2. queue # <<>> /\ queue[1].op = op
  BY DEF Head1
<1>3. Len(queue) # 0
  BY <1>1, <1>2
<1>4. 1 \in DOMAIN queue /\ queue[1] \in Command
  BY <1>1, <1>3
<1>5. op = "append" => queue[1].rec \in SessionRecord
  BY <1>4, <1>2, CommandIs
<1>6. op \in {"lease", "release"} => queue[1].rec \in Requests
  BY <1>4, <1>2, CommandIs
<1>7. /\ Tail(queue) \in Seq(Command) /\ Len(Tail(queue)) = Len(queue) - 1
      /\ \A k \in 1..Len(queue) - 1 : Tail(queue)[k] = queue[k + 1]
  BY <1>1, <1>2
<1>8. \A k \in DOMAIN Tail(queue) : k \in 1..Len(queue) - 1
  BY <1>7
<1> QED BY <1>1, <1>2, <1>4, <1>5, <1>6, <1>7, <1>8, RecordIs

Rest(o) == \A q \in Requests \ {o} : own'[q] = own[q]
SameWork(o) ==
    /\ own'[o].plan = own[o].plan /\ own'[o].fence = own[o].fence /\ own'[o].todo = own[o].todo
    /\ own'[o].path = own[o].path /\ own'[o].bytes = own[o].bytes

LEMMA OwnIs ==
  ASSUME TypeOK, NEW o \in Requests
  PROVE  /\ own \in [Requests -> Request] /\ own[o] \in Request /\ own[o].pc \in Pcs
         /\ own[o].plan \in Plans /\ own[o].fence \subseteq Paths /\ own[o].todo \subseteq Paths
         /\ own[o].path \in Paths \cup {NoPath} /\ own[o].bytes \in Seq(Record)
BY DEF TypeOK, Request, Pcs

LEMMA GoMoves ==
  ASSUME TypeOK, NEW o \in Requests, NEW pc \in Pcs, own' = [own EXCEPT ![o].pc = pc]
  PROVE  own' \in [Requests -> Request] /\ own'[o].pc = pc /\ SameWork(o) /\ Rest(o)
<1>1. own \in [Requests -> Request] /\ own[o] \in Request
  BY OwnIs
<1>2. [own[o] EXCEPT !.pc = pc] \in Request
  BY <1>1 DEF Request, Pcs
<1> QED BY <1>1, <1>2 DEF Request, SameWork, Rest

LEMMA IdleIs ==
  /\ NoPlan \in Plans /\ Named(NoPlan) = {} /\ Idle \in Request
  /\ Idle.pc = "idle" /\ Idle.plan = NoPlan /\ Idle.fence = {} /\ Idle.todo = {}
  /\ Idle.path = NoPath /\ Idle.bytes = <<>>
<1>1. NoPlan \in Plans
  BY CompactionBounds DEF NoPlan, Plans
<1>2. Named(NoPlan) = {}
  BY DEF NoPlan, Named
<1>3. <<>> \in Seq(Record)
  OBVIOUS
<1> QED BY <1>1, <1>2, <1>3 DEF Idle, Request

LEMMA IdleMoves ==
  ASSUME TypeOK, NEW o \in Requests, NEW pc \in Pcs,
         own' = [own EXCEPT ![o] = [Idle EXCEPT !.pc = pc]]
  PROVE  /\ own' \in [Requests -> Request] /\ own'[o].pc = pc /\ Rest(o)
         /\ own'[o].plan = NoPlan /\ own'[o].fence = {} /\ own'[o].todo = {}
         /\ own'[o].path = NoPath /\ own'[o].bytes = <<>>
<1>1. own \in [Requests -> Request]
  BY OwnIs
<1>2. [Idle EXCEPT !.pc = pc] \in Request
  BY IdleIs DEF Request, Pcs
<1>3. own' \in [Requests -> Request] /\ own'[o] = [Idle EXCEPT !.pc = pc] /\ Rest(o)
  BY <1>1, <1>2 DEF Rest
<1> QED BY <1>3, IdleIs DEF Request

LEMMA AskMoves ==
  ASSUME TypeOK, NEW o \in Requests, NEW id \in Plans, NEW F \in SUBSET Paths, NEW b \in BOOLEAN,
         \/ own' = [own EXCEPT ![o] = [Idle EXCEPT !.pc = "asked", !.plan = id, !.fence = F,
                                        !.confirmed = b]]
         \/ own' = [own EXCEPT ![o] = [Idle EXCEPT !.pc = "asked", !.plan = id, !.fence = F]]
  PROVE  /\ own' \in [Requests -> Request] /\ own'[o].pc = "asked" /\ Rest(o)
         /\ own'[o].plan = id /\ own'[o].fence = F /\ own'[o].todo = {}
<1>1. own \in [Requests -> Request]
  BY OwnIs
<1> DEFINE x == [Idle EXCEPT !.pc = "asked", !.plan = id, !.fence = F, !.confirmed = b]
           y == [Idle EXCEPT !.pc = "asked", !.plan = id, !.fence = F]
<1>2. /\ x \in Request /\ x.pc = "asked" /\ x.plan = id /\ x.fence = F /\ x.todo = {}
      /\ y \in Request /\ y.pc = "asked" /\ y.plan = id /\ y.fence = F /\ y.todo = {}
  BY IdleIs DEF Request
<1> HIDE DEF x, y
<1>3. own' = [own EXCEPT ![o] = x] \/ own' = [own EXCEPT ![o] = y]
  BY DEF x, y
<1> QED BY <1>1, <1>2, <1>3 DEF Rest

\* The steps that take a file, or the list of files, in hand.
LEMMA TodoMoves ==
  ASSUME TypeOK, NEW o \in Requests, NEW pc \in Pcs, NEW T \in SUBSET Paths,
         own' = [own EXCEPT ![o].pc = pc, ![o].todo = T]
  PROVE  /\ own' \in [Requests -> Request] /\ own'[o].pc = pc /\ own'[o].todo = T /\ Rest(o)
         /\ own'[o].plan = own[o].plan /\ own'[o].fence = own[o].fence
         /\ own'[o].path = own[o].path /\ own'[o].bytes = own[o].bytes
<1>1. own \in [Requests -> Request] /\ own[o] \in Request
  BY OwnIs
<1>2. [own[o] EXCEPT !.pc = pc, !.todo = T] \in Request
  BY <1>1 DEF Request, Pcs
<1>3. own' = [own EXCEPT ![o] = [own[o] EXCEPT !.pc = pc, !.todo = T]]
  BY <1>1
<1> QED BY <1>1, <1>2, <1>3 DEF Request, Rest

LEMMA SkipMoves ==
  ASSUME TypeOK, NEW o \in Requests, NEW T \in SUBSET Paths,
         own' = [own EXCEPT ![o].todo = T]
  PROVE  /\ own' \in [Requests -> Request] /\ own'[o].pc = own[o].pc /\ own'[o].todo = T /\ Rest(o)
         /\ own'[o].plan = own[o].plan /\ own'[o].fence = own[o].fence
         /\ own'[o].path = own[o].path /\ own'[o].bytes = own[o].bytes
<1>1. own \in [Requests -> Request] /\ own[o] \in Request
  BY OwnIs
<1>2. [own[o] EXCEPT !.todo = T] \in Request
  BY <1>1 DEF Request
<1> QED BY <1>1, <1>2 DEF Request, Rest

LEMMA SetMoves ==
  ASSUME TypeOK, NEW o \in Requests, NEW x \in Request, own' = [own EXCEPT ![o] = x]
  PROVE  own' \in [Requests -> Request] /\ own'[o] = x /\ Rest(o)
<1>1. own \in [Requests -> Request]
  BY OwnIs
<1> QED BY <1>1 DEF Rest

LEMMA TakeMoves ==
  ASSUME TypeOK, NEW o \in Requests, NEW pc \in Pcs, NEW T \in SUBSET Paths, NEW p \in Paths, NEW b \in Seq(Record),
         own' = [own EXCEPT ![o].pc = pc, ![o].todo = T, ![o].path = p, ![o].bytes = b]
  PROVE  /\ own' \in [Requests -> Request] /\ own'[o].pc = pc /\ own'[o].todo = T /\ Rest(o)
         /\ own'[o].plan = own[o].plan /\ own'[o].fence = own[o].fence
         /\ own'[o].path = p /\ own'[o].bytes = b
<1>1. own \in [Requests -> Request] /\ own[o] \in Request
  BY OwnIs
<1> DEFINE x == [own[o] EXCEPT !.pc = pc, !.todo = T, !.path = p, !.bytes = b]
<1>2. /\ x \in Request /\ x.pc = pc /\ x.plan = own[o].plan /\ x.fence = own[o].fence
      /\ x.todo = T /\ x.path = p /\ x.bytes = b
  BY <1>1 DEF Request, Pcs
<1>3. own' = [own EXCEPT ![o] = x]
  BY <1>1
<1> HIDE DEF x
<1>4. x \in Request
  BY <1>2
<1>5. own' \in [Requests -> Request] /\ own'[o] = x /\ Rest(o)
  BY <1>3, <1>4, SetMoves
<1> QED BY <1>2, <1>5

LEMMA RefuseMoves ==
  ASSUME TypeOK, NEW o \in Requests, NEW pc \in Pcs, NEW T \in SUBSET Paths, NEW p \in Paths,
         own' = [own EXCEPT ![o].pc = pc, ![o].todo = T, ![o].path = p]
  PROVE  /\ own' \in [Requests -> Request] /\ own'[o].pc = pc /\ own'[o].todo = T /\ Rest(o)
         /\ own'[o].plan = own[o].plan /\ own'[o].fence = own[o].fence
         /\ own'[o].path = p /\ own'[o].bytes = own[o].bytes
<1>1. own \in [Requests -> Request] /\ own[o] \in Request
  BY OwnIs
<1> DEFINE x == [own[o] EXCEPT !.pc = pc, !.todo = T, !.path = p]
<1>2. /\ x \in Request /\ x.pc = pc /\ x.plan = own[o].plan /\ x.fence = own[o].fence
      /\ x.todo = T /\ x.path = p /\ x.bytes = own[o].bytes
  BY <1>1 DEF Request, Pcs
<1>3. own' = [own EXCEPT ![o] = x]
  BY <1>1
<1> HIDE DEF x
<1>4. x \in Request
  BY <1>2
<1>5. own' \in [Requests -> Request] /\ own'[o] = x /\ Rest(o)
  BY <1>3, <1>4, SetMoves
<1> QED BY <1>2, <1>5

LEMMA SwapMoves ==
  ASSUME TypeOK, NEW o \in Requests, NEW pc \in Pcs, NEW T \in SUBSET Paths, NEW p \in Paths,
         own' = [own EXCEPT ![o].todo = T, ![o].path = p, ![o].pc = pc]
  PROVE  /\ own' \in [Requests -> Request] /\ own'[o].pc = pc /\ own'[o].todo = T /\ Rest(o)
         /\ own'[o].plan = own[o].plan /\ own'[o].fence = own[o].fence
         /\ own'[o].path = p /\ own'[o].bytes = own[o].bytes
<1>1. own \in [Requests -> Request] /\ own[o] \in Request
  BY OwnIs
<1> DEFINE x == [own[o] EXCEPT !.todo = T, !.path = p, !.pc = pc]
<1>2. /\ x \in Request /\ x.pc = pc /\ x.plan = own[o].plan /\ x.fence = own[o].fence
      /\ x.todo = T /\ x.path = p /\ x.bytes = own[o].bytes
  BY <1>1 DEF Request, Pcs
<1>3. own' = [own EXCEPT ![o] = x]
  BY <1>1
<1> HIDE DEF x
<1>4. x \in Request
  BY <1>2
<1>5. own' \in [Requests -> Request] /\ own'[o] = x /\ Rest(o)
  BY <1>3, <1>4, SetMoves
<1> QED BY <1>2, <1>5

(***************************************************************************)
(* What a step of the work does to the request, the queue and the flock.   *)
(***************************************************************************)
Carries(o) == own[o].pc \in Working /\ own'[o].pc \in Working /\ UNCHANGED <<queue, lock>>
Begins(o) ==
    own[o].pc = "leased" /\ lock = NoOne /\ lock' = o /\ own'[o].pc \in {"next", "restore"}
      /\ UNCHANGED queue
Ends(o) ==
    own[o].pc \in Working \cup {"leased"} /\ own'[o].pc = "releasing"
      /\ lock' = (IF lock = o THEN NoOne ELSE lock)
      /\ queue' = Append(queue, [op |-> "release", rec |-> o])
WorkSteps(o) ==
    \/ Apply(o) \/ NextFile(o) \/ Archive(o) \/ JournalArchived(o) \/ Stage(o)
    \/ JournalStaged(o) \/ JournalRefused(o) \/ Verify(o) \/ Rename(o) \/ JournalCommitted(o)
    \/ BeginRollback(o) \/ Restore(o) \/ Swap(o)

LEMMA OverMoves ==
  ASSUME TypeOK, NEW o \in Requests, Over(o), own[o].pc \in Working \cup {"leased"}
  PROVE  own' \in [Requests -> Request] /\ SameWork(o) /\ Rest(o) /\ Ends(o)
<1>1. own' = [own EXCEPT ![o].pc = "releasing"] /\ "releasing" \in Pcs
  BY DEF Over, Pcs, Holding
<1>2. own' \in [Requests -> Request] /\ own'[o].pc = "releasing" /\ SameWork(o) /\ Rest(o)
  BY <1>1, GoMoves
<1> QED BY <1>2 DEF Over, Ends

LEMMA PcsAre ==
  /\ Reading \subseteq Working /\ Working \subseteq Holding /\ Holding \subseteq Pcs
  /\ "next" \in Working /\ "refused" \in Working /\ "restore" \in Working /\ "swap" \in Working
  /\ "archive" \in Working /\ "archived" \in Working /\ "stage" \in Working
  /\ "staged" \in Working /\ "verify" \in Working /\ "rename" \in Working /\ "renamed" \in Working
  /\ "leased" \notin Working /\ "releasing" \notin Working /\ "idle" \notin Holding
  /\ "asked" \notin Holding /\ "waiting" \notin Holding /\ "done" \notin Holding
  /\ {"leased", "releasing"} \subseteq Holding
BY DEF Pcs, Holding, Working, Reading

LEMMA JournalMoves ==
  ASSUME TypeOK, NEW o \in Requests, NEW from \in Working, NEW j, NEW to \in Working,
         WriteJournal(o, from, j, to)
  PROVE  /\ own' \in [Requests -> Request] /\ SameWork(o) /\ Rest(o) /\ own[o].pc = from
         /\ \/ Carries(o) /\ own'[o].pc = to /\ Journalled(o, j)
            \/ Ends(o) /\ UNCHANGED manifest
<1>1. own[o].pc = from
  BY DEF WriteJournal, At
<1>2. CASE Journalled(o, j) /\ Go(o, to) /\ UNCHANGED <<queue, lock, faults>>
  <2>1. to \in Pcs /\ own' = [own EXCEPT ![o].pc = to]
    BY <1>2, PcsAre DEF Go
  <2>2. own' \in [Requests -> Request] /\ own'[o].pc = to /\ SameWork(o) /\ Rest(o)
    BY <2>1, GoMoves
  <2> QED BY <1>1, <1>2, <2>2 DEF Carries
<1>3. CASE Over(o) /\ UNCHANGED manifest
  BY <1>1, <1>3, OverMoves
<1> QED BY <1>2, <1>3 DEF WriteJournal

LEMMA WorkMoves ==
  ASSUME TypeOK, NEW o \in Requests, WorkSteps(o)
  PROVE  /\ own' \in [Requests -> Request] /\ Rest(o)
         /\ own'[o].plan = own[o].plan /\ own'[o].fence = own[o].fence
         /\ Carries(o) \/ Begins(o) \/ Ends(o)
<1> DEFINE Goal == /\ own' \in [Requests -> Request] /\ Rest(o)
                   /\ own'[o].plan = own[o].plan /\ own'[o].fence = own[o].fence
                   /\ Carries(o) \/ Begins(o) \/ Ends(o)
<1>0. own[o].todo \subseteq Paths /\ own[o].plan \in Plans /\ Named(own[o].plan) \subseteq Paths
  BY OwnIs, PlanIs
<1>1. ASSUME NEW pc \in Working, Go(o, pc), own[o].pc \in Working, UNCHANGED <<queue, lock>>
      PROVE  Goal
  <2>1. pc \in Pcs /\ own' = [own EXCEPT ![o].pc = pc]
    BY <1>1, PcsAre DEF Go
  <2>2. own' \in [Requests -> Request] /\ own'[o].pc = pc /\ SameWork(o) /\ Rest(o)
    BY <2>1, GoMoves
  <2> QED BY <1>1, <2>2 DEF Carries, SameWork
<1>2. ASSUME Over(o), own[o].pc \in Working \cup {"leased"}
      PROVE  Goal
  BY <1>2, OverMoves DEF SameWork
<1>3. ASSUME NEW j, NEW from \in Working, NEW to \in Working, WriteJournal(o, from, j, to)
      PROVE  Goal
  <2>1. /\ own' \in [Requests -> Request] /\ SameWork(o) /\ Rest(o)
        /\ Carries(o) \/ Ends(o)
    BY <1>3, JournalMoves
  <2> QED BY <2>1 DEF SameWork
<1> SUFFICES Goal
  OBVIOUS
<1> HIDE DEF Goal
<1>4. CASE Apply(o)
  <2>1. own[o].pc = "leased"
    BY <1>4 DEF Apply, At
  <2>2. CASE Over(o)
    BY <2>1, <2>2, <1>2
  <2>3. CASE /\ lock = NoOne /\ lock' = o
             /\ own' = [own EXCEPT ![o].pc = "next", ![o].todo = Named(own[o].plan)]
             /\ UNCHANGED <<queue, faults>>
    <3>1. "next" \in Pcs
      BY PcsAre
    <3>2. /\ own' \in [Requests -> Request] /\ own'[o].pc = "next" /\ Rest(o)
          /\ own'[o].plan = own[o].plan /\ own'[o].fence = own[o].fence
      BY <3>1, <1>0, <2>3, TodoMoves
    <3> QED BY <2>1, <2>3, <3>2 DEF Goal, Begins
  <2> QED BY <1>4, <2>2, <2>3 DEF Apply
<1>5. CASE NextFile(o)
  <2>1. own[o].pc = "next" /\ "next" \in Working /\ "archive" \in Pcs /\ "refused" \in Pcs
    BY <1>5, PcsAre DEF NextFile, At
  <2>2. CASE Over(o)
    BY <2>1, <2>2, <1>2
  <2>3. ASSUME NEW p \in own[o].todo, UNCHANGED <<queue, lock>>,
               own' = [own EXCEPT ![o].pc = "archive", ![o].todo = @ \ {p},
                                        ![o].path = p, ![o].bytes = Bytes(p)]
        PROVE  Goal
    <3>1. p \in Paths /\ Bytes(p) \in Seq(Record) /\ own[o].todo \ {p} \in SUBSET Paths
      BY <1>0, FileIs
    <3>2. own' = [own EXCEPT ![o].pc = "archive", ![o].todo = own[o].todo \ {p},
                                        ![o].path = p, ![o].bytes = Bytes(p)]
      BY <2>3, OwnIs
    <3>3. /\ own' \in [Requests -> Request] /\ own'[o].pc = "archive" /\ Rest(o)
          /\ own'[o].plan = own[o].plan /\ own'[o].fence = own[o].fence
      BY <3>1, <3>2, <2>1, TakeMoves
    <3> QED BY <3>3, <2>1, <2>3, PcsAre DEF Goal, Carries
  <2>4. ASSUME NEW p \in own[o].todo, UNCHANGED <<queue, lock>>,
               own' = [own EXCEPT ![o].pc = "refused", ![o].todo = @ \ {p}, ![o].path = p]
        PROVE  Goal
    <3>1. p \in Paths /\ own[o].bytes \in Seq(Record) /\ own[o].todo \ {p} \in SUBSET Paths
      BY <1>0, OwnIs
    <3>2. own' = [own EXCEPT ![o].pc = "refused", ![o].todo = own[o].todo \ {p}, ![o].path = p]
      BY <2>4, OwnIs
    <3>3. /\ own' \in [Requests -> Request] /\ own'[o].pc = "refused" /\ Rest(o)
          /\ own'[o].plan = own[o].plan /\ own'[o].fence = own[o].fence
      BY <3>1, <3>2, <2>1, RefuseMoves
    <3> QED BY <3>3, <2>1, <2>4, PcsAre DEF Goal, Carries
  <2> QED BY <1>5, <2>2, <2>3, <2>4 DEF NextFile
<1>6. CASE JournalArchived(o) \/ JournalStaged(o) \/ JournalRefused(o) \/ JournalCommitted(o)
  BY <1>6, <1>3, PcsAre DEF JournalArchived, JournalStaged, JournalRefused, JournalCommitted
<1>7. CASE Archive(o) \/ Stage(o) \/ Verify(o) \/ Rename(o) \/ Swap(o)
  BY <1>7, <1>1, PcsAre DEF Archive, Stage, Verify, Rename, Swap, At
<1>8. CASE BeginRollback(o)
  <2>1. own[o].pc = "leased"
    BY <1>8 DEF BeginRollback, At
  <2>2. CASE Over(o)
    BY <2>1, <2>2, <1>2
  <2>3. CASE /\ lock = NoOne /\ lock' = o
             /\ own' = [own EXCEPT ![o].pc = "restore", ![o].todo = Touched(Id(o))]
             /\ UNCHANGED queue
    <3>1. "restore" \in Pcs /\ Touched(Id(o)) \in SUBSET Paths
      BY PcsAre, <1>0 DEF Touched, Id
    <3>2. /\ own' \in [Requests -> Request] /\ own'[o].pc = "restore" /\ Rest(o)
          /\ own'[o].plan = own[o].plan /\ own'[o].fence = own[o].fence
      BY <3>1, <2>3, TodoMoves
    <3> QED BY <2>1, <2>3, <3>2 DEF Goal, Begins
  <2> QED BY <1>8, <2>2, <2>3 DEF BeginRollback
<1>9. CASE Restore(o)
  <2>1. own[o].pc = "restore" /\ "restore" \in Working /\ "swap" \in Pcs
    BY <1>9, PcsAre DEF Restore, At
  <2>2. CASE Over(o)
    BY <2>1, <2>2, <1>2
  <2>3. ASSUME NEW p \in own[o].todo, UNCHANGED <<queue, lock>>,
               own' = [own EXCEPT ![o].todo = @ \ {p}]
        PROVE  Goal
    <3>1. own[o].todo \ {p} \in SUBSET Paths
      BY <1>0
    <3>2. own' = [own EXCEPT ![o].todo = own[o].todo \ {p}]
      BY <2>3, OwnIs
    <3>3. /\ own' \in [Requests -> Request] /\ own'[o].pc = own[o].pc /\ Rest(o)
          /\ own'[o].plan = own[o].plan /\ own'[o].fence = own[o].fence
      BY <3>1, <3>2, SkipMoves
    <3> QED BY <3>3, <2>1, <2>3 DEF Goal, Carries
  <2>4. ASSUME NEW p \in own[o].todo, UNCHANGED <<queue, lock>>,
               own' = [own EXCEPT ![o].todo = @ \ {p}, ![o].path = p, ![o].pc = "swap"]
        PROVE  Goal
    <3>1. p \in Paths /\ own[o].bytes \in Seq(Record) /\ own[o].todo \ {p} \in SUBSET Paths
      BY <1>0, OwnIs
    <3>2. own' = [own EXCEPT ![o].todo = own[o].todo \ {p}, ![o].path = p, ![o].pc = "swap"]
      BY <2>4, OwnIs
    <3>3. /\ own' \in [Requests -> Request] /\ own'[o].pc = "swap" /\ Rest(o)
          /\ own'[o].plan = own[o].plan /\ own'[o].fence = own[o].fence
      BY <3>1, <3>2, <2>1, SwapMoves
    <3> QED BY <3>3, <2>1, <2>4, PcsAre DEF Goal, Carries
  <2> QED BY <1>9, <2>2, <2>3, <2>4 DEF Restore
<1>10. Goal
  BY <1>4, <1>5, <1>6, <1>7, <1>8, <1>9 DEF WorkSteps
<1> QED BY <1>10 DEF Goal

(***************************************************************************)
(* Who changes what.                                                       *)
(***************************************************************************)
LEMMA NextCases ==
  ASSUME Next
  PROVE  \/ \E p \in Paths : Send(p) \/ Edit(p)
         \/ DeferAppend \/ RunAppend \/ GrantLease \/ EndLease \/ DryRun \/ DaemonDies
         \/ \E o \in Requests : AskCompact(o) \/ AskRollback(o) \/ QueueLease(o) \/ WorkSteps(o)
BY DEF Next, WriterLoop, Work, WorkSteps

LEMMA WorkQuiet ==
  ASSUME NEW o, WorkSteps(o)
  PROVE  /\ UNCHANGED <<sent, token, stops, edits, status, leased, deferred, handle>>
         /\ Rename(o) \/ Swap(o) \/ UNCHANGED sessions
         /\ UNCHANGED faults \/ faults' = faults + 1
<1>1. CASE Apply(o)
  BY <1>1 DEF Apply, Fault
<1>2. CASE NextFile(o) \/ Archive(o) \/ Stage(o)
  BY <1>2 DEF NextFile, Archive, Stage, Quiet, Fault
<1>3. CASE JournalArchived(o) \/ JournalStaged(o) \/ JournalRefused(o) \/ JournalCommitted(o)
  BY <1>3 DEF JournalArchived, JournalStaged, JournalRefused, JournalCommitted, WriteJournal, Quiet, Fault
<1>4. CASE Verify(o) \/ Rename(o) \/ Swap(o)
  BY <1>4 DEF Verify, Rename, Swap, Quiet, Fault
<1>5. CASE BeginRollback(o) \/ Restore(o)
  BY <1>5 DEF BeginRollback, Restore, Quiet, Fault
<1> QED BY <1>1, <1>2, <1>3, <1>4, <1>5 DEF WorkSteps

\* The files change as the writer appends to one, as somebody else does, and as a
\* staged file takes a path.
Acks(p, r) ==
    /\ RunAppend /\ r = queue[1].rec /\ r \in SessionRecord /\ r[1] = p /\ p \notin leased
    /\ status' = [status EXCEPT ![p][r[2]] = "ok"]
Edits(p, r) == Edit(p) /\ r[1] = "edit" /\ p \in leased /\ UNCHANGED status
Grows(p, r) == inode' = [inode EXCEPT ![live[p]] = Append(@, r)] /\ UNCHANGED <<used, live>>
Replaces(o) ==
    /\ Rename(o) \/ Swap(o)
    /\ own[o].pc \in {"rename", "swap"} /\ own[o].path \in Paths /\ Renamed(own[o].path)

LEMMA RunAppendIs ==
  ASSUME TypeOK, HandleCurrent, RunAppend
  PROVE  /\ queue[1].op = "append" /\ queue[1].rec \in SessionRecord /\ queue[1].rec[1] \in Paths
         /\ queue[1].rec[1] \notin leased
         /\ LET p == queue[1].rec[1] IN
            \/ Acks(p, queue[1].rec) /\ Grows(p, queue[1].rec) /\ UNCHANGED faults
               /\ handle' = [handle EXCEPT ![p] = IF ClassOf(queue[1].rec) = "release"
                                                  THEN 0 ELSE live[p]]
            \/ UNCHANGED sessions /\ faults' = faults + 1
               /\ status' = [status EXCEPT ![p][queue[1].rec[2]] = "failed"]
               /\ handle' = [handle EXCEPT ![p] = live[p]]
<1> DEFINE p == queue[1].rec[1]
           r == queue[1].rec
           n == IF handle[p] = 0 THEN live[p] ELSE handle[p]
<1>1. Head1("append") /\ p \notin leased
  BY DEF RunAppend
<1>2. queue[1].op = "append" /\ r \in SessionRecord /\ p \in Paths
  BY <1>1, HeadIs
<1>3. n = live[p]
  BY <1>2 DEF HandleCurrent
<1>4. \/ /\ inode' = [inode EXCEPT ![n] = Append(@, r)]
         /\ status' = [status EXCEPT ![p][r[2]] = "ok"]
         /\ handle' = [handle EXCEPT ![p] = IF ClassOf(r) = "release" THEN 0 ELSE n]
         /\ UNCHANGED faults
      \/ /\ Fault
         /\ status' = [status EXCEPT ![p][r[2]] = "failed"]
         /\ handle' = [handle EXCEPT ![p] = n]
         /\ UNCHANGED inode
  BY DEF RunAppend
<1>5. UNCHANGED <<used, live>>
  BY DEF RunAppend
<1> HIDE DEF n
<1> QED BY <1>1, <1>2, <1>3, <1>4, <1>5 DEF Acks, Grows, Fault, sessions

LEMMA PathIs ==
  ASSUME TypeOK, WorkFenced, NEW o \in Requests, own[o].pc \in Working \ {"next", "restore"}
  PROVE  own[o].path \in Paths /\ own[o].path \in Named(own[o].plan) \ own[o].todo
BY OwnIs, PlanIs DEF WorkFenced

LEMMA FileMoves ==
  ASSUME TypeOK, HandleCurrent, WorkFenced, Next
  PROVE  \/ UNCHANGED sessions
         \/ \E p \in Paths, r \in Record : Grows(p, r) /\ (Acks(p, r) \/ Edits(p, r))
         \/ \E o \in Requests : Replaces(o)
<1>1. CASE RunAppend
  <2>1. queue[1].rec \in SessionRecord /\ queue[1].rec[1] \in Paths /\ queue[1].rec \in Record
    BY <1>1, RunAppendIs, RecordIs
  <2> QED BY <1>1, <2>1, RunAppendIs
<1>2. ASSUME NEW p \in Paths, Edit(p)
      PROVE  \E r \in Record : Grows(p, r) /\ Edits(p, r)
  <2>1. <<"edit", edits>> \in Record
    BY RecordIs DEF TypeOK
  <2>2. Grows(p, <<"edit", edits>>) /\ Edits(p, <<"edit", edits>>)
    BY <1>2 DEF Edit, Grows, Edits, writer
  <2> QED BY <2>1, <2>2
<1>3. ASSUME NEW o \in Requests, WorkSteps(o)
      PROVE  UNCHANGED sessions \/ Replaces(o)
  <2>1. CASE UNCHANGED sessions
    BY <2>1
  <2>2. CASE Rename(o)
    <3>1. own[o].pc = "rename" /\ (UNCHANGED sessions \/ Renamed(own[o].path))
      BY <2>2 DEF Rename, At, Cur
    <3>2. own[o].path \in Paths
      BY <3>1, PathIs DEF Working, Reading
    <3> QED BY <2>2, <3>1, <3>2 DEF Replaces
  <2>3. CASE Swap(o)
    <3>1. own[o].pc = "swap" /\ (UNCHANGED sessions \/ Renamed(own[o].path))
      BY <2>3 DEF Swap, At, Cur
    <3>2. own[o].path \in Paths
      BY <3>1, PathIs DEF Working, Reading
    <3> QED BY <2>3, <3>1, <3>2 DEF Replaces
  <2> QED BY <1>3, <2>1, <2>2, <2>3, WorkQuiet
<1>4. CASE DeferAppend \/ GrantLease \/ EndLease \/ DryRun \/ DaemonDies
  BY <1>4 DEF DeferAppend, GrantLease, EndLease, DryRun, DaemonDies
<1>5. ASSUME NEW p \in Paths, Send(p) PROVE UNCHANGED sessions
  BY <1>5 DEF Send
<1>6. ASSUME NEW o \in Requests, AskCompact(o) \/ AskRollback(o) \/ QueueLease(o)
      PROVE  UNCHANGED sessions
  BY <1>6 DEF AskCompact, AskRollback, QueueLease
<1> QED BY <1>1, <1>2, <1>3, <1>4, <1>5, <1>6, NextCases

\* Inode numbers are not reused, and no file shrinks.
LEMMA InodesKept ==
  ASSUME TypeOK, HandleCurrent, WorkFenced, Next
  PROVE  /\ used' \in used..MaxInode /\ inode' \in [1..MaxInode -> Seq(Record)]
         /\ live' \in [Paths -> 1..used']
         /\ \A n \in 1..used : /\ Len(inode[n]) \in Nat /\ Len(inode'[n]) \in Nat
                               /\ Len(inode'[n]) >= Len(inode[n])
                               /\ \A k \in 1..Len(inode[n]) : inode'[n][k] = inode[n][k]
         /\ \A p \in Paths : live'[p] = live[p] \/ live'[p] = used + 1
<1>0. /\ used \in 0..MaxInode /\ inode \in [1..MaxInode -> Seq(Record)] /\ MaxInode \in Nat
      /\ live \in [Paths -> 1..used] /\ \A n \in 1..used : n \in 1..MaxInode
  BY CompactionBounds DEF TypeOK
<1>1. \A n \in 1..used : inode[n] \in Seq(Record) /\ Len(inode[n]) \in Nat
  BY <1>0
<1>2. CASE UNCHANGED sessions
  <2>1. inode' = inode /\ used' = used /\ live' = live
    BY <1>2 DEF sessions
  <2> QED BY <1>0, <1>1, <2>1
<1>3. ASSUME NEW p \in Paths, NEW r \in Record, Grows(p, r)
      PROVE  /\ used' \in used..MaxInode /\ inode' \in [1..MaxInode -> Seq(Record)]
             /\ live' \in [Paths -> 1..used']
             /\ \A n \in 1..used : /\ Len(inode[n]) \in Nat /\ Len(inode'[n]) \in Nat
                                   /\ Len(inode'[n]) >= Len(inode[n])
                                   /\ \A k \in 1..Len(inode[n]) : inode'[n][k] = inode[n][k]
             /\ live' = live
  <2>1. /\ live[p] \in 1..MaxInode /\ Bytes(p) \in Seq(Record) /\ Bytes(p) = inode[live[p]]
    BY FileIs DEF Bytes
  <2> DEFINE s == inode[live[p]]
             t == Append(s, r)
  <2>2. s \in Seq(Record) /\ r \in Record
    BY <2>1
  <2> HIDE DEF s
  <2>3. t \in Seq(Record) /\ Len(t) = Len(s) + 1 /\ Len(s) \in Nat /\ \A k \in 1..Len(s) : t[k] = s[k]
    BY <2>2
  <2>4. inode' = [inode EXCEPT ![live[p]] = t] /\ used' = used /\ live' = live
    BY <1>3 DEF Grows, s
  <2> HIDE DEF t
  <2>5. inode' \in [1..MaxInode -> Seq(Record)]
    BY <2>1, <2>3, <2>4, <1>0
  <2>6. ASSUME NEW n \in 1..used
        PROVE  /\ Len(inode'[n]) \in Nat /\ Len(inode'[n]) >= Len(inode[n])
               /\ \A k \in 1..Len(inode[n]) : inode'[n][k] = inode[n][k]
    <3>0. n \in 1..MaxInode /\ Len(inode[n]) \in Nat
      BY <1>0, <1>1
    <3>1. CASE n = live[p]
      <4>1. inode'[n] = t /\ inode[n] = s
        BY <3>0, <3>1, <2>4, <1>0 DEF s
      <4> QED BY <4>1, <2>3
    <3>2. CASE n # live[p]
      <4>1. inode'[n] = inode[n]
        BY <3>0, <3>2, <2>4, <1>0
      <4> QED BY <4>1, <3>0
    <3> QED BY <3>1, <3>2
  <2> QED BY <2>4, <2>5, <2>6, <1>0, <1>1
<1>4. ASSUME NEW o \in Requests, Replaces(o)
      PROVE  /\ used' \in used..MaxInode /\ inode' \in [1..MaxInode -> Seq(Record)]
             /\ live' \in [Paths -> 1..used']
             /\ \A n \in 1..used : inode'[n] = inode[n]
             /\ \A p \in Paths : live'[p] = live[p] \/ live'[p] = used + 1
  <2> DEFINE q == own[o].path
  <2>1. /\ q \in Paths /\ used < MaxInode /\ used' = used + 1
        /\ inode' = [inode EXCEPT ![used + 1] = staging[q].bytes]
        /\ live' = [live EXCEPT ![q] = used + 1]
    BY <1>4 DEF Replaces, Renamed
  <2>2. staging[q].bytes \in Seq(Record)
    BY <2>1 DEF TypeOK
  <2>3. used + 1 \in 1..MaxInode
    BY <2>1, <1>0
  <2> QED BY <2>1, <2>2, <2>3, <1>0
<1>5. CASE \E o \in Requests : Replaces(o)
  <2>1. PICK o \in Requests : Replaces(o)
    BY <1>5
  <2> HIDE DEF Replaces
  <2>2. \A n \in 1..used : inode'[n] = inode[n]
    BY <2>1, <1>4
  <2> QED BY <2>1, <2>2, <1>4, <1>1
<1>6. CASE \E p \in Paths, r \in Record : Grows(p, r) /\ (Acks(p, r) \/ Edits(p, r))
  BY <1>6, <1>3
<1> QED BY <1>2, <1>5, <1>6, FileMoves

(***************************************************************************)
(* The end of a lease: what still waits, and what runs before the rest of  *)
(* the queue.                                                              *)
(***************************************************************************)
HeldPlaces == {k \in DOMAIN deferred : deferred[k][1] \in leased'}
ReadyPlaces == DOMAIN deferred \ HeldPlaces
Ready == Cardinality(ReadyPlaces)

LEMMA AppendCommand ==
  ASSUME NEW r \in SessionRecord
  PROVE  [op |-> "append", rec |-> r] \in Command
BY DEF Command

LEMMA ReleaseCommand ==
  ASSUME NEW o \in Requests, NEW op \in {"lease", "release"}
  PROVE  [op |-> op, rec |-> o] \in Command
BY DEF Command

LEMMA EndLeaseIs ==
  ASSUME TypeOK, EndLease
  PROVE  /\ queue[1].op = "release" /\ queue[1].rec \in Requests
         /\ leased' = leased \ own[queue[1].rec].fence
         /\ own' = [own EXCEPT ![queue[1].rec] = [Idle EXCEPT !.pc = "done"]]
         /\ deferred' \in Seq(SessionRecord)
         /\ \A k \in DOMAIN deferred' :
               Nth(HeldPlaces, k) \in HeldPlaces /\ deferred'[k] = deferred[Nth(HeldPlaces, k)]
         /\ \A j, k \in DOMAIN deferred' : j < k => Nth(HeldPlaces, j) < Nth(HeldPlaces, k)
         /\ queue' \in Seq(Command) /\ Ready \in Nat
         /\ \A k \in DOMAIN queue' :
               \/ /\ k <= Ready /\ Nth(ReadyPlaces, k) \in ReadyPlaces
                  /\ queue'[k] = [op |-> "append", rec |-> deferred[Nth(ReadyPlaces, k)]]
               \/ /\ k > Ready /\ k - Ready + 1 \in DOMAIN queue /\ k - Ready + 1 # 1
                  /\ queue'[k] = queue[k - Ready + 1]
         /\ \A j, k \in DOMAIN queue' :
               j < k /\ k <= Ready => Nth(ReadyPlaces, j) < Nth(ReadyPlaces, k)
<1> DEFINE o == queue[1].rec
           H == HeldPlaces
           R == ReadyPlaces
           ready == Selected(deferred, R)
           front == [k \in 1..Len(ready) |-> [op |-> "append", rec |-> ready[k]]]
           rest == Tail(queue)
<1>1. Head1("release")
  BY DEF EndLease
<1>2. /\ queue[1].op = "release" /\ o \in Requests
      /\ rest \in Seq(Command) /\ Len(rest) = Len(queue) - 1
      /\ \A k \in DOMAIN rest :
            k \in Nat /\ k + 1 \in DOMAIN queue /\ k + 1 # 1 /\ rest[k] = queue[k + 1]
  BY <1>1, HeadIs
<1>3. leased' = leased \ own[o].fence
  BY DEF EndLease
<1>4. deferred' = Selected(deferred, H)
  BY <1>3 DEF EndLease, HeldPlaces
<1>5. queue' = front \o rest
  BY <1>3 DEF EndLease, HeldPlaces, ReadyPlaces, Resumed
<1>6. own' = [own EXCEPT ![o] = [Idle EXCEPT !.pc = "done"]]
  BY DEF EndLease
<1>7. /\ deferred \in Seq(SessionRecord) /\ DOMAIN deferred = 1..Len(deferred)
      /\ Len(deferred) \in Nat /\ \A k \in DOMAIN deferred : deferred[k] \in SessionRecord
  BY QueueIs
<1>8. H \in SUBSET (1..Len(deferred)) /\ R \in SUBSET (1..Len(deferred))
  BY <1>7 DEF HeldPlaces, ReadyPlaces
<1> HIDE DEF o, H, R
<1>9. /\ Selected(deferred, H) \in Seq(SessionRecord) /\ Len(Selected(deferred, H)) = Cardinality(H)
      /\ \A i \in 1..Cardinality(H) : Nth(H, i) \in H /\ Selected(deferred, H)[i] = deferred[Nth(H, i)]
      /\ \A i, j \in 1..Cardinality(H) : i < j => Nth(H, i) < Nth(H, j)
  BY <1>7, <1>8, SelectedIs
<1>10. /\ ready \in Seq(SessionRecord) /\ Len(ready) = Cardinality(R)
       /\ \A i \in 1..Cardinality(R) : Nth(R, i) \in R /\ ready[i] = deferred[Nth(R, i)]
       /\ \A i, j \in 1..Cardinality(R) : i < j => Nth(R, i) < Nth(R, j)
  BY <1>7, <1>8, SelectedIs
<1>11. DOMAIN deferred' = 1..Cardinality(H)
  <2> DEFINE d == Selected(deferred, H)
  <2>1. d \in Seq(SessionRecord) /\ Len(d) = Cardinality(H)
    BY <1>9
  <2> HIDE DEF d
  <2>2. DOMAIN d = 1..Cardinality(H)
    BY <2>1
  <2> QED BY <2>2, <1>4 DEF d
<1>12. /\ deferred' \in Seq(SessionRecord)
       /\ \A k \in DOMAIN deferred' : Nth(H, k) \in H /\ deferred'[k] = deferred[Nth(H, k)]
       /\ \A j, k \in DOMAIN deferred' : j < k => Nth(H, j) < Nth(H, k)
  BY <1>4, <1>9, <1>11
<1> DEFINE c == Cardinality(R)
<1>13. c \in Nat /\ Len(ready) = c
  <2>1. Len(ready) \in Nat
    BY <1>10
  <2> QED BY <2>1, <1>10
<1>14. \A i \in 1..c : ready[i] \in SessionRecord
  BY <1>7, <1>8, <1>10
<1>20. front = [k \in 1..c |-> [op |-> "append", rec |-> ready[k]]]
  BY <1>13
<1> HIDE DEF ready, front, c
<1>15. \A i \in 1..c : [op |-> "append", rec |-> ready[i]] \in Command
  BY <1>14, AppendCommand
<1>16. front \in Seq(Command) /\ Len(front) = c
       /\ \A i \in 1..c : front[i] = [op |-> "append", rec |-> ready[i]]
  <2> HIDE DEF Command
  <2>1. front \in [1..c -> Command]
    BY <1>15, <1>20
  <2>2. front \in Seq(Command) /\ Len(front) = c
    BY <2>1, <1>13
  <2>3. \A i \in 1..c : front[i] = [op |-> "append", rec |-> ready[i]]
    BY <1>20
  <2> QED BY <2>2, <2>3
<1>17. /\ front \o rest \in Seq(Command) /\ Len(front \o rest) = Len(front) + Len(rest)
       /\ \A i \in 1..Len(front) : (front \o rest)[i] = front[i]
       /\ \A i \in 1..Len(rest) : (front \o rest)[Len(front) + i] = rest[i]
  <2>1. front \in Seq(Command) /\ rest \in Seq(Command)
    BY <1>2, <1>16
  <2> HIDE DEF rest
  <2> QED BY <2>1, Concat
<1> DEFINE q == front \o rest
<1>18. /\ q \in Seq(Command) /\ DOMAIN q = 1..(c + Len(rest)) /\ Len(rest) \in Nat
       /\ \A i \in 1..c : q[i] = front[i]
       /\ \A i \in 1..Len(rest) : q[c + i] = rest[i]
  BY <1>2, <1>16, <1>17
<1> HIDE DEF q, rest
<1>19. ASSUME NEW k \in DOMAIN q
       PROVE  \/ /\ k <= c /\ Nth(R, k) \in R
                 /\ q[k] = [op |-> "append", rec |-> deferred[Nth(R, k)]]
              \/ /\ k > c /\ k - c + 1 \in DOMAIN queue /\ k - c + 1 # 1
                 /\ q[k] = queue[k - c + 1]
  <2>0. k \in Nat /\ k >= 1 /\ k <= c + Len(rest)
    BY <1>18, <1>13
  <2>1. CASE k <= c
    <3>1. k \in 1..c
      BY <2>0, <2>1, <1>13
    <3>2. Nth(R, k) \in R /\ ready[k] = deferred[Nth(R, k)]
      BY <3>1, <1>10 DEF c
    <3> QED BY <3>1, <3>2, <2>1, <1>16, <1>18
  <2>2. CASE ~(k <= c)
    <3> DEFINE i == k - c
    <3>1. i \in 1..Len(rest) /\ k = c + i
      BY <2>0, <2>2, <1>13, <1>18
    <3>2. i \in DOMAIN rest
      BY <3>1, <1>2, <1>18
    <3>3. q[k] = rest[i] /\ rest[i] = queue[i + 1] /\ i + 1 \in DOMAIN queue /\ i + 1 # 1
      BY <3>1, <3>2, <1>18, <1>2
    <3>4. k > c /\ k - c + 1 = i + 1
      BY <2>0, <2>2, <1>13
    <3> QED BY <3>3, <3>4
  <2> QED BY <2>1, <2>2
<1>21. ASSUME NEW j \in DOMAIN q, NEW k \in DOMAIN q, j < k, k <= c
       PROVE  Nth(R, j) < Nth(R, k)
  <2>1. j \in 1..c /\ k \in 1..c
    BY <1>21, <1>18, <1>13
  <2> QED BY <2>1, <1>21, <1>10 DEF c
<1>22. c = Ready
  BY DEF c, R, Ready
<1>23. queue' = q
  BY <1>5 DEF q
<1> QED BY <1>2, <1>3, <1>6, <1>12, <1>13, <1>18, <1>19, <1>21, <1>22, <1>23 DEF o, H, R

(***************************************************************************)
(* Every step keeps the types.                                             *)
(***************************************************************************)
LEMMA QueueTyped ==
  ASSUME TypeOK, Next
  PROVE  queue' \in Seq(Command) /\ deferred' \in Seq(SessionRecord) /\ leased' \subseteq Paths
<1>0. /\ queue \in Seq(Command) /\ deferred \in Seq(SessionRecord) /\ leased \subseteq Paths
      /\ \A o \in Requests : own[o].fence \subseteq Paths
  BY QueueIs, OwnIs DEF TypeOK
<1>1. ASSUME NEW p \in Paths, Send(p)
      PROVE  queue' \in Seq(Command) /\ UNCHANGED <<deferred, leased>>
  <2>1. <<p, sent[p] + 1>> \in SessionRecord
    <3>1. sent[p] \in Nat /\ Len(Class[p]) \in Nat /\ sent[p] < Len(Class[p])
      BY <1>1, RecordIs DEF TypeOK, Send
    <3>2. sent[p] + 1 \in 1..Len(Class[p])
      BY <3>1
    <3> QED BY <3>2, RecordIs
  <2>2. [op |-> "append", rec |-> <<p, sent[p] + 1>>] \in Command
    BY <2>1, AppendCommand
  <2> QED BY <1>0, <1>1, <2>2 DEF Send
<1>2. ASSUME NEW o \in Requests, NEW op \in {"lease", "release"},
             queue' = Append(queue, [op |-> op, rec |-> o])
      PROVE  queue' \in Seq(Command)
  <2>1. [op |-> op, rec |-> o] \in Command
    BY ReleaseCommand
  <2> QED BY <1>0, <1>2, <2>1
<1>3. CASE DeferAppend
  <2>1. Head1("append") /\ queue' = Tail(queue) /\ deferred' = Append(deferred, queue[1].rec)
        /\ leased' = leased
    BY <1>3 DEF DeferAppend
  <2>2. queue[1].rec \in SessionRecord /\ Tail(queue) \in Seq(Command)
    BY <2>1, HeadIs
  <2> QED BY <1>0, <2>1, <2>2
<1>4. CASE RunAppend
  <2>1. Head1("append") /\ queue' = Tail(queue) /\ UNCHANGED <<deferred, leased>>
    BY <1>4 DEF RunAppend
  <2>2. Tail(queue) \in Seq(Command)
    BY <2>1, HeadIs
  <2> QED BY <1>0, <2>1, <2>2
<1>5. CASE GrantLease
  <2>1. Head1("lease") /\ queue' = Tail(queue) /\ UNCHANGED deferred
        /\ (leased' = leased \/ leased' = leased \cup own[queue[1].rec].fence)
    BY <1>5 DEF GrantLease
  <2>2. Tail(queue) \in Seq(Command) /\ queue[1].rec \in Requests
    BY <2>1, HeadIs
  <2> QED BY <1>0, <2>1, <2>2
<1>6. CASE EndLease
  BY <1>0, <1>6, EndLeaseIs
<1>7. CASE DaemonDies
  BY <1>7 DEF DaemonDies
<1>8. ASSUME NEW o \in Requests, AskCompact(o) \/ AskRollback(o) \/ QueueLease(o) \/ WorkSteps(o)
      PROVE  queue' \in Seq(Command) /\ UNCHANGED <<deferred, leased>>
  <2>1. CASE AskCompact(o) \/ AskRollback(o)
    BY <1>0, <2>1 DEF AskCompact, AskRollback, writer
  <2>2. CASE QueueLease(o)
    BY <1>2, <2>2 DEF QueueLease
  <2>3. CASE WorkSteps(o)
    <3>1. UNCHANGED queue \/ queue' = Append(queue, [op |-> "release", rec |-> o])
      BY <2>3, WorkMoves DEF Carries, Begins, Ends
    <3> QED BY <1>0, <1>2, <2>3, <3>1, WorkQuiet
  <2> QED BY <1>8, <2>1, <2>2, <2>3
<1>9. ASSUME DryRun \/ \E p \in Paths : Edit(p) PROVE UNCHANGED <<queue, deferred, leased>>
  BY <1>9 DEF DryRun, Edit, writer
<1> QED BY <1>0, <1>1, <1>3, <1>4, <1>5, <1>6, <1>7, <1>8, <1>9, NextCases

LEMMA WriterTyped ==
  ASSUME TypeOK, HandleCurrent, WorkFenced, Next
  PROVE  /\ handle' \in [Paths -> 0..used'] /\ sent' \in [Paths -> Nat] /\ DOMAIN status' = Paths
         /\ \A p \in Paths :
               status'[p] \in [1..Len(Class[p]) -> {"new", "pending", "ok", "failed"}]
<1> DEFINE St(f) == /\ DOMAIN f = Paths
                    /\ \A p \in Paths :
                          f[p] \in [1..Len(Class[p]) -> {"new", "pending", "ok", "failed"}]
<1>0. /\ handle \in [Paths -> 0..used] /\ live \in [Paths -> 1..used] /\ sent \in [Paths -> Nat]
      /\ St(status) /\ used \in Nat /\ used' \in Nat /\ used <= used'
  <2>1. used \in 0..MaxInode /\ MaxInode \in Nat
    BY CompactionBounds DEF TypeOK
  <2>2. used' \in used..MaxInode
    BY InodesKept
  <2>3. used \in Nat /\ used' \in Nat /\ used <= used'
    BY <2>1, <2>2
  <2> QED BY <2>3 DEF TypeOK
<1>1. ASSUME handle' \in [Paths -> 0..used] PROVE handle' \in [Paths -> 0..used']
  BY <1>0, <1>1
<1>2. ASSUME NEW p \in Paths, NEW k \in 1..Len(Class[p]), NEW v \in {"new", "pending", "ok", "failed"},
             status' = [status EXCEPT ![p][k] = v]
      PROVE  St(status')
  BY <1>0, <1>2
<1>3. ASSUME NEW p \in Paths, Send(p)
      PROVE  handle' = handle /\ sent' \in [Paths -> Nat] /\ St(status')
  <2>1. sent[p] \in Nat /\ Len(Class[p]) \in Nat /\ sent[p] < Len(Class[p])
    BY <1>3, RecordIs DEF TypeOK, Send
  <2>2. sent[p] + 1 \in 1..Len(Class[p])
    BY <2>1
  <2>3. St(status')
    <3>1. status' = [status EXCEPT ![p][sent[p] + 1] = "pending"]
      BY <1>3 DEF Send
    <3> HIDE DEF St
    <3> QED BY <2>2, <3>1, <1>2
  <2> QED BY <1>0, <1>3, <2>1, <2>3 DEF Send
<1>4. CASE RunAppend
  <2> DEFINE r == queue[1].rec
             p == r[1]
  <2>1. p \in Paths /\ r[2] \in 1..Len(Class[p]) /\ live[p] \in 0..used /\ 0 \in 0..used /\ sent' = sent
    <3>1. r \in SessionRecord /\ p \in Paths
      BY <1>4, RunAppendIs
    <3>2. r[2] \in 1..Len(Class[p])
      BY <3>1, RecordIs
    <3>3. sent' = sent
      BY <1>4 DEF RunAppend
    <3>4. live[p] \in 1..used
      BY <3>1, <1>0
    <3> HIDE DEF p, r
    <3>5. live[p] \in 0..used /\ 0 \in 0..used
      BY <3>4, <1>0
    <3> QED BY <3>1, <3>2, <3>3, <3>5
  <2>2. /\ handle' = [handle EXCEPT ![p] = IF ClassOf(r) = "release" THEN 0 ELSE live[p]]
           \/ handle' = [handle EXCEPT ![p] = live[p]]
        /\ status' = [status EXCEPT ![p][r[2]] = "ok"] \/ status' = [status EXCEPT ![p][r[2]] = "failed"]
    BY <1>4, RunAppendIs DEF Acks
  <2> HIDE DEF p, r, St
  <2>3. handle' \in [Paths -> 0..used]
    BY <1>0, <2>1, <2>2
  <2>4. St(status')
    BY <2>1, <2>2, <1>2
  <2> QED BY <1>0, <1>1, <2>1, <2>3, <2>4 DEF St
<1>5. CASE GrantLease
  <2>1. 0 \in 0..used /\ UNCHANGED <<sent, status>>
        /\ (handle' = handle
            \/ handle' = [p \in Paths |-> IF p \in own[queue[1].rec].fence THEN 0 ELSE handle[p]])
    BY <1>0, <1>5 DEF GrantLease
  <2>2. handle' \in [Paths -> 0..used]
    BY <1>0, <2>1
  <2> QED BY <1>0, <1>1, <2>1, <2>2
<1>6. CASE DaemonDies
  <2>1. /\ handle' = [p \in Paths |-> 0] /\ sent' = sent
        /\ status' = [p \in Paths |-> [k \in DOMAIN status[p] |->
                    IF status[p][k] = "pending" THEN "failed" ELSE status[p][k]]]
    BY <1>6 DEF DaemonDies
  <2>2. St(status')
    BY <1>0, <2>1
  <2> QED BY <1>0, <2>1, <2>2
<1>7. ASSUME NEW o \in Requests, AskCompact(o) \/ AskRollback(o) \/ QueueLease(o) \/ WorkSteps(o)
      PROVE  UNCHANGED <<handle, sent, status>>
  BY <1>7, WorkQuiet DEF AskCompact, AskRollback, QueueLease, writer
<1>8. ASSUME DeferAppend \/ EndLease \/ DryRun \/ \E p \in Paths : Edit(p)
      PROVE  UNCHANGED <<handle, sent, status>>
  BY <1>8 DEF DeferAppend, EndLease, DryRun, Edit, writer
<1>9. ASSUME UNCHANGED <<handle, sent, status>>
      PROVE  handle' \in [Paths -> 0..used'] /\ sent' \in [Paths -> Nat] /\ St(status')
  BY <1>0, <1>1, <1>9
<1>10. CASE \E p \in Paths : Send(p)
  <2>1. handle' = handle /\ sent' \in [Paths -> Nat] /\ St(status')
    BY <1>10, <1>3
  <2> QED BY <1>0, <1>1, <2>1
<1> QED BY <1>4, <1>5, <1>6, <1>7, <1>8, <1>9, <1>10, NextCases

LEMMA OwnTyped ==
  ASSUME TypeOK, Next
  PROVE  /\ token' \in Plans /\ own' \in [Requests -> Request] /\ lock' \in Requests \cup {NoOne}
         /\ {faults', stops', edits'} \subseteq Nat
<1>0. /\ token \in Plans /\ own \in [Requests -> Request] /\ lock \in Requests \cup {NoOne}
      /\ faults \in Nat /\ stops \in Nat /\ edits \in Nat
  BY DEF TypeOK
<1>1. ASSUME NEW p \in Paths, Send(p) \/ Edit(p)
      PROVE  UNCHANGED <<token, own, lock, faults, stops>> /\ edits' \in Nat
  BY <1>0, <1>1 DEF Send, Edit
<1>2. CASE DeferAppend
  BY <1>0, <1>2 DEF DeferAppend
<1>3. CASE RunAppend
  <2>1. UNCHANGED <<token, own, lock, stops, edits>>
    BY <1>3 DEF RunAppend
  <2>2. UNCHANGED faults \/ faults' = faults + 1
    BY <1>3 DEF RunAppend, Fault
  <2> QED BY <1>0, <2>1, <2>2
<1>4. CASE GrantLease
  <2>1. queue[1].rec \in Requests
    BY <1>4, HeadIs DEF GrantLease
  <2>2. /\ UNCHANGED <<token, lock, faults, stops, edits>>
        /\ \/ own' = [own EXCEPT ![queue[1].rec].pc = "leased"]
           \/ own' = [own EXCEPT ![queue[1].rec] = [Idle EXCEPT !.pc = "done"]]
    BY <1>4 DEF GrantLease
  <2>3. "leased" \in Pcs /\ "done" \in Pcs
    BY DEF Pcs, Holding
  <2>4. own' \in [Requests -> Request]
    BY <2>1, <2>2, <2>3, GoMoves, IdleMoves
  <2> QED BY <1>0, <2>2, <2>4
<1>5. CASE EndLease
  <2>1. queue[1].rec \in Requests /\ own' = [own EXCEPT ![queue[1].rec] = [Idle EXCEPT !.pc = "done"]]
    BY <1>5, EndLeaseIs
  <2>2. "done" \in Pcs
    BY DEF Pcs
  <2>3. own' \in [Requests -> Request]
    BY <2>1, <2>2, IdleMoves
  <2>4. UNCHANGED <<token, lock, faults, stops, edits>>
    BY <1>5 DEF EndLease
  <2> QED BY <1>0, <2>3, <2>4
<1>6. CASE DryRun
  BY <1>0, <1>6, PlanIs DEF DryRun
<1>7. CASE DaemonDies
  BY <1>0, <1>7, IdleIs DEF DaemonDies
<1>8. ASSUME NEW o \in Requests, AskCompact(o)
      PROVE  own' \in [Requests -> Request] /\ UNCHANGED <<token, lock, faults, stops, edits>>
  <2>1. own' = [own EXCEPT ![o] = [Idle EXCEPT !.pc = "asked", !.plan = Plan,
                                    !.fence = Named(Plan), !.confirmed = (token = Plan)]]
    BY <1>8 DEF AskCompact
  <2>2. Plan \in Plans /\ Named(Plan) \in SUBSET Paths /\ (token = Plan) \in BOOLEAN
    BY PlanIs
  <2>3. own' \in [Requests -> Request]
    BY <2>1, <2>2, AskMoves
  <2> QED BY <1>8, <2>3 DEF AskCompact
<1>9. ASSUME NEW o \in Requests, AskRollback(o)
      PROVE  own' \in [Requests -> Request] /\ UNCHANGED <<token, lock, faults, stops, edits>>
  <2>1. PICK id \in DOMAIN manifest \cup {token} :
          own' = [own EXCEPT ![o] = [Idle EXCEPT !.pc = "asked", !.plan = id,
                                       !.fence = IF id \in DOMAIN manifest THEN Named(id)
                                                 ELSE {}]]
    BY <1>9 DEF AskRollback
  <2> DEFINE F == IF id \in DOMAIN manifest THEN Named(id) ELSE {}
  <2>2. id \in Plans /\ F \in SUBSET Paths /\ TRUE \in BOOLEAN
    BY PlanIs DEF TypeOK
  <2> HIDE DEF F
  <2>4. own' = [own EXCEPT ![o] = [Idle EXCEPT !.pc = "asked", !.plan = id, !.fence = F]]
    BY <2>1 DEF F
  <2>3. own' \in [Requests -> Request]
    BY <2>4, <2>2, AskMoves
  <2> QED BY <1>9, <2>3 DEF AskRollback
<1>10. ASSUME NEW o \in Requests, QueueLease(o)
       PROVE  own' \in [Requests -> Request] /\ UNCHANGED <<token, lock, faults, stops, edits>>
  <2>1. own' = [own EXCEPT ![o].pc = "waiting"] /\ "waiting" \in Pcs
    BY <1>10 DEF QueueLease, Pcs
  <2> QED BY <1>10, <2>1, GoMoves DEF QueueLease
<1>11. ASSUME NEW o \in Requests, WorkSteps(o)
       PROVE  /\ own' \in [Requests -> Request] /\ lock' \in Requests \cup {NoOne}
              /\ UNCHANGED <<token, stops, edits>> /\ faults' \in Nat
  <2>1. lock' \in Requests \cup {NoOne}
    BY <1>0, <1>11, WorkMoves DEF Carries, Begins, Ends
  <2> QED BY <1>0, <1>11, <2>1, WorkMoves, WorkQuiet
<1> QED BY <1>0, <1>1, <1>2, <1>3, <1>4, <1>5, <1>6, <1>7, <1>8, <1>9, <1>10, <1>11, NextCases

(***************************************************************************)
(* The manifests, the archives and the staging files.                      *)
(***************************************************************************)
JournalRecord == [stage : Stages, old : Seq(Record), new : Seq(Record)]
FilesOf(m, id) == m[id].files
Manifests(m) ==
    /\ DOMAIN m \subseteq Plans
    /\ \A id \in DOMAIN m : m[id] \in [files : [Named(id) -> JournalRecord], complete : BOOLEAN]

\* The entries of a manifest that are given a new stage: none, those a transaction
\* starts with, or that of the file in hand.
SameFiles == DOMAIN manifest' = DOMAIN manifest
             /\ \A id \in DOMAIN manifest : FilesOf(manifest', id) = FilesOf(manifest, id)
Plans1(o) ==
    /\ o \in Compactions /\ own[o].pc = "leased" /\ own[o].confirmed
    /\ own'[o].pc = "next" /\ own'[o].todo = Named(own[o].plan)
    /\ DOMAIN manifest' = DOMAIN manifest \cup {own[o].plan}
    /\ \A id \in DOMAIN manifest \ {own[o].plan} : FilesOf(manifest', id) = FilesOf(manifest, id)
    /\ \A p \in Named(own[o].plan) :
          FilesOf(manifest', own[o].plan)[p] = Journal("planned", <<>>, <<>>)
    /\ UNCHANGED <<sessions, archive, staging>>
Stages1(o, from, j, to) ==
    /\ own[o].pc = from /\ own'[o].pc = to /\ SameWork(o)
    /\ DOMAIN manifest' = DOMAIN manifest /\ own[o].plan \in DOMAIN manifest
    /\ own[o].path \in Named(own[o].plan)
    /\ \A id \in DOMAIN manifest : \A p \in Named(id) :
          FilesOf(manifest', id)[p] =
            IF id = own[o].plan /\ p = own[o].path THEN j ELSE FilesOf(manifest, id)[p]
    /\ UNCHANGED <<sessions, archive, staging>>

LEMMA ManifestIs ==
  ASSUME TypeOK
  PROVE  /\ Manifests(manifest)
         /\ \A id \in DOMAIN manifest : /\ id \in Plans /\ Named(id) \subseteq Paths
                                        /\ FilesOf(manifest, id) \in [Named(id) -> JournalRecord]
BY PlanIs DEF TypeOK, Manifests, FilesOf, JournalRecord

\* What a compaction has in hand while it works on a file.
LEMMA InHand ==
  ASSUME Core, NEW o \in Requests, own[o].pc \in Reading
  PROVE  /\ o \in Compactions /\ own[o].plan \in Plans /\ own[o].plan \in DOMAIN manifest
         /\ own[o].path \in Paths /\ own[o].path \in Named(own[o].plan) \ own[o].todo
         /\ own[o].path \in own[o].fence /\ own[o].path \in leased
         /\ own[o].bytes \in Seq(Record) /\ Panes(own[o].bytes) # {}
         /\ Replacement(o) \in Seq(Record) /\ Replacement(o) = Compacted(own[o].bytes, own[o].plan)
<1>0. own[o].plan \in Plans /\ own[o].bytes \in Seq(Record) /\ own[o].fence \subseteq Paths
  BY OwnIs DEF Core
<1>1. own[o].pc \in Working /\ own[o].pc \in Holding /\ own[o].pc \in Working \ {"next", "restore"}
      /\ own[o].pc # "refused"
  BY DEF Reading, Working, Holding
<1>2. o \in Compactions /\ own[o].plan \in DOMAIN manifest
  BY <1>1 DEF Core, WorkFenced
<1>3. own[o].path \in Named(own[o].plan) \ own[o].todo /\ own[o].path \in own[o].fence
  BY <1>1 DEF Core, WorkFenced
<1>4. own[o].path \in leased
  BY <1>1, <1>3 DEF Core, LeaseHeld
<1>5. Panes(own[o].bytes) # {}
  BY DEF Core, JournalTrue
<1>6. Replacement(o) = Compacted(own[o].bytes, own[o].plan)
  BY DEF Replacement, Id
<1>7. Replacement(o) \in Seq(Record)
  BY <1>0, <1>5, <1>6, CompactedKeeps
<1> QED BY <1>0, <1>2, <1>3, <1>4, <1>5, <1>6, <1>7

LEMMA JournalIs ==
  /\ \A s \in Stages, a, b \in Seq(Record) :
        Journal(s, a, b) \in JournalRecord /\ Journal(s, a, b).stage = s
        /\ Journal(s, a, b).old = a /\ Journal(s, a, b).new = b
  /\ <<>> \in Seq(Record) /\ {"planned", "archived", "staged", "committed"} = Stages
BY DEF Journal, JournalRecord, Stages

\* A stage is written.
LEMMA Journalling ==
  ASSUME TypeOK, NEW o \in Requests, Id(o) \in DOMAIN manifest, Cur(o) \in Named(Id(o)),
         NEW j \in JournalRecord, Journalled(o, j)
  PROVE  /\ Manifests(manifest') /\ DOMAIN manifest' = DOMAIN manifest
         /\ \A id \in DOMAIN manifest : \A p \in Named(id) :
               FilesOf(manifest', id)[p] =
                 IF id = Id(o) /\ p = Cur(o) THEN j ELSE FilesOf(manifest, id)[p]
<1> DEFINE i == Id(o)
           q == Cur(o)
           m == manifest
<1>1. /\ DOMAIN m \subseteq Plans /\ i \in DOMAIN m /\ q \in Named(i)
      /\ \A id \in DOMAIN m : m[id] \in [files : [Named(id) -> JournalRecord], complete : BOOLEAN]
  BY ManifestIs DEF Manifests
<1>2. manifest' = [m EXCEPT ![i].files[q] = j]
  BY DEF Journalled
<1> DEFINE g == [m[i].files EXCEPT ![q] = j]
           x == [m[i] EXCEPT !.files = g]
<1>3. m[i] \in [files : [Named(i) -> JournalRecord], complete : BOOLEAN]
  BY <1>1
<1>4. g \in [Named(i) -> JournalRecord] /\ \A p \in Named(i) : g[p] = IF p = q THEN j ELSE m[i].files[p]
  BY <1>1, <1>3
<1>5. manifest' = [m EXCEPT ![i] = x]
  BY <1>2
<1> HIDE DEF g
<1>6. x \in [files : [Named(i) -> JournalRecord], complete : BOOLEAN] /\ x.files = g
  BY <1>3, <1>4
<1> HIDE DEF x, i, q
<1>7. DOMAIN manifest' = DOMAIN m /\ \A id \in DOMAIN m : manifest'[id] = IF id = i THEN x ELSE m[id]
  <2> HIDE DEF m
  <2>1. DOMAIN [m EXCEPT ![i] = x] = DOMAIN m
    OBVIOUS
  <2>2. \A id \in DOMAIN m : [m EXCEPT ![i] = x][id] = IF id = i THEN x ELSE m[id]
    OBVIOUS
  <2> QED BY <2>1, <2>2, <1>5
<1>8. Manifests(manifest')
  BY <1>1, <1>6, <1>7 DEF Manifests
<1>9. \A id \in DOMAIN m : \A p \in Named(id) :
         manifest'[id].files[p] = IF id = i /\ p = q THEN j ELSE m[id].files[p]
  BY <1>4, <1>6, <1>7
<1> QED BY <1>7, <1>8, <1>9 DEF i, q, m, FilesOf

LEMMA Completing ==
  ASSUME TypeOK, NEW i \in DOMAIN manifest, manifest' = [manifest EXCEPT ![i].complete = TRUE]
  PROVE  Manifests(manifest') /\ SameFiles
<1>1. /\ DOMAIN manifest \subseteq Plans
      /\ \A id \in DOMAIN manifest :
            manifest[id] \in [files : [Named(id) -> JournalRecord], complete : BOOLEAN]
  BY ManifestIs DEF Manifests
<1> DEFINE x == [manifest[i] EXCEPT !.complete = TRUE]
<1>2. x \in [files : [Named(i) -> JournalRecord], complete : BOOLEAN] /\ x.files = manifest[i].files
  BY <1>1
<1>3. manifest' = [manifest EXCEPT ![i] = x]
  OBVIOUS
<1> HIDE DEF x
<1>4. DOMAIN manifest' = DOMAIN manifest
      /\ \A id \in DOMAIN manifest : manifest'[id] = IF id = i THEN x ELSE manifest[id]
  BY <1>3
<1> QED BY <1>1, <1>2, <1>4 DEF Manifests, SameFiles, FilesOf

LEMMA Planning ==
  ASSUME TypeOK, NEW id \in Plans, manifest' = Put(manifest, id, Fresh(id))
  PROVE  /\ Manifests(manifest') /\ DOMAIN manifest' = DOMAIN manifest \cup {id}
         /\ \A i \in DOMAIN manifest \ {id} : FilesOf(manifest', i) = FilesOf(manifest, i)
         /\ \A p \in Named(id) : FilesOf(manifest', id)[p] = Journal("planned", <<>>, <<>>)
<1>1. /\ DOMAIN manifest \subseteq Plans
      /\ \A i \in DOMAIN manifest :
            manifest[i] \in [files : [Named(i) -> JournalRecord], complete : BOOLEAN]
  BY ManifestIs DEF Manifests
<1> DEFINE j == Journal("planned", <<>>, <<>>)
           g == [p \in Named(id) |-> j]
           x == Fresh(id)
<1>2. j \in JournalRecord
  BY JournalIs
<1> HIDE DEF j
<1>3. x = [files |-> g, complete |-> FALSE] /\ g \in [Named(id) -> JournalRecord]
  BY <1>2 DEF Fresh, j
<1>4. \A p \in Named(id) : g[p] = j
  OBVIOUS
<1> HIDE DEF g, x
<1>5. x \in [files : [Named(id) -> JournalRecord], complete : BOOLEAN] /\ x.files = g
  BY <1>3
<1>6. DOMAIN manifest' = DOMAIN manifest \cup {id}
      /\ \A i \in DOMAIN manifest' : manifest'[i] = IF i = id THEN x ELSE manifest[i]
  BY DEF Put, x
<1> QED BY <1>1, <1>4, <1>5, <1>6 DEF Manifests, FilesOf, j

LEMMA ManifestMoves ==
  ASSUME Core, NEW o \in Requests, WorkSteps(o)
  PROVE  /\ Manifests(manifest')
         /\ \/ SameFiles
            \/ Plans1(o)
            \/ Stages1(o, "archived", Journal("archived", own[o].bytes, <<>>), "stage")
            \/ Stages1(o, "staged", Journal("staged", own[o].bytes, Replacement(o)), "verify")
            \/ Stages1(o, "renamed", Journal("committed", own[o].bytes, Replacement(o)), "next")
<1> DEFINE Goal ==
         /\ Manifests(manifest')
         /\ \/ SameFiles
            \/ Plans1(o)
            \/ Stages1(o, "archived", Journal("archived", own[o].bytes, <<>>), "stage")
            \/ Stages1(o, "staged", Journal("staged", own[o].bytes, Replacement(o)), "verify")
            \/ Stages1(o, "renamed", Journal("committed", own[o].bytes, Replacement(o)), "next")
<1>0. TypeOK /\ Manifests(manifest) /\ own[o].plan \in Plans
  BY ManifestIs, OwnIs DEF Core
<1>1. UNCHANGED manifest => Goal
  BY <1>0 DEF SameFiles, FilesOf
<1>2. ASSUME NEW from \in Reading, NEW j \in JournalRecord, NEW to \in Working, WriteJournal(o, from, j, to)
      PROVE  Manifests(manifest') /\ (UNCHANGED manifest \/ Stages1(o, from, j, to))
  <2>1. from \in Working
    BY DEF Working
  <2>2. /\ SameWork(o) /\ own[o].pc = from
        /\ \/ own'[o].pc = to /\ Journalled(o, j)
           \/ UNCHANGED manifest
    BY <1>0, <1>2, <2>1, JournalMoves
  <2>3. CASE UNCHANGED manifest
    BY <1>0, <2>3
  <2>4. CASE own'[o].pc = to /\ Journalled(o, j)
    <3>1. Id(o) \in DOMAIN manifest /\ Cur(o) \in Named(Id(o))
      BY <2>2, InHand DEF Id, Cur
    <3>2. UNCHANGED <<sessions, archive, staging>>
      BY <1>2 DEF WriteJournal
    <3>3. /\ Manifests(manifest') /\ DOMAIN manifest' = DOMAIN manifest
          /\ \A id \in DOMAIN manifest : \A p \in Named(id) :
                FilesOf(manifest', id)[p] =
                  IF id = Id(o) /\ p = Cur(o) THEN j ELSE FilesOf(manifest, id)[p]
      BY <1>0, <2>4, <3>1, Journalling
    <3> QED BY <2>2, <2>4, <3>1, <3>2, <3>3 DEF Stages1, Id, Cur
  <2> QED BY <2>2, <2>3, <2>4
<1>3. CASE Apply(o)
  <2>1. CASE UNCHANGED manifest
    BY <1>1, <2>1
  <2>2. CASE /\ own[o].confirmed /\ manifest' = Put(manifest, own[o].plan, Fresh(own[o].plan))
             /\ own' = [own EXCEPT ![o].pc = "next", ![o].todo = Named(own[o].plan)]
    <3>1. o \in Compactions /\ own[o].pc = "leased" /\ UNCHANGED <<sessions, archive, staging>>
      BY <1>3 DEF Apply, At
    <3>2. own'[o].pc = "next" /\ own'[o].todo = Named(own[o].plan)
      <4>1. "next" \in Pcs /\ Named(own[o].plan) \in SUBSET Paths
        BY <1>0, PcsAre, PlanIs
      <4>2. TypeOK
        BY <1>0
      <4>3. own' = [own EXCEPT ![o].pc = "next", ![o].todo = Named(own[o].plan)]
        BY <2>2
      <4> DEFINE T == Named(own[o].plan)
      <4> HIDE DEF T
      <4>4. T \in SUBSET Paths /\ own' = [own EXCEPT ![o].pc = "next", ![o].todo = T]
        BY <4>1, <4>3 DEF T
      <4>6. "next" \in Pcs
        BY <4>1
      <4>5. /\ own' \in [Requests -> Request] /\ own'[o].pc = "next" /\ own'[o].todo = T /\ Rest(o)
            /\ own'[o].plan = own[o].plan /\ own'[o].fence = own[o].fence
            /\ own'[o].path = own[o].path /\ own'[o].bytes = own[o].bytes
        BY <4>6, <4>2, <4>4, TodoMoves
      <4> QED BY <4>5 DEF T
    <3>3. /\ Manifests(manifest') /\ DOMAIN manifest' = DOMAIN manifest \cup {own[o].plan}
          /\ \A i \in DOMAIN manifest \ {own[o].plan} : FilesOf(manifest', i) = FilesOf(manifest, i)
          /\ \A p \in Named(own[o].plan) :
                FilesOf(manifest', own[o].plan)[p] = Journal("planned", <<>>, <<>>)
      BY <1>0, <2>2, Planning
    <3> QED BY <2>2, <3>1, <3>2, <3>3 DEF Plans1
  <2> QED BY <1>3, <2>1, <2>2 DEF Apply
<1>4. CASE NextFile(o)
  <2>1. own[o].plan \in DOMAIN manifest
    BY <1>4, PcsAre DEF NextFile, At, Core, WorkFenced
  <2>2. UNCHANGED manifest \/ manifest' = [manifest EXCEPT ![own[o].plan].complete = TRUE]
    BY <1>4 DEF NextFile, Id
  <2>3. manifest' = [manifest EXCEPT ![own[o].plan].complete = TRUE] => Manifests(manifest') /\ SameFiles
    BY <1>0, <2>1, Completing
  <2> QED BY <2>2, <2>3, <1>1
<1>5. CASE JournalArchived(o) \/ JournalStaged(o) \/ JournalCommitted(o)
  <2>1. own[o].pc \in Reading
    BY <1>5 DEF JournalArchived, JournalStaged, JournalCommitted, WriteJournal, At, Reading
  <2>2. own[o].bytes \in Seq(Record) /\ Replacement(o) \in Seq(Record)
    BY <2>1, InHand
  <2>3. /\ Journal("archived", own[o].bytes, <<>>) \in JournalRecord
        /\ Journal("staged", own[o].bytes, Replacement(o)) \in JournalRecord
        /\ Journal("committed", own[o].bytes, Replacement(o)) \in JournalRecord
    BY <2>2, JournalIs
  <2>4. "archived" \in Reading /\ "staged" \in Reading /\ "renamed" \in Reading
        /\ "stage" \in Working /\ "verify" \in Working /\ "next" \in Working
    BY DEF Working, Reading
  <2>5. CASE JournalArchived(o)
    BY <2>3, <2>4, <2>5, <1>1, <1>2 DEF JournalArchived
  <2>6. CASE JournalStaged(o)
    BY <2>3, <2>4, <2>6, <1>1, <1>2 DEF JournalStaged
  <2>7. CASE JournalCommitted(o)
    BY <2>3, <2>4, <2>7, <1>1, <1>2 DEF JournalCommitted
  <2> QED BY <1>5, <2>5, <2>6, <2>7
<1>6. CASE JournalRefused(o)
  <2>1. own[o].pc = "refused" /\ "refused" \in Working \ {"next", "restore"}
    BY <1>6 DEF JournalRefused, WriteJournal, At, Working, Reading
  <2>2. Id(o) \in DOMAIN manifest /\ Cur(o) \in Named(Id(o))
    BY <2>1 DEF Core, WorkFenced, Id, Cur
  <2> DEFINE j == FilesOf(manifest, Id(o))[Cur(o)]
  <2>3. j \in JournalRecord
    BY <1>0, <2>2, ManifestIs
  <2>4. UNCHANGED manifest \/ Journalled(o, j)
    BY <1>6 DEF JournalRefused, WriteJournal, FilesOf
  <2>5. CASE Journalled(o, j)
    <3> HIDE DEF j
    <3>1. /\ Manifests(manifest') /\ DOMAIN manifest' = DOMAIN manifest
          /\ \A id \in DOMAIN manifest : \A p \in Named(id) :
                FilesOf(manifest', id)[p] =
                  IF id = Id(o) /\ p = Cur(o) THEN j ELSE FilesOf(manifest, id)[p]
      BY <1>0, <2>2, <2>3, <2>5, Journalling
    <3>2. \A id \in DOMAIN manifest : \A p \in Named(id) :
                FilesOf(manifest', id)[p] = FilesOf(manifest, id)[p]
      BY <3>1 DEF j
    <3>3. ASSUME NEW id \in DOMAIN manifest PROVE FilesOf(manifest', id) = FilesOf(manifest, id)
      <4>1. FilesOf(manifest, id) \in [Named(id) -> JournalRecord]
        BY <1>0 DEF Manifests, FilesOf
      <4>2. FilesOf(manifest', id) \in [Named(id) -> JournalRecord]
        BY <3>1 DEF Manifests, FilesOf
      <4> HIDE DEF JournalRecord
      <4> QED BY <3>2, <4>1, <4>2
    <3> QED BY <3>1, <3>3 DEF SameFiles
  <2> QED BY <2>4, <2>5, <1>1
<1>7. CASE Archive(o) \/ Stage(o) \/ Verify(o) \/ Rename(o) \/ BeginRollback(o) \/ Restore(o) \/ Swap(o)
  <2>1. UNCHANGED manifest
    BY <1>7 DEF Archive, Stage, Verify, Rename, BeginRollback, Restore, Swap, store
  <2> QED BY <1>1, <2>1
<1> QED BY <1>3, <1>4, <1>5, <1>6, <1>7 DEF WorkSteps

LEMMA StoreQuiet ==
  ASSUME Next, ~ \E o \in Requests : WorkSteps(o)
  PROVE  UNCHANGED store
<1>1. ASSUME NEW p \in Paths, Send(p) \/ Edit(p) PROVE UNCHANGED store
  BY <1>1 DEF Send, Edit
<1>2. ASSUME NEW o \in Requests, AskCompact(o) \/ AskRollback(o) \/ QueueLease(o) PROVE UNCHANGED store
  BY <1>2 DEF AskCompact, AskRollback, QueueLease
<1>3. CASE DeferAppend \/ RunAppend \/ GrantLease \/ EndLease \/ DryRun \/ DaemonDies
  BY <1>3 DEF DeferAppend, RunAppend, GrantLease, EndLease, DryRun, DaemonDies
<1> QED BY <1>1, <1>2, <1>3, NextCases

LEMMA Archiving ==
  ASSUME Core, NEW o \in Requests, Archive(o), archive' # archive
  PROVE  /\ own[o].pc = "archive" /\ own'[o].pc = "archived" /\ SameWork(o)
         /\ DOMAIN archive' = DOMAIN archive \cup {<<own[o].plan, own[o].path>>}
         /\ \A x \in DOMAIN archive' :
               archive'[x] = IF x = <<own[o].plan, own[o].path>> THEN own[o].bytes ELSE archive[x]
         /\ UNCHANGED <<sessions, manifest, staging>>
<1>1. /\ own[o].pc = "archive" /\ own' = [own EXCEPT ![o].pc = "archived"]
      /\ archive' = Put(archive, <<own[o].plan, own[o].path>>, own[o].bytes)
      /\ UNCHANGED <<sessions, manifest, staging>>
  BY DEF Archive, At, Go, Id, Cur
<1>2. "archived" \in Pcs
  BY DEF Pcs, Holding, Working, Reading
<1>4. TypeOK
  BY DEF Core
<1>3. own'[o].pc = "archived" /\ SameWork(o)
  BY <1>1, <1>2, <1>4, GoMoves
<1> DEFINE x == <<own[o].plan, own[o].path>>
           b == own[o].bytes
<1>5. archive' = Put(archive, x, b)
  BY <1>1
<1> HIDE DEF x, b
<1>6. DOMAIN archive' = DOMAIN archive \cup {x}
      /\ \A y \in DOMAIN archive' : archive'[y] = IF y = x THEN b ELSE archive[y]
  BY <1>5 DEF Put
<1> QED BY <1>1, <1>3, <1>6 DEF x, b

LEMMA ArchiveKept ==
  ASSUME Next, ~ \E o \in Requests : Archive(o)
  PROVE  UNCHANGED archive
<1>1. ASSUME NEW o \in Requests, WorkSteps(o), ~Archive(o) PROVE UNCHANGED archive
  BY <1>1 DEF WorkSteps, Apply, NextFile, JournalArchived, JournalStaged, JournalRefused,
              JournalCommitted, WriteJournal, Stage, Verify, Rename, BeginRollback, Restore, Swap, store
<1> QED BY <1>1, StoreQuiet DEF store

\* The staging files change under the work of the request that holds the flock.
FileRecord == [there : BOOLEAN, bytes : Seq(Record)]
StagesAs(p, s) == staging' = [staging EXCEPT ![p] = s]

LEMMA FileRecordIs ==
  /\ NoFile \in FileRecord
  /\ \A s \in Seq(Record) : File(s) \in FileRecord /\ File(s).bytes = s
BY DEF NoFile, File, FileRecord

\* A file a rollback has still to look at is archived.
LEMMA ToRestore ==
  ASSUME Core, NEW o \in Requests, own[o].pc = "restore", NEW p \in own[o].todo
  PROVE  /\ p \in Paths /\ own[o].plan \in DOMAIN manifest /\ p \in Named(own[o].plan)
         /\ o \in Rollbacks
         /\ <<own[o].plan, p>> \in DOMAIN archive
         /\ archive[<<own[o].plan, p>>] \in Seq(Record)
         /\ archive[<<own[o].plan, p>>] = manifest[own[o].plan].files[p].old
         /\ manifest[own[o].plan].files[p].stage # "planned"
<1>1. own[o].plan \in DOMAIN manifest /\ p \in Named(own[o].plan) /\ o \in Rollbacks
  BY PcsAre DEF Core, WorkFenced
<1>2. manifest[own[o].plan].files[p].stage # "planned"
  BY DEF Core, JournalTrue
<1>3. /\ <<own[o].plan, p>> \in DOMAIN archive
      /\ archive[<<own[o].plan, p>>] = manifest[own[o].plan].files[p].old
  BY <1>1, <1>2 DEF Core, JournalTrue
<1>4. archive[<<own[o].plan, p>>] \in Seq(Record)
  BY <1>3 DEF Core, TypeOK
<1>5. p \in Paths
  BY <1>1 DEF Named
<1> QED BY <1>1, <1>2, <1>3, <1>4, <1>5

LEMMA StagingMoves ==
  ASSUME Core, NEW o \in Requests, WorkSteps(o), staging' # staging
  PROVE  /\ own[o].pc \in Working /\ \E p \in Paths, s \in FileRecord : StagesAs(p, s)
<1>0. own[o].path \in Paths \/ own[o].pc \notin Working \ {"next", "restore"}
  BY PathIs DEF Core
<1>1. CASE Stage(o)
  <2>1. own[o].pc \in Reading /\ own[o].pc \in Working
    BY <1>1 DEF Stage, At, Reading, Working
  <2>2. Replacement(o) \in Seq(Record) /\ own[o].path \in Paths
    BY <2>1, InHand
  <2>3. \/ staging' = [staging EXCEPT ![own[o].path] = File(Replacement(o))]
        \/ staging' = [staging EXCEPT ![own[o].path] = NoFile]
    BY <1>1 DEF Stage, Cur
  <2> QED BY <2>1, <2>2, <2>3, FileRecordIs DEF StagesAs
<1>2. CASE Verify(o) \/ Rename(o) \/ Swap(o)
  <2>1. own[o].pc \in Working /\ own[o].pc \in Working \ {"next", "restore"}
    BY <1>2 DEF Verify, Rename, Swap, At, Reading, Working
  <2>3. staging' = [staging EXCEPT ![own[o].path] = NoFile]
    BY <1>2 DEF Verify, Rename, Swap, Renamed, Cur
  <2> QED BY <1>0, <2>1, <2>3, FileRecordIs DEF StagesAs
<1>3. CASE Restore(o)
  <2>1. own[o].pc = "restore"
    BY <1>3 DEF Restore, At
  <2>2. PICK p \in own[o].todo : \/ staging' = [staging EXCEPT ![p] = File(archive[<<own[o].plan, p>>])]
                                 \/ staging' = [staging EXCEPT ![p] = NoFile]
    BY <1>3 DEF Restore, Id
  <2>3. p \in Paths /\ archive[<<own[o].plan, p>>] \in Seq(Record)
    BY <2>1, ToRestore
  <2> QED BY <2>1, <2>2, <2>3, PcsAre, FileRecordIs DEF StagesAs
<1>4. CASE Apply(o) \/ NextFile(o) \/ JournalArchived(o) \/ JournalStaged(o) \/ JournalRefused(o)
           \/ JournalCommitted(o) \/ Archive(o) \/ BeginRollback(o)
  BY <1>4 DEF Apply, NextFile, JournalArchived, JournalStaged, JournalRefused, JournalCommitted,
              WriteJournal, Archive, BeginRollback, store
<1> QED BY <1>1, <1>2, <1>3, <1>4 DEF WorkSteps

LEMMA StoreTyped ==
  ASSUME Core, Next
  PROVE  /\ Manifests(manifest')
         /\ DOMAIN archive' \subseteq Plans \X Paths
         /\ \A x \in DOMAIN archive' : archive'[x] \in Seq(Record)
         /\ staging' \in [Paths -> [there : BOOLEAN, bytes : Seq(Record)]]
<1>0. /\ TypeOK /\ Manifests(manifest) /\ DOMAIN archive \subseteq Plans \X Paths
      /\ \A x \in DOMAIN archive : archive[x] \in Seq(Record)
      /\ staging \in [Paths -> [there : BOOLEAN, bytes : Seq(Record)]]
  BY ManifestIs DEF Core, TypeOK
<1>1. CASE ~ \E o \in Requests : WorkSteps(o)
  BY <1>0, <1>1, StoreQuiet DEF store
<1>2. ASSUME NEW o \in Requests, WorkSteps(o)
      PROVE  /\ Manifests(manifest')
             /\ staging' \in [Paths -> [there : BOOLEAN, bytes : Seq(Record)]]
  <2>1. CASE staging' = staging
    BY <1>0, <1>2, <2>1, ManifestMoves
  <2>2. CASE staging' # staging
    <3>1. PICK p \in Paths, s \in FileRecord : StagesAs(p, s)
      BY <1>2, <2>2, StagingMoves
    <3>2. staging' = [staging EXCEPT ![p] = s]
      BY <3>1 DEF StagesAs
    <3>3. s \in [there : BOOLEAN, bytes : Seq(Record)]
      BY DEF FileRecord
    <3> QED BY <1>0, <1>2, <3>2, <3>3, ManifestMoves
  <2> QED BY <2>1, <2>2
<1>3. ASSUME NEW o \in Requests, Archive(o)
      PROVE  /\ DOMAIN archive' \subseteq Plans \X Paths
             /\ \A x \in DOMAIN archive' : archive'[x] \in Seq(Record)
  <2>1. CASE archive' = archive
    BY <1>0, <2>1
  <2>2. CASE archive' # archive
    <3>1. own[o].pc \in Reading
      BY <1>3 DEF Archive, At, Reading
    <3>2. own[o].plan \in Plans /\ own[o].path \in Paths /\ own[o].bytes \in Seq(Record)
      BY <3>1, InHand
    <3>3. /\ DOMAIN archive' = DOMAIN archive \cup {<<own[o].plan, own[o].path>>}
          /\ \A x \in DOMAIN archive' :
               archive'[x] = IF x = <<own[o].plan, own[o].path>> THEN own[o].bytes ELSE archive[x]
      BY <1>3, <2>2, Archiving
    <3> QED BY <1>0, <3>2, <3>3
  <2> QED BY <2>1, <2>2
<1>4. /\ DOMAIN archive' \subseteq Plans \X Paths
      /\ \A x \in DOMAIN archive' : archive'[x] \in Seq(Record)
  BY <1>0, <1>3, ArchiveKept
<1> QED BY <1>1, <1>2, <1>4

LEMMA TypeStep ==
  ASSUME Core, Next
  PROVE  TypeOK'
<1>0. TypeOK /\ HandleCurrent /\ WorkFenced
  BY DEF Core
<1>1. /\ used' \in 0..MaxInode /\ inode' \in [1..MaxInode -> Seq(Record)]
      /\ live' \in [Paths -> 1..used']
  <2>1. used \in 0..MaxInode /\ MaxInode \in Nat
    BY <1>0, CompactionBounds DEF TypeOK
  <2>2. used' \in used..MaxInode /\ inode' \in [1..MaxInode -> Seq(Record)] /\ live' \in [Paths -> 1..used']
    BY <1>0, InodesKept
  <2> QED BY <2>1, <2>2
<1>2. /\ handle' \in [Paths -> 0..used'] /\ sent' \in [Paths -> Nat] /\ DOMAIN status' = Paths
      /\ \A p \in Paths :
            status'[p] \in [1..Len(Class[p]) -> {"new", "pending", "ok", "failed"}]
  BY <1>0, WriterTyped
<1>3. queue' \in Seq(Command) /\ deferred' \in Seq(SessionRecord) /\ leased' \subseteq Paths
  BY <1>0, QueueTyped
<1>4. /\ token' \in Plans /\ own' \in [Requests -> Request] /\ lock' \in Requests \cup {NoOne}
      /\ {faults', stops', edits'} \subseteq Nat
  BY <1>0, OwnTyped
<1>5. /\ Manifests(manifest')
      /\ DOMAIN archive' \subseteq Plans \X Paths
      /\ \A x \in DOMAIN archive' : archive'[x] \in Seq(Record)
      /\ staging' \in [Paths -> [there : BOOLEAN, bytes : Seq(Record)]]
  BY StoreTyped
<1> QED BY <1>1, <1>2, <1>3, <1>4, <1>5 DEF TypeOK, Command, Manifests, JournalRecord

(***************************************************************************)
(* The leases and the flock.                                               *)
(***************************************************************************)
Holders == {q \in Requests : own[q].pc \in Holding}
Flock == \A o \in Requests : own[o].pc \in Working <=> lock = o
Fences ==
    /\ leased = UNION {own[o].fence : o \in Holders}
    /\ \A o, q \in Requests :
          o # q /\ own[o].pc \in Holding /\ own[q].pc \in Holding =>
              own[o].fence \cap own[q].fence = {}
Commands ==
    /\ \A k \in DOMAIN queue :
          /\ queue[k].op = "lease" => own[queue[k].rec].pc = "waiting"
          /\ queue[k].op = "release" => own[queue[k].rec].pc = "releasing"
    /\ \A j, k \in DOMAIN queue :
          j # k /\ queue[j].op # "append" /\ queue[k].op # "append" =>
              queue[j].rec # queue[k].rec

LEMMA LeaseParts == LeaseHeld <=> Flock /\ Fences /\ Commands
BY DEF LeaseHeld, Flock, Fences, Commands, Holders

LEMMA FencesSame ==
  ASSUME Fences, NEW o \in Requests, Rest(o), UNCHANGED leased,
         own[o].pc \in Holding <=> own'[o].pc \in Holding,
         own[o].pc \in Holding => own'[o].fence = own[o].fence
  PROVE  Fences'
<1>1. \A q \in Requests : q # o => own'[q] = own[q]
  BY DEF Rest
<1>2. Holders' = Holders
  BY <1>1 DEF Holders
<1>3. \A q \in Holders : own'[q].fence = own[q].fence
  BY <1>1 DEF Holders
<1>4. leased' = UNION {own'[q].fence : q \in Holders'}
  BY <1>2, <1>3 DEF Fences
<1>5. \A p, q \in Requests :
          p # q /\ own'[p].pc \in Holding /\ own'[q].pc \in Holding =>
              own'[p].fence \cap own'[q].fence = {}
  BY <1>1 DEF Fences
<1> QED BY <1>4, <1>5 DEF Fences

LEMMA GrantIs ==
  ASSUME TypeOK, GrantLease
  PROVE  LET o == queue[1].rec IN
         /\ queue[1].op = "lease" /\ o \in Requests /\ Rest(o)
         /\ queue' = Tail(queue) /\ UNCHANGED <<lock, deferred, status, live, manifest>>
         /\ \/ /\ own[o].fence \cap leased = {} /\ leased' = leased \cup own[o].fence
               /\ handle' = [p \in Paths |-> IF p \in own[o].fence THEN 0 ELSE handle[p]]
               /\ own'[o].pc = "leased" /\ SameWork(o)
            \/ /\ UNCHANGED <<leased, handle>>
               /\ own'[o].pc = "done" /\ own'[o].plan = NoPlan /\ own'[o].fence = {}
<1> DEFINE o == queue[1].rec
<1>1. queue[1].op = "lease" /\ o \in Requests
  BY HeadIs DEF GrantLease
<1>2. queue' = Tail(queue) /\ UNCHANGED <<lock, deferred, status, live, manifest>>
  BY DEF GrantLease, sessions, store
<1>3. "leased" \in Pcs /\ "done" \in Pcs
  BY DEF Pcs, Holding
<1>4. CASE own[o].fence \cap leased = {}
  <2>1. /\ leased' = leased \cup own[o].fence
        /\ handle' = [p \in Paths |-> IF p \in own[o].fence THEN 0 ELSE handle[p]]
        /\ own' = [own EXCEPT ![o].pc = "leased"]
    BY <1>4 DEF GrantLease
  <2>2. own'[o].pc = "leased" /\ SameWork(o) /\ Rest(o)
    BY <1>1, <1>3, <2>1, GoMoves
  <2> QED BY <1>1, <1>2, <1>4, <2>1, <2>2
<1>5. CASE ~(own[o].fence \cap leased = {})
  <2>1. /\ UNCHANGED <<leased, handle>>
        /\ own' = [own EXCEPT ![o] = [Idle EXCEPT !.pc = "done"]]
    BY <1>5 DEF GrantLease
  <2>2. own'[o].pc = "done" /\ Rest(o) /\ own'[o].plan = NoPlan /\ own'[o].fence = {}
    BY <1>1, <1>3, <2>1, IdleMoves
  <2> QED BY <1>1, <1>2, <2>1, <2>2
<1> QED BY <1>4, <1>5

LEMMA ReleaseIs ==
  ASSUME TypeOK, EndLease
  PROVE  LET o == queue[1].rec IN
         /\ queue[1].op = "release" /\ o \in Requests /\ Rest(o)
         /\ leased' = leased \ own[o].fence /\ own'[o].pc = "done"
         /\ own'[o].plan = NoPlan /\ own'[o].fence = {}
<1> DEFINE o == queue[1].rec
<1>1. queue[1].op = "release" /\ o \in Requests /\ leased' = leased \ own[o].fence
      /\ own' = [own EXCEPT ![o] = [Idle EXCEPT !.pc = "done"]]
  BY EndLeaseIs
<1>2. "done" \in Pcs
  BY DEF Pcs
<1>3. own'[o].pc = "done" /\ Rest(o) /\ own'[o].plan = NoPlan /\ own'[o].fence = {}
  BY <1>1, <1>2, IdleMoves
<1> QED BY <1>1, <1>3

\* What the steps outside the work do to a request.
LEMMA AskIs ==
  ASSUME TypeOK, NEW o \in Requests, AskCompact(o) \/ AskRollback(o) \/ QueueLease(o)
  PROVE  /\ Rest(o) /\ UNCHANGED <<leased, lock, handle, deferred, status, live, manifest>>
         /\ \/ /\ own[o].pc = "idle" /\ own'[o].pc = "asked" /\ UNCHANGED queue
               /\ o \in Compactions => own'[o].plan = Plan /\ own'[o].fence = Named(Plan)
               /\ o \in Compactions \/ o \in Rollbacks
               /\ own'[o].todo = {} /\ own'[o].fence \subseteq Named(own'[o].plan)
            \/ /\ own[o].pc = "asked" /\ own'[o].pc = "waiting" /\ SameWork(o)
               /\ queue' = Append(queue, [op |-> "lease", rec |-> o])
<1>1. CASE AskCompact(o)
  <2>1. /\ own[o].pc = "idle" /\ UNCHANGED <<leased, lock, handle, deferred, status, live, manifest, queue>>
        /\ own' = [own EXCEPT ![o] = [Idle EXCEPT !.pc = "asked", !.plan = Plan,
                                    !.fence = Named(Plan), !.confirmed = (token = Plan)]]
    BY <1>1 DEF AskCompact, sessions, writer, store
  <2>2. Plan \in Plans /\ Named(Plan) \in SUBSET Paths /\ (token = Plan) \in BOOLEAN
    BY PlanIs
  <2>3. /\ own'[o].pc = "asked" /\ Rest(o) /\ own'[o].plan = Plan /\ own'[o].fence = Named(Plan)
        /\ own'[o].todo = {}
    <3> DEFINE b == token = Plan
               F == Named(Plan)
    <3>1. Plan \in Plans
      BY <2>2
    <3>2. F \in SUBSET Paths
      BY <2>2
    <3>3. b \in BOOLEAN
      BY <2>2
    <3>4. own' = [own EXCEPT ![o] = [Idle EXCEPT !.pc = "asked", !.plan = Plan, !.fence = F, !.confirmed = b]]
      BY <2>1
    <3> HIDE DEF b, F
    <3>5. /\ own' \in [Requests -> Request] /\ own'[o].pc = "asked" /\ Rest(o)
          /\ own'[o].plan = Plan /\ own'[o].fence = F /\ own'[o].todo = {}
      BY <3>1, <3>2, <3>3, <3>4, AskMoves
    <3> QED BY <3>5 DEF F
  <2> QED BY <1>1, <2>1, <2>3 DEF AskCompact
<1>2. CASE AskRollback(o)
  <2>1. /\ own[o].pc = "idle" /\ o \in Rollbacks
        /\ UNCHANGED <<leased, lock, handle, deferred, status, live, manifest, queue>>
    BY <1>2 DEF AskRollback, sessions, writer, store
  <2>2. PICK id \in DOMAIN manifest \cup {token} :
          own' = [own EXCEPT ![o] = [Idle EXCEPT !.pc = "asked", !.plan = id,
                                       !.fence = IF id \in DOMAIN manifest THEN Named(id)
                                                 ELSE {}]]
    BY <1>2 DEF AskRollback
  <2> DEFINE F == IF id \in DOMAIN manifest THEN Named(id) ELSE {}
  <2>3. id \in Plans /\ F \in SUBSET Paths /\ TRUE \in BOOLEAN /\ F \subseteq Named(id)
    BY PlanIs DEF TypeOK
  <2> HIDE DEF F
  <2>4. own' = [own EXCEPT ![o] = [Idle EXCEPT !.pc = "asked", !.plan = id, !.fence = F]]
    BY <2>2 DEF F
  <2>5. own'[o].pc = "asked" /\ Rest(o) /\ own'[o].plan = id /\ own'[o].fence = F /\ own'[o].todo = {}
    BY <2>3, <2>4, AskMoves
  <2>6. o \notin Compactions
    BY <2>1, SessionAssumption
  <2> QED BY <2>1, <2>3, <2>5, <2>6
<1>3. CASE QueueLease(o)
  <2>1. /\ own[o].pc = "asked" /\ own' = [own EXCEPT ![o].pc = "waiting"] /\ "waiting" \in Pcs
        /\ queue' = Append(queue, [op |-> "lease", rec |-> o])
        /\ UNCHANGED <<leased, lock, handle, deferred, status, live, manifest>>
    BY <1>3 DEF QueueLease, Pcs, sessions, store
  <2>2. own'[o].pc = "waiting" /\ SameWork(o) /\ Rest(o)
    BY <2>1, GoMoves
  <2> QED BY <2>1, <2>2
<1> QED BY <1>1, <1>2, <1>3

\* The steps that touch no request.
LEMMA OthersIs ==
  ASSUME DeferAppend \/ RunAppend \/ DryRun \/ \E p \in Paths : Send(p) \/ Edit(p)
  PROVE  UNCHANGED <<own, lock, leased, manifest, archive, staging>>
BY DEF DeferAppend, RunAppend, DryRun, Send, Edit, writer, store

LEMMA DeathIs ==
  ASSUME DaemonDies
  PROVE  /\ \A o \in Requests : own'[o] = Idle
         /\ lock' = NoOne /\ leased' = {} /\ queue' = <<>> /\ deferred' = <<>>
         /\ handle' = [p \in Paths |-> 0] /\ UNCHANGED sessions /\ UNCHANGED store
BY DEF DaemonDies

LEMMA HoldersStep ==
  ASSUME Core, Next
  PROVE  Flock' /\ Fences'
<1>0. TypeOK /\ Flock /\ Fences /\ Commands
  BY LeaseParts DEF Core
<1>1. CASE DeferAppend \/ RunAppend \/ DryRun \/ \E p \in Paths : Send(p) \/ Edit(p)
  BY <1>0, <1>1, OthersIs DEF Flock, Fences, Holders
<1>2. CASE GrantLease
  <2> DEFINE o == queue[1].rec
  <2>1. /\ queue[1].op = "lease" /\ o \in Requests /\ Rest(o) /\ lock' = lock
        /\ \/ /\ own[o].fence \cap leased = {} /\ leased' = leased \cup own[o].fence
              /\ own'[o].pc = "leased" /\ SameWork(o)
           \/ /\ UNCHANGED leased
              /\ own'[o].pc = "done" /\ own'[o].fence = {}
    BY <1>0, <1>2, GrantIs
  <2>2. own[o].pc = "waiting"
    <3>1. 1 \in DOMAIN queue
      BY <1>0, <1>2, HeadIs DEF GrantLease
    <3> QED BY <1>0, <2>1, <3>1 DEF Commands
  <2> HIDE DEF o
  <2>3. Flock'
    BY <1>0, <2>1, <2>2, PcsAre DEF Flock, Rest
  <2>4. CASE own'[o].pc = "done" /\ UNCHANGED leased
    <3>1. (own[o].pc \in Holding <=> own'[o].pc \in Holding) /\ own[o].pc \notin Holding
      BY <2>2, <2>4, PcsAre
    <3>2. Fences'
      BY <1>0, <2>1, <2>4, <3>1, FencesSame
    <3> QED BY <2>3, <3>2
  <2>5. CASE own[o].fence \cap leased = {} /\ leased' = leased \cup own[o].fence
             /\ own'[o].pc = "leased" /\ SameWork(o)
    <3>1. \A q \in Requests : q # o => own'[q] = own[q]
      BY <2>1 DEF Rest
    <3>2. own'[o].fence = own[o].fence /\ own'[o].pc \in Holding /\ own[o].pc \notin Holding
      BY <2>2, <2>5, PcsAre DEF SameWork
    <3>3. Holders' = Holders \cup {o} /\ o \notin Holders
      BY <2>1, <3>1, <3>2 DEF Holders
    <3>4. \A q \in Holders' : own'[q].fence = own[q].fence
      BY <3>1, <3>2, <3>3 DEF Holders
    <3>5. leased' = UNION {own'[q].fence : q \in Holders'}
      BY <1>0, <2>5, <3>3, <3>4 DEF Fences
    <3>6. \A q \in Requests : q # o /\ own'[q].pc \in Holding => own'[q].fence \subseteq leased
      BY <1>0, <3>1 DEF Fences, Holders
    <3>7. \A p, q \in Requests :
              p # q /\ own'[p].pc \in Holding /\ own'[q].pc \in Holding =>
                  own'[p].fence \cap own'[q].fence = {}
      BY <1>0, <2>5, <3>1, <3>2, <3>6 DEF Fences
    <3> QED BY <2>3, <3>5, <3>7 DEF Fences
  <2> QED BY <2>1, <2>4, <2>5
<1>3. CASE EndLease
  <2> DEFINE o == queue[1].rec
  <2>1. /\ queue[1].op = "release" /\ o \in Requests /\ Rest(o)
        /\ leased' = leased \ own[o].fence /\ own'[o].pc = "done"
    BY <1>0, <1>3, ReleaseIs
  <2>6. lock' = lock
    BY <1>3 DEF EndLease
  <2>2. own[o].pc = "releasing"
    <3>1. 1 \in DOMAIN queue
      BY <1>0, <1>3, HeadIs DEF EndLease
    <3> QED BY <1>0, <2>1, <3>1 DEF Commands
  <2> HIDE DEF o
  <2>3. Flock'
    BY <1>0, <2>1, <2>2, <2>6, PcsAre DEF Flock, Rest
  <2>4. \A q \in Requests : q # o => own'[q] = own[q]
    BY <2>1 DEF Rest
  <2>5. own'[o].pc \notin Holding /\ own[o].pc \in Holding
    BY <2>1, <2>2, PcsAre
  <2>7. Holders' = Holders \ {o} /\ o \in Holders
    BY <2>1, <2>4, <2>5 DEF Holders
  <2>8. \A q \in Holders' : own'[q].fence = own[q].fence /\ own[q].fence \cap own[o].fence = {}
    BY <1>0, <2>1, <2>4, <2>5, <2>7 DEF Holders, Fences
  <2>9. leased' = UNION {own'[q].fence : q \in Holders'}
    <3>1. leased = UNION {own[q].fence : q \in Holders}
      BY <1>0 DEF Fences
    <3>2. UNION {own'[q].fence : q \in Holders'} = UNION {own[q].fence : q \in Holders \ {o}}
      BY <2>7, <2>8
    <3>3. \A q \in Holders \ {o} : own[q].fence \cap own[o].fence = {}
      BY <2>7, <2>8
    <3> QED BY <2>1, <2>7, <3>1, <3>2, <3>3
  <2>10. \A p, q \in Requests :
            p # q /\ own'[p].pc \in Holding /\ own'[q].pc \in Holding =>
                own'[p].fence \cap own'[q].fence = {}
    BY <1>0, <2>4, <2>5 DEF Fences
  <2> QED BY <2>3, <2>9, <2>10 DEF Fences
<1>4. ASSUME NEW o \in Requests, AskCompact(o) \/ AskRollback(o) \/ QueueLease(o)
      PROVE  Flock' /\ Fences'
  <2>1. /\ Rest(o) /\ UNCHANGED <<leased, lock>>
        /\ own[o].pc \notin Holding /\ own'[o].pc \notin Holding
        /\ own[o].pc \notin Working /\ own'[o].pc \notin Working
    BY <1>0, <1>4, AskIs, PcsAre
  <2>2. Fences'
    BY <1>0, <2>1, FencesSame
  <2> QED BY <1>0, <2>1, <2>2 DEF Flock, Rest
<1>5. ASSUME NEW o \in Requests, WorkSteps(o)
      PROVE  Flock' /\ Fences'
  <2>1. /\ Rest(o) /\ UNCHANGED leased /\ own'[o].fence = own[o].fence
        /\ Carries(o) \/ Begins(o) \/ Ends(o)
    BY <1>0, <1>5, WorkMoves, WorkQuiet
  <2>2. own[o].pc \in Holding /\ own'[o].pc \in Holding
    BY <2>1, PcsAre DEF Carries, Begins, Ends
  <2>3. Fences'
    BY <1>0, <2>1, <2>2, FencesSame
  <2>4. \A q \in Requests : q # o => own'[q] = own[q]
    BY <2>1 DEF Rest
  <2>5. NoOne \notin Requests
    BY SessionAssumption DEF Requests
  <2>6. CASE Carries(o)
    BY <1>0, <2>3, <2>4, <2>6 DEF Carries, Flock
  <2>7. CASE Begins(o)
    <3>1. own'[o].pc \in Working
      BY <2>7, PcsAre DEF Begins
    <3> QED BY <1>0, <2>3, <2>4, <2>5, <2>7, <3>1 DEF Begins, Flock
  <2>8. CASE Ends(o)
    <3>1. own'[o].pc \notin Working /\ (own[o].pc \in Working <=> lock = o)
      BY <1>0, <2>8, PcsAre DEF Ends, Flock
    <3>2. lock' # o /\ \A q \in Requests : q # o => (lock' = q <=> lock = q)
      BY <2>5, <2>8 DEF Ends
    <3> QED BY <1>0, <2>3, <2>4, <3>1, <3>2 DEF Flock
  <2> QED BY <2>1, <2>3, <2>6, <2>7, <2>8
<1>6. CASE DaemonDies
  <2>1. \A o \in Requests : own'[o].pc \notin Holding /\ own'[o].pc \notin Working
    BY <1>6, DeathIs, IdleIs, PcsAre
  <2>2. NoOne \notin Requests /\ lock' = NoOne /\ leased' = {}
    BY <1>6, DeathIs, SessionAssumption DEF Requests
  <2>3. Holders' = {}
    BY <2>1 DEF Holders
  <2>4. leased' = UNION {own'[q].fence : q \in Holders'}
    BY <2>2, <2>3
  <2> QED BY <2>1, <2>2, <2>4 DEF Flock, Fences
<1> QED BY <1>1, <1>2, <1>3, <1>4, <1>5, <1>6, NextCases

LEMMA Appended ==
  ASSUME NEW S, NEW q \in Seq(S), NEW c \in S
  PROVE  /\ DOMAIN q = 1..Len(q) /\ Len(q) \in Nat /\ DOMAIN Append(q, c) = 1..Len(q) + 1
         /\ \A k \in DOMAIN Append(q, c) :
               \/ k \in DOMAIN q /\ Append(q, c)[k] = q[k]
               \/ k = Len(q) + 1 /\ Append(q, c)[k] = c
         /\ \A k \in DOMAIN q : k < Len(q) + 1
<1>1. /\ DOMAIN q = 1..Len(q) /\ Len(q) \in Nat /\ DOMAIN Append(q, c) = 1..Len(q) + 1
      /\ \A k \in 1..Len(q) : Append(q, c)[k] = q[k]
      /\ Append(q, c)[Len(q) + 1] = c
  OBVIOUS
<1>2. \A k \in 1..Len(q) + 1 : k \in 1..Len(q) \/ k = Len(q) + 1
  BY <1>1
<1> QED BY <1>1, <1>2

\* The commands of the queue are those of the requests that wait for them.
LEMMA CommandsTail ==
  ASSUME TypeOK, Commands, NEW op, Head1(op), queue' = Tail(queue),
         \/ own' = own
         \/ op # "append" /\ Rest(queue[1].rec)
  PROVE  Commands'
<1>1. /\ 1 \in DOMAIN queue /\ queue[1].op = op
      /\ \A k \in DOMAIN Tail(queue) :
               /\ k \in Nat /\ k + 1 \in DOMAIN queue /\ k + 1 # 1
               /\ Tail(queue)[k] = queue[k + 1]
  BY HeadIs
<1>2. \A k \in DOMAIN queue : k # 1 /\ queue[k].op # "append" =>
         queue[k].rec \in Requests /\ own'[queue[k].rec] = own[queue[k].rec]
  <2> SUFFICES ASSUME NEW k \in DOMAIN queue, k # 1, queue[k].op # "append"
               PROVE  queue[k].rec \in Requests /\ own'[queue[k].rec] = own[queue[k].rec]
    OBVIOUS
  <2>1. queue[k].rec \in Requests
    BY QueueIs, CommandIs
  <2>2. op # "append" => queue[k].rec # queue[1].rec
    BY <1>1 DEF Commands
  <2> QED BY <2>1, <2>2 DEF Rest
<1>3. ASSUME NEW k \in DOMAIN queue'
      PROVE  /\ queue'[k].op = "lease" => own'[queue'[k].rec].pc = "waiting"
             /\ queue'[k].op = "release" => own'[queue'[k].rec].pc = "releasing"
  <2>1. k + 1 \in DOMAIN queue /\ k + 1 # 1 /\ queue'[k] = queue[k + 1]
    BY <1>1
  <2> QED BY <2>1, <1>2 DEF Commands
<1>4. ASSUME NEW j \in DOMAIN queue', NEW k \in DOMAIN queue', j # k,
             queue'[j].op # "append", queue'[k].op # "append"
      PROVE  queue'[j].rec # queue'[k].rec
  <2>1. /\ k + 1 \in DOMAIN queue /\ queue'[k] = queue[k + 1]
        /\ j + 1 \in DOMAIN queue /\ queue'[j] = queue[j + 1] /\ j \in Nat /\ k \in Nat
    BY <1>1
  <2>2. j + 1 # k + 1
    BY <2>1, <1>4
  <2> QED BY <2>1, <2>2, <1>4 DEF Commands
<1> QED BY <1>3, <1>4 DEF Commands

LEMMA CommandsAppend ==
  ASSUME TypeOK, Commands, NEW c \in Command, queue' = Append(queue, c),
         \/ own' = own /\ c.op = "append"
         \/ /\ c.op = "lease" /\ Rest(c.rec)
            /\ own'[c.rec].pc = "waiting" /\ own[c.rec].pc \notin {"waiting", "releasing"}
         \/ /\ c.op = "release" /\ Rest(c.rec)
            /\ own'[c.rec].pc = "releasing" /\ own[c.rec].pc \notin {"waiting", "releasing"}
  PROVE  Commands'
<1>1. /\ DOMAIN queue' = 1..Len(queue) + 1 /\ Len(queue) \in Nat
      /\ \A k \in DOMAIN queue' : \/ k \in DOMAIN queue /\ queue'[k] = queue[k]
                                  \/ k = Len(queue) + 1 /\ queue'[k] = c
      /\ \A k \in DOMAIN queue : k < Len(queue) + 1
  BY QueueIs, Appended
<1>2. \A k \in DOMAIN queue : queue[k].op # "append" =>
         /\ queue[k].rec \in Requests /\ own'[queue[k].rec] = own[queue[k].rec]
         /\ c.op # "append" => queue[k].rec # c.rec
  <2> SUFFICES ASSUME NEW k \in DOMAIN queue, queue[k].op # "append"
               PROVE  /\ queue[k].rec \in Requests /\ own'[queue[k].rec] = own[queue[k].rec]
                      /\ c.op # "append" => queue[k].rec # c.rec
    OBVIOUS
  <2>1. queue[k].rec \in Requests /\ queue[k].op \in {"lease", "release"}
    BY QueueIs, CommandIs
  <2>2. own[queue[k].rec].pc \in {"waiting", "releasing"}
    BY <2>1 DEF Commands
  <2> QED BY <2>1, <2>2 DEF Rest
<1>3. ASSUME NEW k \in DOMAIN queue'
      PROVE  /\ queue'[k].op = "lease" => own'[queue'[k].rec].pc = "waiting"
             /\ queue'[k].op = "release" => own'[queue'[k].rec].pc = "releasing"
  <2>1. CASE k \in DOMAIN queue /\ queue'[k] = queue[k]
    BY <2>1, <1>2 DEF Commands
  <2>2. CASE queue'[k] = c
    BY <2>2
  <2> QED BY <1>1, <2>1, <2>2
<1>4. ASSUME NEW j \in DOMAIN queue', NEW k \in DOMAIN queue', j # k,
             queue'[j].op # "append", queue'[k].op # "append"
      PROVE  queue'[j].rec # queue'[k].rec
  BY <1>1, <1>2, <1>4 DEF Commands
<1> QED BY <1>3, <1>4 DEF Commands

LEMMA CommandsSame ==
  ASSUME TypeOK, Commands, UNCHANGED queue, NEW o \in Requests, Rest(o),
         own[o].pc \notin {"waiting", "releasing"}
  PROVE  Commands'
<1>1. \A k \in DOMAIN queue : queue[k].op # "append" =>
         own'[queue[k].rec] = own[queue[k].rec]
  <2> SUFFICES ASSUME NEW k \in DOMAIN queue, queue[k].op # "append"
               PROVE  own'[queue[k].rec] = own[queue[k].rec]
    OBVIOUS
  <2>1. queue[k].rec \in Requests /\ queue[k].op \in {"lease", "release"}
    BY QueueIs, CommandIs
  <2>2. own[queue[k].rec].pc \in {"waiting", "releasing"}
    BY <2>1 DEF Commands
  <2> QED BY <2>1, <2>2 DEF Rest
<1> QED BY <1>1 DEF Commands

LEMMA CommandsStep ==
  ASSUME Core, Next
  PROVE  Commands'
<1>0. TypeOK /\ Commands
  BY LeaseParts DEF Core
<1>1. ASSUME NEW p \in Paths, Send(p) PROVE Commands'
  <2>1. <<p, sent[p] + 1>> \in SessionRecord
    <3>1. sent[p] \in Nat /\ Len(Class[p]) \in Nat /\ sent[p] < Len(Class[p])
      BY <1>0, <1>1, RecordIs DEF TypeOK, Send
    <3>2. sent[p] + 1 \in 1..Len(Class[p])
      BY <3>1
    <3> QED BY <3>2, RecordIs
  <2> DEFINE c == [op |-> "append", rec |-> <<p, sent[p] + 1>>]
  <2>2. c \in Command /\ c.op = "append"
    BY <2>1, AppendCommand
  <2>3. queue' = Append(queue, c) /\ own' = own
    BY <1>1 DEF Send
  <2> HIDE DEF c
  <2> QED BY <1>0, <2>2, <2>3, CommandsAppend
<1>2. CASE DeferAppend \/ RunAppend
  <2>1. Head1("append") /\ queue' = Tail(queue) /\ own' = own
    BY <1>2 DEF DeferAppend, RunAppend
  <2> QED BY <1>0, <2>1, CommandsTail
<1>3. CASE GrantLease
  <2>1. Head1("lease") /\ queue' = Tail(queue) /\ Rest(queue[1].rec)
    BY <1>0, <1>3, GrantIs DEF GrantLease
  <2> QED BY <1>0, <2>1, CommandsTail
<1>4. CASE EndLease
  <2> DEFINE o == queue[1].rec
  <2>1. /\ queue[1].op = "release" /\ o \in Requests /\ Rest(o)
    BY <1>0, <1>4, ReleaseIs
  <2>2. /\ Ready \in Nat
        /\ \A k \in DOMAIN queue' :
               \/ queue'[k].op = "append"
               \/ /\ k - Ready + 1 \in DOMAIN queue /\ k - Ready + 1 # 1
                  /\ queue'[k] = queue[k - Ready + 1]
    BY <1>0, <1>4, EndLeaseIs
  <2>3. 1 \in DOMAIN queue
    BY <1>0, <1>4, HeadIs DEF EndLease
  <2>4. \A k \in DOMAIN queue : k # 1 /\ queue[k].op # "append" =>
           queue[k].rec \in Requests /\ own'[queue[k].rec] = own[queue[k].rec]
    <3> SUFFICES ASSUME NEW k \in DOMAIN queue, k # 1, queue[k].op # "append"
                 PROVE  queue[k].rec \in Requests /\ own'[queue[k].rec] = own[queue[k].rec]
      OBVIOUS
    <3>1. queue[k].rec \in Requests
      BY <1>0, QueueIs, CommandIs
    <3>2. queue[k].rec # o
      BY <1>0, <2>1, <2>3 DEF Commands
    <3> QED BY <2>1, <3>1, <3>2 DEF Rest
  <2> HIDE DEF o
  <2>5. ASSUME NEW k \in DOMAIN queue'
        PROVE  /\ queue'[k].op = "lease" => own'[queue'[k].rec].pc = "waiting"
               /\ queue'[k].op = "release" => own'[queue'[k].rec].pc = "releasing"
    <3>1. CASE queue'[k].op = "append"
      BY <3>1
    <3>2. CASE /\ k - Ready + 1 \in DOMAIN queue /\ k - Ready + 1 # 1
               /\ queue'[k] = queue[k - Ready + 1]
      BY <1>0, <3>2, <2>4 DEF Commands
    <3> QED BY <2>2, <3>1, <3>2
  <2>6. ASSUME NEW j \in DOMAIN queue', NEW k \in DOMAIN queue', j # k,
               queue'[j].op # "append", queue'[k].op # "append"
        PROVE  queue'[j].rec # queue'[k].rec
    <3>1. /\ k - Ready + 1 \in DOMAIN queue /\ queue'[k] = queue[k - Ready + 1]
          /\ j - Ready + 1 \in DOMAIN queue /\ queue'[j] = queue[j - Ready + 1]
      BY <2>2, <2>6
    <3>2. j \in Int /\ k \in Int
      <4>1. queue' \in Seq(Command)
        BY <1>0, <1>4, EndLeaseIs
      <4>2. DOMAIN queue' = 1..Len(queue')
        BY <4>1
      <4> QED BY <4>2
    <3>3. j - Ready + 1 # k - Ready + 1
      BY <3>2, <2>2, <2>6
    <3> QED BY <1>0, <3>1, <3>3, <2>6 DEF Commands
  <2> QED BY <2>5, <2>6 DEF Commands
<1>5. ASSUME NEW o \in Requests, AskCompact(o) \/ AskRollback(o) \/ QueueLease(o)
      PROVE  Commands'
  <2>1. CASE own[o].pc = "idle" /\ UNCHANGED queue /\ Rest(o)
    BY <1>0, <2>1, CommandsSame
  <2>2. CASE /\ own[o].pc = "asked" /\ own'[o].pc = "waiting" /\ Rest(o)
             /\ queue' = Append(queue, [op |-> "lease", rec |-> o])
    <3> DEFINE c == [op |-> "lease", rec |-> o]
    <3>1. c \in Command /\ c.op = "lease" /\ c.rec = o
      BY ReleaseCommand
    <3>2. queue' = Append(queue, c)
      BY <2>2
    <3> HIDE DEF c
    <3>3. /\ c.op = "lease" /\ Rest(c.rec)
          /\ own'[c.rec].pc = "waiting" /\ own[c.rec].pc \notin {"waiting", "releasing"}
      BY <2>2, <3>1
    <3> QED BY <1>0, <3>1, <3>2, <3>3, CommandsAppend
  <2> QED BY <1>0, <1>5, <2>1, <2>2, AskIs
<1>6. ASSUME NEW o \in Requests, WorkSteps(o)
      PROVE  Commands'
  <2>1. Rest(o) /\ (Carries(o) \/ Begins(o) \/ Ends(o))
    BY <1>0, <1>6, WorkMoves
  <2>2. own[o].pc \in Working \cup {"leased"}
    BY <2>1 DEF Carries, Begins, Ends
  <2>3. own[o].pc \notin {"waiting", "releasing"}
    BY <2>2 DEF Working, Reading
  <2>4. CASE UNCHANGED queue
    BY <1>0, <2>1, <2>3, <2>4, CommandsSame
  <2>5. CASE Ends(o)
    <3> DEFINE c == [op |-> "release", rec |-> o]
    <3>1. c \in Command /\ c.op = "release" /\ c.rec = o
      BY ReleaseCommand
    <3>2. queue' = Append(queue, c)
      BY <2>5 DEF Ends
    <3> HIDE DEF c
    <3>3. /\ c.op = "release" /\ Rest(c.rec)
          /\ own'[c.rec].pc = "releasing" /\ own[c.rec].pc \notin {"waiting", "releasing"}
      BY <2>1, <2>3, <2>5, <3>1 DEF Ends
    <3> QED BY <1>0, <3>1, <3>2, <3>3, CommandsAppend
  <2> QED BY <2>1, <2>4, <2>5 DEF Carries, Begins
<1>7. CASE DaemonDies
  BY <1>7, DeathIs DEF Commands
<1>8. CASE DryRun \/ \E p \in Paths : Edit(p)
  <2>1. own' = own /\ queue' = queue
    BY <1>8 DEF DryRun, Edit, writer
  <2> QED BY <1>0, <2>1 DEF Commands
<1> QED BY <1>1, <1>2, <1>3, <1>4, <1>5, <1>6, <1>7, <1>8, NextCases

LEMMA LeaseStep ==
  ASSUME Core, Next
  PROVE  LeaseHeld'
<1>1. Flock' /\ Fences' /\ Commands'
  BY HoldersStep, CommandsStep
<1> QED BY <1>1 DEF LeaseHeld, Flock, Fences, Commands, Holders

\* One request works at a time.
LEMMA Alone ==
  ASSUME Core, NEW o \in Requests, own[o].pc \in Working, NEW q \in Requests, own[q].pc \in Working
  PROVE  o = q
BY DEF Core, LeaseHeld

(***************************************************************************)
(* The writer's handles, and the appends that wait for a lease.            *)
(***************************************************************************)
LEMMA Leased ==
  ASSUME Core, NEW o \in Requests, own[o].pc \in {"rename", "swap"}
  PROVE  own[o].path \in leased /\ own[o].path \in Paths /\ own[o].pc \in Working
<1>1. own[o].pc \in Working \ {"next", "restore"} /\ own[o].pc # "refused" /\ own[o].pc \in Holding
  BY DEF Working, Reading, Holding
<1>2. own[o].path \in own[o].fence
  BY <1>1 DEF Core, WorkFenced
<1>3. own[o].path \in leased
  BY <1>1, <1>2 DEF Core, LeaseHeld
<1> QED BY <1>1, <1>3, PathIs DEF Core

LEMMA HandleStep ==
  ASSUME Core, Next
  PROVE  HandleCurrent'
<1>0. TypeOK /\ HandleCurrent /\ WorkFenced
  BY DEF Core
<1>1. \A p \in Paths : live[p] \in 1..used /\ live[p] # 0 /\ used \in Nat
  BY <1>0, CompactionBounds DEF TypeOK
<1>2. leased \subseteq Paths /\ live \in [Paths -> 1..used] /\ handle \in [Paths -> 0..used]
  BY <1>0 DEF TypeOK
<1> DEFINE Same == UNCHANGED <<live, handle, leased, deferred>>
<1>3. CASE Same
  BY <1>0, <1>3 DEF HandleCurrent
<1>4. ASSUME NEW p \in Paths, Send(p) \/ Edit(p) PROVE Same
  BY <1>4 DEF Send, Edit, sessions, writer
<1>5. CASE DryRun
  BY <1>3, <1>5 DEF DryRun, sessions, writer
<1>6. CASE DeferAppend
  <2>1. /\ Head1("append") /\ queue[1].rec[1] \in leased /\ deferred' = Append(deferred, queue[1].rec)
        /\ UNCHANGED <<live, handle, leased>>
    BY <1>6 DEF DeferAppend, sessions
  <2>2. queue[1].rec \in SessionRecord
    BY <1>0, <2>1, HeadIs
  <2>3. \A k \in DOMAIN deferred' : \/ k \in DOMAIN deferred /\ deferred'[k] = deferred[k]
                                    \/ deferred'[k] = queue[1].rec
    BY <1>0, <2>1, <2>2, QueueIs, Appended
  <2> QED BY <1>0, <2>1, <2>3 DEF HandleCurrent
<1>7. CASE RunAppend
  <2> DEFINE p == queue[1].rec[1]
  <2>1. /\ p \in Paths /\ p \notin leased
        /\ \/ handle' = [handle EXCEPT ![p] = IF ClassOf(queue[1].rec) = "release"
                                                  THEN 0 ELSE live[p]]
           \/ handle' = [handle EXCEPT ![p] = live[p]]
        /\ live' = live
    BY <1>0, <1>7, RunAppendIs DEF Grows, sessions
  <2>2. UNCHANGED <<leased, deferred>>
    BY <1>7 DEF RunAppend
  <2> HIDE DEF p
  <2>3. \A q \in Paths : handle'[q] = handle[q] \/ (q = p /\ handle'[q] \in {0, live[q]})
    BY <1>2, <2>1
  <2> QED BY <1>0, <1>2, <2>1, <2>2, <2>3 DEF HandleCurrent
<1>8. CASE GrantLease
  <2> DEFINE o == queue[1].rec
  <2>1. /\ UNCHANGED <<deferred, live>>
        /\ \/ /\ leased' = leased \cup own[o].fence
              /\ handle' = [p \in Paths |-> IF p \in own[o].fence THEN 0 ELSE handle[p]]
           \/ UNCHANGED <<leased, handle>>
        /\ own[o].fence \subseteq Paths
    BY <1>0, <1>8, GrantIs, OwnIs
  <2> QED BY <1>0, <1>2, <2>1 DEF HandleCurrent
<1>9. CASE EndLease
  <2>1. UNCHANGED <<live, handle>>
    BY <1>9 DEF EndLease, sessions
  <2>2. leased' \subseteq leased
    BY <1>0, <1>9, EndLeaseIs
  <2>3. \A k \in DOMAIN deferred' : deferred'[k][1] \in leased'
    <3> TAKE k \in DOMAIN deferred'
    <3>1. Nth(HeldPlaces, k) \in HeldPlaces /\ deferred'[k] = deferred[Nth(HeldPlaces, k)]
      BY <1>0, <1>9, EndLeaseIs
    <3> QED BY <3>1 DEF HeldPlaces
  <2> QED BY <1>0, <2>1, <2>2, <2>3 DEF HandleCurrent
<1>10. ASSUME NEW o \in Requests, AskCompact(o) \/ AskRollback(o) \/ QueueLease(o)
       PROVE  Same
  BY <1>0, <1>10, AskIs
<1>11. ASSUME NEW o \in Requests, WorkSteps(o)
       PROVE  HandleCurrent'
  <2>1. UNCHANGED <<handle, leased, deferred>>
    BY <1>11, WorkQuiet
  <2>2. CASE UNCHANGED sessions
    BY <1>3, <2>1, <2>2 DEF sessions
  <2>3. ASSUME NEW q \in Requests, Replaces(q) PROVE HandleCurrent'
    <3>1. own[q].pc \in {"rename", "swap"} /\ live' = [live EXCEPT ![own[q].path] = used + 1]
      BY <2>3 DEF Replaces, Renamed
    <3>2. own[q].path \in leased /\ own[q].path \in Paths
      BY <3>1, Leased
    <3> DEFINE t == own[q].path
    <3>3. handle[t] = 0
      BY <1>0, <3>2 DEF HandleCurrent
    <3> HIDE DEF t
    <3>4. live' = [live EXCEPT ![t] = used + 1] /\ t \in Paths
      BY <3>1, <3>2 DEF t
    <3>5. \A p \in Paths : live'[p] = IF p = t THEN used + 1 ELSE live[p]
      BY <1>2, <3>4
    <3>6. \A p \in Paths : live[p] # used + 1
      BY <1>1
    <3> QED BY <1>0, <2>1, <3>3, <3>5, <3>6 DEF HandleCurrent
  <2>4. UNCHANGED sessions \/ Replaces(o)
    <3>1. CASE Rename(o)
      <4>1. own[o].pc = "rename" /\ (UNCHANGED sessions \/ Renamed(own[o].path))
        BY <3>1 DEF Rename, At, Cur
      <4> QED BY <3>1, <4>1, Leased DEF Replaces
    <3>2. CASE Swap(o)
      <4>1. own[o].pc = "swap" /\ (UNCHANGED sessions \/ Renamed(own[o].path))
        BY <3>2 DEF Swap, At, Cur
      <4> QED BY <3>2, <4>1, Leased DEF Replaces
    <3> QED BY <1>11, <3>1, <3>2, WorkQuiet
  <2> QED BY <2>2, <2>3, <2>4
<1>12. CASE DaemonDies
  <2>1. live' = live /\ handle' = [p \in Paths |-> 0] /\ leased' = {} /\ deferred' = <<>>
    BY <1>12, DeathIs DEF sessions
  <2> QED BY <1>0, <2>1 DEF HandleCurrent
<1> QED BY <1>3, <1>4, <1>5, <1>6, <1>7, <1>8, <1>9, <1>10, <1>11, <1>12, NextCases

\* The file a compaction takes in hand next.
LEMMA NextFileIs ==
  ASSUME TypeOK, NEW o \in Requests, NextFile(o)
  PROVE  /\ own[o].pc = "next"
         /\ \/ Over(o)
            \/ \E p \in own[o].todo :
                  /\ p \in Paths /\ own'[o].path = p /\ own'[o].todo = own[o].todo \ {p}
                  /\ \/ /\ own'[o].pc = "archive" /\ own'[o].bytes = Bytes(p)
                        /\ Fingerprint(p) = own[o].plan[p] /\ Eligible(p)
                     \/ own'[o].pc = "refused"
<1>1. own[o].pc = "next" /\ own[o].todo \subseteq Paths
  BY OwnIs DEF NextFile, At
<1>2. CASE ~Over(o)
  <2>1. PICK p \in own[o].todo :
              \/ /\ Fingerprint(p) = own[o].plan[p] /\ Eligible(p)
                 /\ own' = [own EXCEPT ![o].pc = "archive", ![o].todo = @ \ {p},
                                        ![o].path = p, ![o].bytes = Bytes(p)]
              \/ own' = [own EXCEPT ![o].pc = "refused", ![o].todo = @ \ {p}, ![o].path = p]
    BY <1>2 DEF NextFile, Id
  <2>2. p \in Paths /\ own[o].todo \ {p} \in SUBSET Paths /\ "archive" \in Pcs /\ "refused" \in Pcs
    BY <1>1, PcsAre
  <2>3. own \in [Requests -> Request] /\ own[o] \in Request /\ Bytes(p) \in Seq(Record)
    BY <2>2, OwnIs, FileIs
  <2> DEFINE b == Bytes(p)
  <2>4. CASE own' = [own EXCEPT ![o].pc = "archive", ![o].todo = @ \ {p}, ![o].path = p, ![o].bytes = b]
    <3> HIDE DEF b
    <3>1. /\ own'[o].pc = "archive" /\ own'[o].path = p /\ own'[o].todo = own[o].todo \ {p}
          /\ own'[o].bytes = b
      BY <2>3, <2>4 DEF Request
    <3>2. b = Bytes(p)
      BY DEF b
    <3>3. Fingerprint(p) = own[o].plan[p] /\ Eligible(p)
      <4>1. own'[o].pc # "refused"
        BY <3>1
      <4>2. own' = [own EXCEPT ![o].pc = "refused", ![o].todo = @ \ {p}, ![o].path = p] =>
               own'[o].pc = "refused"
        BY <2>3 DEF Request
      <4> QED BY <2>1, <4>1, <4>2
    <3> QED BY <1>1, <2>2, <3>1, <3>2, <3>3
  <2>5. CASE own' = [own EXCEPT ![o].pc = "refused", ![o].todo = @ \ {p}, ![o].path = p]
    <3>1. own'[o].pc = "refused" /\ own'[o].path = p /\ own'[o].todo = own[o].todo \ {p}
      BY <2>3, <2>5 DEF Request
    <3> QED BY <1>1, <2>2, <3>1
  <2> QED BY <2>1, <2>4, <2>5
<1> QED BY <1>1, <1>2

\* The file a rollback looks at next.
LEMMA RestoreIs ==
  ASSUME TypeOK, NEW o \in Requests, Restore(o)
  PROVE  /\ own[o].pc = "restore"
         /\ \/ Over(o)
            \/ \E p \in own[o].todo :
                  /\ p \in Paths /\ own'[o].todo = own[o].todo \ {p}
                  /\ \/ own'[o].pc = "restore"
                     \/ /\ own'[o].pc = "swap" /\ own'[o].path = p /\ Restorable(o, p)
                        /\ staging' = [staging EXCEPT ![p] = File(archive[<<own[o].plan, p>>])]
<1>1. own[o].pc = "restore" /\ own[o].todo \subseteq Paths
  BY OwnIs DEF Restore, At
<1>2. CASE ~Over(o)
  <2>1. PICK p \in own[o].todo :
              \/ own' = [own EXCEPT ![o].todo = @ \ {p}]
              \/ /\ Restorable(o, p)
                 /\ staging' = [staging EXCEPT ![p] = File(archive[<<own[o].plan, p>>])]
                 /\ own' = [own EXCEPT ![o].todo = @ \ {p}, ![o].path = p, ![o].pc = "swap"]
    BY <1>2 DEF Restore, Id
  <2>2. p \in Paths
    BY <1>1
  <2>3. own \in [Requests -> Request] /\ own[o] \in Request
    BY OwnIs
  <2>4. CASE own' = [own EXCEPT ![o].todo = @ \ {p}]
    <3>1. own'[o].pc = "restore" /\ own'[o].todo = own[o].todo \ {p}
      BY <1>1, <2>3, <2>4 DEF Request
    <3> QED BY <1>1, <2>2, <3>1
  <2>5. CASE /\ Restorable(o, p)
             /\ staging' = [staging EXCEPT ![p] = File(archive[<<own[o].plan, p>>])]
             /\ own' = [own EXCEPT ![o].todo = @ \ {p}, ![o].path = p, ![o].pc = "swap"]
    <3>1. own'[o].pc = "swap" /\ own'[o].path = p /\ own'[o].todo = own[o].todo \ {p}
      BY <2>3, <2>5 DEF Request
    <3> QED BY <1>1, <2>2, <2>5, <3>1
  <2> QED BY <2>1, <2>4, <2>5
<1> QED BY <1>1, <1>2

(***************************************************************************)
(* What a request works on.                                                *)
(***************************************************************************)
LEMMA FenceStep ==
  ASSUME Core, Next
  PROVE  WorkFenced'
<1> DEFINE F(o) ==
        /\ own[o].pc \in Reading \cup {"next", "refused"} => o \in Compactions
        /\ own[o].pc \in {"restore", "swap"} => o \in Rollbacks
        /\ o \in Compactions => own[o].fence = Named(own[o].plan)
        /\ own[o].pc \in Working =>
              own[o].plan \in DOMAIN manifest /\ own[o].todo \subseteq Named(own[o].plan)
        /\ own[o].pc \in Working \ {"next", "restore"} =>
              /\ own[o].path \in Named(own[o].plan) \ own[o].todo
              /\ own[o].pc # "refused" => own[o].path \in own[o].fence
<1>0. TypeOK /\ HandleCurrent /\ \A o \in Requests : F(o)
  BY DEF Core, WorkFenced
<1> SUFFICES ASSUME NEW o \in Requests PROVE F(o)'
  BY DEF WorkFenced
<1>1. DOMAIN manifest \subseteq DOMAIN manifest'
  <2>1. ASSUME NEW q \in Requests, WorkSteps(q) PROVE DOMAIN manifest \subseteq DOMAIN manifest'
    BY <2>1, ManifestMoves DEF SameFiles, Plans1, Stages1
  <2> QED BY <2>1, StoreQuiet DEF store
<1>2. CASE own'[o] = own[o]
  BY <1>0, <1>1, <1>2
<1>3. CASE /\ own'[o].pc \notin Working
           /\ o \in Compactions => own'[o].fence = Named(own'[o].plan)
  <2>1. own'[o].pc \notin Reading \cup {"next", "refused"} /\ own'[o].pc \notin {"restore", "swap"}
    BY <1>3 DEF Working
  <2> QED BY <1>3, <2>1
<1>4. CASE DeferAppend \/ RunAppend \/ DryRun \/ \E p \in Paths : Send(p) \/ Edit(p)
  BY <1>2, <1>4, OthersIs
<1>5. CASE GrantLease
  <2>1. LET q == queue[1].rec IN
        /\ Rest(q)
        /\ \/ own'[q].pc = "leased" /\ SameWork(q)
           \/ own'[q].pc = "done" /\ own'[q].plan = NoPlan /\ own'[q].fence = {}
    BY <1>0, <1>5, GrantIs
  <2>2. CASE o # queue[1].rec
    BY <1>2, <2>1, <2>2 DEF Rest
  <2>3. CASE o = queue[1].rec
    <3>1. own'[o].pc \notin Working
      BY <2>1, <2>3, PcsAre
    <3>2. o \in Compactions => own'[o].fence = Named(own'[o].plan)
      BY <1>0, <2>1, <2>3, IdleIs DEF SameWork
    <3> QED BY <1>3, <3>1, <3>2
  <2> QED BY <2>2, <2>3
<1>6. CASE EndLease
  <2>1. LET q == queue[1].rec IN
        Rest(q) /\ own'[q].pc = "done" /\ own'[q].plan = NoPlan /\ own'[q].fence = {}
    BY <1>0, <1>6, ReleaseIs
  <2>2. CASE o # queue[1].rec
    BY <1>2, <2>1, <2>2 DEF Rest
  <2>3. CASE o = queue[1].rec
    BY <1>3, <2>1, <2>3, PcsAre, IdleIs
  <2> QED BY <2>2, <2>3
<1>7. ASSUME NEW q \in Requests, AskCompact(q) \/ AskRollback(q) \/ QueueLease(q)
      PROVE  F(o)'
  <2>1. /\ Rest(q)
        /\ \/ /\ own'[q].pc = "asked"
              /\ q \in Compactions => own'[q].plan = Plan /\ own'[q].fence = Named(Plan)
           \/ own'[q].pc = "waiting" /\ SameWork(q)
    BY <1>0, <1>7, AskIs
  <2>2. CASE o # q
    BY <1>2, <2>1, <2>2 DEF Rest
  <2>3. CASE o = q
    <3>1. own'[o].pc \notin Working
      BY <2>1, <2>3, PcsAre
    <3>2. o \in Compactions => own'[o].fence = Named(own'[o].plan)
      BY <1>0, <2>1, <2>3 DEF SameWork
    <3> QED BY <1>3, <3>1, <3>2
  <2> QED BY <2>2, <2>3
<1>8. CASE DaemonDies
  <2>1. own'[o] = Idle
    BY <1>8, DeathIs
  <2> QED BY <1>3, <2>1, PcsAre, IdleIs
<1>9. ASSUME NEW q \in Requests, WorkSteps(q)
      PROVE  F(o)'
  <2>1. Rest(q) /\ own'[q].plan = own[q].plan /\ own'[q].fence = own[q].fence
    BY <1>0, <1>9, WorkMoves
  <2>2. CASE o # q
    BY <1>2, <2>1, <2>2 DEF Rest
  <2>3. CASE o = q /\ Ends(o)
    BY <1>0, <1>3, <2>1, <2>3, PcsAre DEF Ends
  <2>4. CASE o = q /\ ~Ends(o)
    <3>0. /\ own[o].todo \subseteq Paths /\ own[o].bytes \in Seq(Record) /\ own[o].plan \in Plans
          /\ own[o].path \in Paths \cup {NoPath}
      BY <1>0, OwnIs
    <3>1. CASE Apply(o)
      <4>1. o \in Compactions /\ own[o].pc = "leased" /\ ~Over(o)
        <5>1. own[o].pc = "leased" /\ o \in Compactions
          BY <3>1 DEF Apply, At
        <5> QED BY <1>0, <2>4, <5>1, OverMoves
      <4>2. /\ manifest' = Put(manifest, own[o].plan, Fresh(own[o].plan))
            /\ own' = [own EXCEPT ![o].pc = "next", ![o].todo = Named(own[o].plan)]
        BY <3>1, <4>1 DEF Apply
      <4>3. own'[o].pc = "next" /\ own'[o].todo = Named(own[o].plan)
        <5> DEFINE T == Named(own[o].plan)
        <5>1. T \in SUBSET Paths
          BY <1>0, <3>0, PlanIs
        <5>2. "next" \in Pcs
          BY PcsAre
        <5>3. own' = [own EXCEPT ![o].pc = "next", ![o].todo = T]
          BY <4>2
        <5>5. TypeOK
          BY <1>0
        <5> HIDE DEF T
        <5>4. /\ own' \in [Requests -> Request] /\ own'[o].pc = "next" /\ own'[o].todo = T /\ Rest(o)
              /\ own'[o].plan = own[o].plan /\ own'[o].fence = own[o].fence
              /\ own'[o].path = own[o].path /\ own'[o].bytes = own[o].bytes
          BY <5>1, <5>2, <5>3, <5>5, TodoMoves
        <5> QED BY <5>4 DEF T
      <4>4. own[o].plan \in DOMAIN manifest'
        BY <4>2 DEF Put
      <4> QED BY <1>0, <2>1, <2>4, <4>1, <4>3, <4>4 DEF Reading
    <3>2. CASE BeginRollback(o)
      <4>1. o \in Rollbacks /\ own[o].pc = "leased" /\ ~Over(o)
        <5>1. own[o].pc = "leased" /\ o \in Rollbacks
          BY <3>2 DEF BeginRollback, At
        <5> QED BY <1>0, <2>4, <5>1, OverMoves
      <4>2. /\ own[o].plan \in DOMAIN manifest
            /\ own' = [own EXCEPT ![o].pc = "restore", ![o].todo = Touched(own[o].plan)]
        BY <3>2, <4>1 DEF BeginRollback, Id
      <4>3. own'[o].pc = "restore" /\ own'[o].todo = Touched(own[o].plan)
        <5> DEFINE T == Touched(own[o].plan)
        <5>1. T \in SUBSET Paths
          BY <1>0, <3>0, PlanIs DEF Touched
        <5>2. "restore" \in Pcs
          BY PcsAre
        <5>3. own' = [own EXCEPT ![o].pc = "restore", ![o].todo = T]
          BY <4>2
        <5>5. TypeOK
          BY <1>0
        <5> HIDE DEF T
        <5>4. /\ own' \in [Requests -> Request] /\ own'[o].pc = "restore" /\ own'[o].todo = T /\ Rest(o)
              /\ own'[o].plan = own[o].plan /\ own'[o].fence = own[o].fence
              /\ own'[o].path = own[o].path /\ own'[o].bytes = own[o].bytes
          BY <5>1, <5>2, <5>3, <5>5, TodoMoves
        <5> QED BY <5>4 DEF T
      <4>4. Touched(own[o].plan) \subseteq Named(own[o].plan)
        BY DEF Touched
      <4>5. o \notin Compactions
        BY <4>1, SessionAssumption
      <4> QED BY <1>0, <1>1, <2>1, <2>4, <4>1, <4>2, <4>3, <4>4, <4>5 DEF Reading
    <3>3. ASSUME NEW p \in own[o].todo, own[o].pc = "next", own'[o].pc \in {"archive", "refused"},
                 own'[o].todo = own[o].todo \ {p}, own'[o].path = p
          PROVE  F(o)'
      <4>1. own[o].pc \in Working /\ o \in Compactions /\ own'[o].pc \in Working \ {"next", "restore"}
        BY <1>0, <3>3 DEF Working, Reading
      <4>2. own[o].plan \in DOMAIN manifest' /\ own[o].todo \subseteq Named(own[o].plan)
            /\ own[o].fence = Named(own[o].plan)
        BY <1>0, <1>1, <4>1
      <4>3. own'[o].pc \notin {"restore", "swap"}
        BY <3>3
      <4> QED BY <2>1, <2>4, <3>3, <4>1, <4>2, <4>3
    <3>4. CASE NextFile(o)
      <4>1. own[o].pc = "next" /\ ~Over(o)
        <5>1. own[o].pc = "next"
          BY <3>4 DEF NextFile, At
        <5> QED BY <1>0, <2>4, <5>1, PcsAre, OverMoves
      <4>2. PICK p \in own[o].todo :
               /\ own'[o].path = p /\ own'[o].todo = own[o].todo \ {p}
               /\ own'[o].pc \in {"archive", "refused"}
        BY <1>0, <3>4, <4>1, NextFileIs
      <4> QED BY <3>3, <4>1, <4>2
    <3>5. ASSUME own[o].pc \in Working, own'[o].pc \in Working, SameWork(o),
                 own[o].pc \in Reading \cup {"next", "refused"} <=>
                    own'[o].pc \in Reading \cup {"next", "refused"},
                 own[o].pc \in {"restore", "swap"} <=> own'[o].pc \in {"restore", "swap"},
                 own'[o].pc \in Working \ {"next", "restore"} =>
                    own[o].pc \in Working \ {"next", "restore", "refused"}
          PROVE  F(o)'
      BY <1>0, <1>1, <2>1, <3>5 DEF SameWork
    <3>6. CASE JournalArchived(o) \/ JournalStaged(o) \/ JournalRefused(o) \/ JournalCommitted(o)
      <4>1. ASSUME NEW from \in Working, NEW j, NEW to \in Working, WriteJournal(o, from, j, to)
            PROVE  own[o].pc = from /\ own'[o].pc = to /\ SameWork(o)
        BY <1>0, <2>4, <4>1, JournalMoves
      <4>2. /\ "archived" \in Working /\ "stage" \in Working /\ "staged" \in Working
            /\ "verify" \in Working /\ "renamed" \in Working /\ "next" \in Working /\ "refused" \in Working
        BY PcsAre
      <4>3. CASE JournalArchived(o)
        <5>1. own[o].pc = "archived" /\ own'[o].pc = "stage" /\ SameWork(o)
          BY <4>1, <4>2, <4>3 DEF JournalArchived
        <5> QED BY <3>5, <4>2, <5>1 DEF Reading
      <4>4. CASE JournalStaged(o)
        <5>1. own[o].pc = "staged" /\ own'[o].pc = "verify" /\ SameWork(o)
          BY <4>1, <4>2, <4>4 DEF JournalStaged
        <5> QED BY <3>5, <4>2, <5>1 DEF Reading
      <4>5. CASE JournalRefused(o)
        <5>1. own[o].pc = "refused" /\ own'[o].pc = "next" /\ SameWork(o)
          BY <4>1, <4>2, <4>5 DEF JournalRefused
        <5> QED BY <3>5, <4>2, <5>1 DEF Reading
      <4>6. CASE JournalCommitted(o)
        <5>1. own[o].pc = "renamed" /\ own'[o].pc = "next" /\ SameWork(o)
          BY <4>1, <4>2, <4>6 DEF JournalCommitted
        <5> QED BY <3>5, <4>2, <5>1 DEF Reading
      <4> QED BY <3>6, <4>3, <4>4, <4>5, <4>6
    <3>7. CASE Archive(o) \/ Stage(o) \/ Verify(o) \/ Rename(o)
      <4>1. PICK pc \in {"archived", "refused", "staged", "rename", "renamed"} : Go(o, pc)
        BY <3>7 DEF Archive, Stage, Verify, Rename
      <4>2. own[o].pc \in {"archive", "stage", "verify", "rename"}
        BY <3>7 DEF Archive, Stage, Verify, Rename, At
      <4>3. own'[o].pc = pc /\ SameWork(o)
        <5>1. pc \in Pcs
          BY DEF Pcs, Holding, Working, Reading
        <5> QED BY <1>0, <4>1, <5>1, GoMoves DEF Go
      <4>4. own[o].pc \in Working /\ own'[o].pc \in Working
            /\ own[o].pc \in Reading \cup {"next", "refused"}
            /\ own'[o].pc \in Reading \cup {"next", "refused"}
            /\ own[o].pc \notin {"restore", "swap"} /\ own'[o].pc \notin {"restore", "swap"}
            /\ own[o].pc \in Working \ {"next", "restore", "refused"}
        BY <4>2, <4>3 DEF Working, Reading
      <4> QED BY <3>5, <4>3, <4>4
    <3>8. CASE Swap(o)
      <4>1. own[o].pc = "swap" /\ Go(o, "restore") /\ "restore" \in Pcs
        BY <3>8, PcsAre DEF Swap, At
      <4>2. own'[o].pc = "restore" /\ SameWork(o)
        BY <1>0, <4>1, GoMoves DEF Go
      <4>3. own[o].pc \in Working /\ own'[o].pc \in Working
            /\ own[o].pc \notin Reading \cup {"next", "refused"}
            /\ own'[o].pc \notin Reading \cup {"next", "refused"}
            /\ own'[o].pc \notin Working \ {"next", "restore"}
        BY <4>1, <4>2 DEF Working, Reading
      <4> QED BY <3>5, <4>1, <4>2, <4>3
    <3>9. CASE Restore(o)
      <4>1. own[o].pc = "restore" /\ ~Over(o)
        <5>1. own[o].pc = "restore"
          BY <3>9 DEF Restore, At
        <5> QED BY <1>0, <2>4, <5>1, PcsAre, OverMoves
      <4>2. PICK p \in own[o].todo :
               /\ own'[o].todo = own[o].todo \ {p}
               /\ \/ own'[o].pc = "restore"
                  \/ own'[o].pc = "swap" /\ own'[o].path = p /\ Restorable(o, p)
        BY <1>0, <3>9, <4>1, RestoreIs
      <4>5. /\ o \in Rollbacks /\ o \notin Compactions /\ own[o].plan \in DOMAIN manifest'
            /\ own[o].todo \ {p} \subseteq Named(own[o].plan) /\ p \in Named(own[o].plan)
        <5>1. own[o].pc \in Working
          BY <4>1, PcsAre
        <5>2. own[o].plan \in DOMAIN manifest /\ own[o].todo \subseteq Named(own[o].plan)
              /\ o \in Rollbacks
          BY <1>0, <4>1, <5>1
        <5> QED BY <1>1, <5>2, SessionAssumption
      <4>6. CASE own'[o].pc = "restore"
        BY <2>1, <2>4, <4>2, <4>5, <4>6 DEF Reading
      <4>7. CASE own'[o].pc = "swap" /\ own'[o].path = p /\ Restorable(o, p)
        <5>2. p \in own[o].fence
          BY <4>7 DEF Restorable
        <5> QED BY <2>1, <2>4, <4>2, <4>5, <4>7, <5>2 DEF Reading
      <4> QED BY <4>2, <4>6, <4>7
    <3> QED BY <1>9, <2>4, <3>1, <3>2, <3>4, <3>6, <3>7, <3>8, <3>9 DEF WorkSteps
  <2> QED BY <2>2, <2>3, <2>4
<1> QED BY <1>4, <1>5, <1>6, <1>7, <1>8, <1>9, NextCases

(***************************************************************************)
(* The order of sending.                                                   *)
(***************************************************************************)
\* A record waits, as far as the acknowledgements say.
Waits(acks, r) ==
    /\ acks[r[1]][r[2]] = "pending"
    /\ \A k \in DOMAIN acks[r[1]] : acks[r[1]][k] = "ok" => k < r[2]
SentNew == \A p \in Paths : \A k \in DOMAIN status[p] : k > sent[p] <=> status[p][k] = "new"
DeferredWait == \A k \in DOMAIN deferred : Waits(status, deferred[k])
QueueWait == \A k \in DOMAIN queue : queue[k].op = "append" => Waits(status, queue[k].rec)
DeferredOrder == \A j, k \in DOMAIN deferred :
    j < k /\ deferred[j][1] = deferred[k][1] => deferred[j][2] < deferred[k][2]
QueueOrder == \A j, k \in DOMAIN queue :
    j < k /\ queue[j].op = "append" /\ queue[k].op = "append"
        /\ queue[j].rec[1] = queue[k].rec[1] => queue[j].rec[2] < queue[k].rec[2]
DeferredFirst == \A j \in DOMAIN deferred, k \in DOMAIN queue :
    queue[k].op = "append" /\ deferred[j][1] = queue[k].rec[1] =>
        deferred[j][2] < queue[k].rec[2]

LEMMA OrderParts ==
  SendOrder <=> SentNew /\ DeferredWait /\ QueueWait /\ DeferredOrder /\ QueueOrder /\ DeferredFirst
BY DEF SendOrder, SentNew, DeferredWait, QueueWait, DeferredOrder, QueueOrder, DeferredFirst,
        Waits, Waiting

LEMMA StatusIs ==
  ASSUME TypeOK
  PROVE  /\ DOMAIN status = Paths
         /\ \A p \in Paths : /\ status[p] \in [1..Len(Class[p]) -> {"new", "pending", "ok", "failed"}]
                             /\ Len(Class[p]) \in Nat /\ sent[p] \in Nat
                             /\ DOMAIN status[p] = 1..Len(Class[p])
                             /\ \A k \in DOMAIN status[p] : k \in Nat
         /\ \A r \in SessionRecord : r[1] \in Paths /\ r[2] \in DOMAIN status[r[1]] /\ r[2] \in Nat
<1>1. DOMAIN status = Paths /\ \A p \in Paths :
         /\ status[p] \in [1..Len(Class[p]) -> {"new", "pending", "ok", "failed"}]
         /\ sent[p] \in Nat
  BY DEF TypeOK
<1>2. \A p \in Paths : Len(Class[p]) \in Nat
  BY SessionAssumption
<1>3. ASSUME NEW p \in Paths
      PROVE  DOMAIN status[p] = 1..Len(Class[p]) /\ \A k \in DOMAIN status[p] : k \in Nat
  BY <1>1, <1>2
<1>4. \A r \in SessionRecord : r[1] \in Paths /\ r[2] \in 1..Len(Class[r[1]])
  BY RecordIs
<1> QED BY <1>1, <1>2, <1>3, <1>4

Answered(p, k, v) == status' = [status EXCEPT ![p][k] = v]

LEMMA StatusMoves ==
  ASSUME TypeOK, NEW p \in Paths, NEW k \in DOMAIN status[p], NEW v,
         Answered(p, k, v)
  PROVE  /\ \A q \in Paths : DOMAIN status'[q] = DOMAIN status[q]
         /\ \A q \in Paths : \A i \in DOMAIN status[q] :
               status'[q][i] = IF q = p /\ i = k THEN v ELSE status[q][i]
<1>1. DOMAIN status = Paths /\ \A q \in Paths : DOMAIN status[q] = 1..Len(Class[q])
      /\ status[p] \in [1..Len(Class[p]) -> {"new", "pending", "ok", "failed"}]
  BY StatusIs
<1> DEFINE x == [status[p] EXCEPT ![k] = v]
<1>2. DOMAIN x = DOMAIN status[p] /\ \A i \in DOMAIN status[p] : x[i] = IF i = k THEN v ELSE status[p][i]
  BY <1>1
<1>3. status' = [status EXCEPT ![p] = x]
  BY <1>1 DEF Answered
<1> HIDE DEF x
<1>4. \A q \in Paths : status'[q] = IF q = p THEN x ELSE status[q]
  BY <1>1, <1>3
<1> QED BY <1>2, <1>4

\* While the records and the commands of the appends are the same, so is their order.
LEMMA OrderSame ==
  ASSUME TypeOK, SendOrder, UNCHANGED <<status, sent, deferred>>,
         NEW f, \A k \in DOMAIN queue' : queue'[k].op = "append" =>
                   f[k] \in DOMAIN queue /\ queue'[k] = queue[f[k]],
         \A j, k \in DOMAIN queue' : j < k /\ queue'[j].op = "append" /\ queue'[k].op = "append" => f[j] < f[k]
  PROVE  SendOrder'
<1>1. SentNew' /\ DeferredWait' /\ DeferredOrder'
  BY OrderParts DEF SentNew, DeferredWait, DeferredOrder, Waits
<1>2. QueueWait'
  BY OrderParts DEF QueueWait, Waits
<1>3. QueueOrder'
  <2> SUFFICES ASSUME NEW j \in DOMAIN queue', NEW k \in DOMAIN queue', j < k,
                      queue'[j].op = "append", queue'[k].op = "append",
                      queue'[j].rec[1] = queue'[k].rec[1]
               PROVE  queue'[j].rec[2] < queue'[k].rec[2]
    BY DEF QueueOrder
  <2>1. f[j] \in DOMAIN queue /\ f[k] \in DOMAIN queue /\ f[j] < f[k]
        /\ queue'[j] = queue[f[j]] /\ queue'[k] = queue[f[k]]
    OBVIOUS
  <2> QED BY <2>1, OrderParts DEF QueueOrder
<1>4. DeferredFirst'
  <2> SUFFICES ASSUME NEW j \in DOMAIN deferred', NEW k \in DOMAIN queue',
                      queue'[k].op = "append", deferred'[j][1] = queue'[k].rec[1]
               PROVE  deferred'[j][2] < queue'[k].rec[2]
    BY DEF DeferredFirst
  <2>1. f[k] \in DOMAIN queue /\ queue'[k] = queue[f[k]] /\ j \in DOMAIN deferred /\ deferred' = deferred
    OBVIOUS
  <2> QED BY <2>1, OrderParts DEF DeferredFirst
<1>5. SendOrder' <=> (SentNew' /\ DeferredWait' /\ QueueWait' /\ DeferredOrder' /\ QueueOrder' /\ DeferredFirst')
  BY DEF SendOrder, SentNew, DeferredWait, QueueWait, DeferredOrder, QueueOrder, DeferredFirst,
        Waits, Waiting
<1> QED BY <1>1, <1>2, <1>3, <1>4, <1>5

LEMMA OrderStep ==
  ASSUME Core, Next
  PROVE  SendOrder'
<1>0. TypeOK /\ HandleCurrent /\ SendOrder /\ SentNew /\ DeferredWait /\ QueueWait /\ DeferredOrder
      /\ QueueOrder /\ DeferredFirst
  BY OrderParts DEF Core
<1>q. /\ queue \in Seq(Command) /\ Len(queue) \in Nat /\ DOMAIN queue = 1..Len(queue)
      /\ \A k \in DOMAIN queue : queue[k] \in Command
      /\ deferred \in Seq(SessionRecord) /\ Len(deferred) \in Nat /\ DOMAIN deferred = 1..Len(deferred)
      /\ \A k \in DOMAIN deferred : deferred[k] \in SessionRecord
      /\ \A k \in DOMAIN queue : queue[k].op = "append" => queue[k].rec \in SessionRecord
  BY <1>0, QueueIs, CommandIs
<1>s. /\ DOMAIN status = Paths
      /\ \A p \in Paths : /\ status[p] \in [1..Len(Class[p]) -> {"new", "pending", "ok", "failed"}]
                             /\ Len(Class[p]) \in Nat /\ sent[p] \in Nat
                             /\ DOMAIN status[p] = 1..Len(Class[p])
                             /\ \A k \in DOMAIN status[p] : k \in Nat
      /\ \A r \in SessionRecord : r[1] \in Paths /\ r[2] \in DOMAIN status[r[1]] /\ r[2] \in Nat
  BY <1>0, StatusIs
<1>p. ASSUME SentNew', DeferredWait', QueueWait', DeferredOrder', QueueOrder', DeferredFirst'
      PROVE  SendOrder'
  BY <1>p DEF SendOrder, SentNew, DeferredWait, QueueWait, DeferredOrder, QueueOrder, DeferredFirst,
        Waits, Waiting
<1>1. ASSUME NEW p \in Paths, Send(p) PROVE SendOrder'
  <2> DEFINE k0 == sent[p] + 1
             r == <<p, k0>>
             c == [op |-> "append", rec |-> r]
  <2>1. /\ sent[p] < Len(Class[p]) /\ sent' = [sent EXCEPT ![p] = sent[p] + 1]
        /\ status' = [status EXCEPT ![p][k0] = "pending"] /\ queue' = Append(queue, c)
        /\ deferred' = deferred
    BY <1>1, <1>0 DEF Send, TypeOK
  <2>2. k0 \in DOMAIN status[p] /\ k0 \in Nat /\ k0 = sent[p] + 1 /\ k0 > sent[p]
    BY <2>1, <1>s
  <2>3. r \in SessionRecord /\ r[1] = p /\ r[2] = k0
    BY <2>2, <1>s, RecordIs
  <2>4. c \in Command /\ c.op = "append" /\ c.rec = r
    BY <2>3, AppendCommand
  <2> HIDE DEF k0, c, r
  <2>5. status[p][k0] = "new"
    BY <1>0, <2>2 DEF SentNew
  <2>6. /\ \A q \in Paths : DOMAIN status'[q] = DOMAIN status[q]
        /\ \A q \in Paths : \A i \in DOMAIN status[q] :
               status'[q][i] = IF q = p /\ i = k0 THEN "pending" ELSE status[q][i]
    <3>1. TypeOK
      BY <1>0
    <3>2. k0 \in DOMAIN status[p]
      BY <2>2
    <3>3. Answered(p, k0, "pending")
      BY <2>1 DEF Answered
    <3> QED BY <3>1, <3>2, <3>3, StatusMoves
  <2>7. \A q \in Paths : sent'[q] = IF q = p THEN k0 ELSE sent[q]
    BY <1>0, <2>1, <2>2 DEF TypeOK
  <2>8. /\ DOMAIN queue' = 1..Len(queue) + 1
        /\ \A k \in DOMAIN queue' : \/ k \in DOMAIN queue /\ queue'[k] = queue[k]
                                    \/ k = Len(queue) + 1 /\ queue'[k] = c
        /\ \A k \in DOMAIN queue : k < Len(queue) + 1
    BY <1>q, <2>1, <2>4, Appended
  <2>9. \A x \in SessionRecord : Waits(status, x) => Waits(status', x) /\ (x[1] = p => x[2] < k0)
    <3> SUFFICES ASSUME NEW x \in SessionRecord, Waits(status, x)
                 PROVE  Waits(status', x) /\ (x[1] = p => x[2] < k0)
      OBVIOUS
    <3>1. x[1] \in Paths /\ x[2] \in DOMAIN status[x[1]] /\ status[x[1]][x[2]] = "pending"
          /\ \A k \in DOMAIN status[x[1]] : status[x[1]][k] = "ok" => k < x[2]
      BY <1>s DEF Waits
    <3>2. status'[x[1]][x[2]] = "pending"
      BY <3>1, <2>6
    <3>3. \A k \in DOMAIN status'[x[1]] : status'[x[1]][k] = "ok" => k < x[2]
      BY <3>1, <2>6
    <3>4. x[1] = p => ~(x[2] > sent[p])
      BY <1>0, <3>1 DEF SentNew
    <3>5. x[1] = p => x[2] < k0
      BY <3>1, <3>4, <2>2, <1>s
    <3> QED BY <3>2, <3>3, <3>5 DEF Waits
  <2>10. Waits(status', r)
    <3>1. status'[p][k0] = "pending"
      BY <2>2, <2>6
    <3>2. ASSUME NEW k \in DOMAIN status'[p], status'[p][k] = "ok" PROVE k < k0
      <4>1. k \in DOMAIN status[p] /\ status[p][k] = "ok" /\ k \in Nat
        BY <3>2, <2>6, <1>s
      <4>2. ~(k > sent[p])
        BY <1>0, <4>1 DEF SentNew
      <4> QED BY <4>1, <4>2, <2>2, <1>s
    <3> QED BY <3>1, <3>2, <2>3 DEF Waits
  <2>11. SentNew'
    <3> SUFFICES ASSUME NEW q \in Paths, NEW k \in DOMAIN status'[q]
                 PROVE  k > sent'[q] <=> status'[q][k] = "new"
      BY DEF SentNew
    <3>1. k \in DOMAIN status[q] /\ k \in Nat /\ sent[q] \in Nat
      BY <2>6, <1>s
    <3>2. k > sent[q] <=> status[q][k] = "new"
      BY <1>0, <3>1 DEF SentNew
    <3> QED BY <3>1, <3>2, <2>2, <2>5, <2>6, <2>7
  <2>12. DeferredWait' /\ DeferredOrder'
    BY <1>0, <1>q, <2>1, <2>9 DEF DeferredWait, DeferredOrder
  <2>13. QueueWait'
    BY <1>0, <1>q, <2>4, <2>8, <2>9, <2>10 DEF QueueWait
  <2>14. QueueOrder'
    <3> SUFFICES ASSUME NEW i \in DOMAIN queue', NEW k \in DOMAIN queue', i < k,
                        queue'[i].op = "append", queue'[k].op = "append",
                        queue'[i].rec[1] = queue'[k].rec[1]
                 PROVE  queue'[i].rec[2] < queue'[k].rec[2]
      BY DEF QueueOrder
    <3>1. i \in Int /\ k \in Int /\ k <= Len(queue) + 1
      BY <2>8, <1>q
    <3>2. i \in DOMAIN queue /\ queue'[i] = queue[i]
      BY <2>8, <3>1, <1>q
    <3>3. CASE k \in DOMAIN queue /\ queue'[k] = queue[k]
      BY <1>0, <3>2, <3>3 DEF QueueOrder
    <3>4. CASE queue'[k] = c
      <4>1. queue[i].rec \in SessionRecord /\ Waits(status, queue[i].rec) /\ queue[i].rec[1] = p
        BY <1>0, <1>q, <2>3, <2>4, <3>2, <3>4 DEF QueueWait
      <4> QED BY <4>1, <2>3, <2>4, <2>9, <3>2, <3>4
    <3> QED BY <2>8, <3>3, <3>4
  <2>15. DeferredFirst'
    <3> SUFFICES ASSUME NEW j \in DOMAIN deferred', NEW k \in DOMAIN queue',
                        queue'[k].op = "append", deferred'[j][1] = queue'[k].rec[1]
                 PROVE  deferred'[j][2] < queue'[k].rec[2]
      BY DEF DeferredFirst
    <3>1. j \in DOMAIN deferred /\ deferred' = deferred
      BY <2>1
    <3>3. CASE k \in DOMAIN queue /\ queue'[k] = queue[k]
      BY <1>0, <3>1, <3>3 DEF DeferredFirst
    <3>4. CASE queue'[k] = c
      <4>1. deferred[j] \in SessionRecord /\ Waits(status, deferred[j]) /\ deferred[j][1] = p
        BY <1>0, <1>q, <2>3, <2>4, <3>1, <3>4 DEF DeferredWait
      <4> QED BY <4>1, <2>3, <2>4, <2>9, <3>1, <3>4
    <3> QED BY <2>8, <3>3, <3>4
  <2> QED BY <2>11, <2>12, <2>13, <2>14, <2>15, <1>p
<1>t. ASSUME NEW op, Head1(op), queue' = Tail(queue)
      PROVE  /\ 1 \in DOMAIN queue /\ queue[1].op = op
             /\ \A k \in DOMAIN queue' : /\ k \in Nat /\ k + 1 \in DOMAIN queue /\ 1 < k + 1
                                         /\ queue'[k] = queue[k + 1]
  <2>1. /\ 1 \in DOMAIN queue /\ queue[1].op = op
        /\ \A k \in DOMAIN Tail(queue) : /\ k \in Nat /\ k + 1 \in DOMAIN queue /\ k + 1 # 1
                                         /\ Tail(queue)[k] = queue[k + 1]
    BY <1>0, <1>t, HeadIs
  <2>2. \A k \in DOMAIN Tail(queue) : 1 < k + 1
    <3> TAKE k \in DOMAIN Tail(queue)
    <3>1. k \in Nat /\ k + 1 \in 1..Len(queue) /\ k + 1 # 1
      BY <2>1, <1>q
    <3> QED BY <3>1
  <2> QED BY <1>t, <2>1, <2>2
<1>2. CASE DeferAppend
  <2> DEFINE r == queue[1].rec
  <2>1. /\ Head1("append") /\ queue' = Tail(queue) /\ deferred' = Append(deferred, r)
        /\ UNCHANGED <<status, sent>>
    BY <1>2 DEF DeferAppend
  <2>2. /\ 1 \in DOMAIN queue /\ queue[1].op = "append"
        /\ \A k \in DOMAIN queue' : /\ k \in Nat /\ k + 1 \in DOMAIN queue /\ 1 < k + 1
                                    /\ queue'[k] = queue[k + 1]
    BY <2>1, <1>t
  <2>3. r \in SessionRecord /\ Waits(status, r)
    BY <1>0, <1>q, <2>2 DEF QueueWait
  <2>4. /\ \A k \in DOMAIN deferred' : \/ k \in DOMAIN deferred /\ deferred'[k] = deferred[k]
                                       \/ k = Len(deferred) + 1 /\ deferred'[k] = r
        /\ \A k \in DOMAIN deferred : k < Len(deferred) + 1
        /\ DOMAIN deferred' = 1..Len(deferred) + 1
    BY <1>q, <2>1, <2>3, Appended
  <2> HIDE DEF r
  <2>5. SentNew'
    BY <1>0, <2>1 DEF SentNew
  <2>6. \A x : Waits(status, x) => Waits(status', x)
    BY <2>1 DEF Waits
  <2>7. DeferredWait'
    BY <1>0, <2>3, <2>4, <2>6 DEF DeferredWait
  <2>8. QueueWait'
    BY <1>0, <2>2, <2>6 DEF QueueWait
  <2>9. DeferredOrder'
    <3> SUFFICES ASSUME NEW j \in DOMAIN deferred', NEW k \in DOMAIN deferred', j < k,
                        deferred'[j][1] = deferred'[k][1]
                 PROVE  deferred'[j][2] < deferred'[k][2]
      BY DEF DeferredOrder
    <3>1. j \in Int /\ k \in Int /\ k <= Len(deferred) + 1
      BY <2>4, <1>q
    <3>2. j \in DOMAIN deferred /\ deferred'[j] = deferred[j]
      BY <2>4, <3>1, <1>q
    <3>3. CASE k \in DOMAIN deferred /\ deferred'[k] = deferred[k]
      BY <1>0, <3>2, <3>3 DEF DeferredOrder
    <3>4. CASE deferred'[k] = r
      BY <1>0, <2>2, <3>2, <3>4 DEF DeferredFirst, r
    <3> QED BY <2>4, <3>3, <3>4
  <2>10. QueueOrder'
    <3> SUFFICES ASSUME NEW j \in DOMAIN queue', NEW k \in DOMAIN queue', j < k,
                      queue'[j].op = "append", queue'[k].op = "append",
                      queue'[j].rec[1] = queue'[k].rec[1]
                 PROVE  queue'[j].rec[2] < queue'[k].rec[2]
      BY DEF QueueOrder
    <3>1. j + 1 < k + 1
      BY <2>2
    <3> QED BY <1>0, <2>2, <3>1 DEF QueueOrder
  <2>11. DeferredFirst'
    <3> SUFFICES ASSUME NEW j \in DOMAIN deferred', NEW k \in DOMAIN queue',
                        queue'[k].op = "append", deferred'[j][1] = queue'[k].rec[1]
                 PROVE  deferred'[j][2] < queue'[k].rec[2]
      BY DEF DeferredFirst
    <3>1. k + 1 \in DOMAIN queue /\ 1 < k + 1 /\ queue'[k] = queue[k + 1]
      BY <2>2
    <3>2. CASE j \in DOMAIN deferred /\ deferred'[j] = deferred[j]
      BY <1>0, <3>1, <3>2 DEF DeferredFirst
    <3>3. CASE deferred'[j] = r
      BY <1>0, <2>2, <3>1, <3>3 DEF QueueOrder, r
    <3> QED BY <2>4, <3>2, <3>3
  <2> QED BY <2>5, <2>7, <2>8, <2>9, <2>10, <2>11, <1>p
<1>3. CASE RunAppend
  <2> DEFINE r == queue[1].rec
             p == r[1]
             n == r[2]
  <2>1. Head1("append") /\ queue' = Tail(queue) /\ UNCHANGED <<sent, deferred>>
    BY <1>3 DEF RunAppend
  <2>2. /\ 1 \in DOMAIN queue /\ queue[1].op = "append"
        /\ \A k \in DOMAIN queue' : /\ k \in Nat /\ k + 1 \in DOMAIN queue /\ 1 < k + 1
                                    /\ queue'[k] = queue[k + 1]
    BY <2>1, <1>t
  <2>3. r \in SessionRecord /\ p \in Paths /\ n \in DOMAIN status[p] /\ Waits(status, r) /\ p \notin leased
    BY <1>0, <1>3, <1>q, <1>s, <2>2, RunAppendIs DEF QueueWait
  <2>4. status[p][n] = "pending" /\ \A k \in DOMAIN status[p] : status[p][k] = "ok" => k < n
    BY <2>3 DEF Waits
  <2>5. PICK v \in {"ok", "failed"} : status' = [status EXCEPT ![p][n] = v]
    BY <1>0, <1>3, RunAppendIs DEF Acks
  <2> HIDE DEF r, p, n
  <2>6. /\ \A q \in Paths : DOMAIN status'[q] = DOMAIN status[q]
        /\ \A q \in Paths : \A i \in DOMAIN status[q] :
               status'[q][i] = IF q = p /\ i = n THEN v ELSE status[q][i]
    <3>1. TypeOK
      BY <1>0
    <3>2. p \in Paths
      BY <2>3
    <3>3. n \in DOMAIN status[p]
      BY <2>3
    <3>4. Answered(p, n, v)
      BY <2>5 DEF Answered
    <3> QED BY <3>1, <3>2, <3>3, <3>4, StatusMoves
  <2>7. \A x \in SessionRecord : Waits(status, x) /\ (x[1] # p \/ n < x[2]) => Waits(status', x)
    <3> SUFFICES ASSUME NEW x \in SessionRecord, Waits(status, x), x[1] # p \/ n < x[2]
                 PROVE  Waits(status', x)
      OBVIOUS
    <3>1. x[1] \in Paths /\ x[2] \in DOMAIN status[x[1]] /\ status[x[1]][x[2]] = "pending"
          /\ \A k \in DOMAIN status[x[1]] : status[x[1]][k] = "ok" => k < x[2]
      BY <1>s DEF Waits
    <3>2. x[1] # p \/ x[2] # n
      BY <3>1, <2>3, <1>s
    <3> QED BY <3>1, <3>2, <2>6 DEF Waits
  <2>8. SentNew'
    BY <1>0, <2>1, <2>4, <2>6 DEF SentNew
  <2>9. DeferredWait' /\ DeferredOrder'
    <3>1. \A k \in DOMAIN deferred : deferred[k][1] # p
      BY <1>0, <2>3 DEF HandleCurrent
    <3> QED BY <1>0, <1>q, <2>1, <2>7, <3>1 DEF DeferredWait, DeferredOrder
  <2>10. QueueWait'
    <3> SUFFICES ASSUME NEW k \in DOMAIN queue', queue'[k].op = "append"
                 PROVE  Waits(status', queue'[k].rec)
      BY DEF QueueWait
    <3>1. k + 1 \in DOMAIN queue /\ 1 < k + 1 /\ queue'[k] = queue[k + 1]
      BY <2>2
    <3> DEFINE x == queue[k + 1].rec
    <3>2. x \in SessionRecord /\ Waits(status, x) /\ (x[1] = p => n < x[2])
      BY <1>0, <1>q, <2>2, <3>1 DEF QueueWait, QueueOrder, r, p, n
    <3> HIDE DEF x
    <3>3. Waits(status', x)
      BY <2>7, <3>2
    <3>4. queue'[k].rec = x
      BY <3>1 DEF x
    <3> QED BY <3>3, <3>4 DEF Waits
  <2>11. QueueOrder'
    <3> SUFFICES ASSUME NEW j \in DOMAIN queue', NEW k \in DOMAIN queue', j < k,
                      queue'[j].op = "append", queue'[k].op = "append",
                      queue'[j].rec[1] = queue'[k].rec[1]
                 PROVE  queue'[j].rec[2] < queue'[k].rec[2]
      BY DEF QueueOrder
    <3>1. j + 1 < k + 1
      BY <2>2
    <3> QED BY <1>0, <2>2, <3>1 DEF QueueOrder
  <2>12. DeferredFirst'
    BY <1>0, <2>1, <2>2 DEF DeferredFirst
  <2> QED BY <2>8, <2>9, <2>10, <2>11, <2>12, <1>p
<1>4. CASE GrantLease
  <2>1. Head1("lease") /\ queue' = Tail(queue) /\ UNCHANGED <<status, sent, deferred>>
    BY <1>4 DEF GrantLease
  <2>2. \A k \in DOMAIN queue' : /\ k \in Nat /\ k + 1 \in DOMAIN queue
                                 /\ queue'[k] = queue[k + 1]
    BY <2>1, <1>t
  <2> DEFINE f == [k \in DOMAIN queue' |-> k + 1]
  <2>3. \A k \in DOMAIN queue' : f[k] = k + 1
    OBVIOUS
  <2> HIDE DEF f
  <2>4. \A j, k \in DOMAIN queue' : j < k => f[j] < f[k]
    BY <2>2, <2>3
  <2>5. \A k \in DOMAIN queue' : f[k] \in DOMAIN queue /\ queue'[k] = queue[f[k]]
    BY <2>2, <2>3
  <2> QED BY <1>0, <2>1, <2>4, <2>5, OrderSame
<1>5. CASE EndLease
  <2>1. UNCHANGED <<status, sent>>
    BY <1>5 DEF EndLease
  <2> DEFINE H == HeldPlaces
             R == ReadyPlaces
             m == Ready
  <2>2. /\ \A k \in DOMAIN deferred' :
               Nth(H, k) \in H /\ deferred'[k] = deferred[Nth(H, k)]
        /\ \A j, k \in DOMAIN deferred' : j < k => Nth(H, j) < Nth(H, k)
        /\ queue' \in Seq(Command) /\ m \in Nat
        /\ \A k \in DOMAIN queue' :
               \/ /\ k <= m /\ Nth(R, k) \in R
                  /\ queue'[k] = [op |-> "append", rec |-> deferred[Nth(R, k)]]
               \/ /\ k > m /\ k - m + 1 \in DOMAIN queue /\ k - m + 1 # 1
                  /\ queue'[k] = queue[k - m + 1]
        /\ \A j, k \in DOMAIN queue' :
               j < k /\ k <= m => Nth(R, j) < Nth(R, k)
    BY <1>0, <1>5, EndLeaseIs
  <2>3. /\ H \subseteq DOMAIN deferred /\ R \subseteq DOMAIN deferred
        /\ \A i \in H, j \in R : deferred[i][1] # deferred[j][1]
    BY DEF HeldPlaces, ReadyPlaces
  <2>4. \A k \in DOMAIN queue' : k \in Int
    <3>1. DOMAIN queue' = 1..Len(queue')
      BY <2>2
    <3> QED BY <3>1
  <2> HIDE DEF H, R, m
  <2>5. \A x : Waits(status, x) => Waits(status', x)
    BY <2>1 DEF Waits
  <2>6. SentNew'
    BY <1>0, <2>1 DEF SentNew
  <2>7. DeferredWait'
    <3> SUFFICES ASSUME NEW k \in DOMAIN deferred' PROVE Waits(status', deferred'[k])
      BY DEF DeferredWait
    <3> DEFINE i == Nth(H, k)
    <3>1. i \in DOMAIN deferred /\ deferred'[k] = deferred[i]
      BY <2>2, <2>3
    <3> HIDE DEF i
    <3>2. Waits(status, deferred[i])
      BY <1>0, <3>1 DEF DeferredWait
    <3> QED BY <3>1, <3>2, <2>1 DEF Waits
  <2>8. ASSUME NEW k \in DOMAIN queue', queue'[k].op = "append"
        PROVE  \/ /\ k <= m /\ Nth(R, k) \in R /\ Nth(R, k) \in DOMAIN deferred
                  /\ queue'[k].rec = deferred[Nth(R, k)]
               \/ /\ ~(k <= m) /\ k - m + 1 \in DOMAIN queue /\ queue[k - m + 1].op = "append"
                  /\ queue'[k].rec = queue[k - m + 1].rec
    <3>1. CASE /\ k <= m /\ Nth(R, k) \in R
               /\ queue'[k] = [op |-> "append", rec |-> deferred[Nth(R, k)]]
      BY <2>3, <3>1
    <3>2. CASE /\ k > m /\ k - m + 1 \in DOMAIN queue /\ k - m + 1 # 1
               /\ queue'[k] = queue[k - m + 1]
      BY <2>2, <2>4, <2>8, <3>2
    <3> QED BY <2>2, <3>1, <3>2
  <2>9. QueueWait'
    <3> SUFFICES ASSUME NEW k \in DOMAIN queue', queue'[k].op = "append" PROVE Waits(status', queue'[k].rec)
      BY DEF QueueWait
    <3>1. PICK x : x = queue'[k].rec /\ Waits(status, x)
      BY <1>0, <2>8 DEF QueueWait, DeferredWait
    <3>2. Waits(status', x)
      BY <3>1, <2>5
    <3> QED BY <3>1, <3>2 DEF Waits
  <2>10. DeferredOrder'
    <3> SUFFICES ASSUME NEW j \in DOMAIN deferred', NEW k \in DOMAIN deferred', j < k,
                        deferred'[j][1] = deferred'[k][1]
                 PROVE  deferred'[j][2] < deferred'[k][2]
      BY DEF DeferredOrder
    <3> DEFINE i == Nth(H, j)
               l == Nth(H, k)
    <3>1. i \in DOMAIN deferred /\ deferred'[j] = deferred[i] /\ l \in DOMAIN deferred
          /\ deferred'[k] = deferred[l] /\ i < l
      BY <2>2, <2>3
    <3> HIDE DEF i, l
    <3> QED BY <1>0, <3>1 DEF DeferredOrder
  <2>11. QueueOrder'
    <3> SUFFICES ASSUME NEW j \in DOMAIN queue', NEW k \in DOMAIN queue', j < k,
                      queue'[j].op = "append", queue'[k].op = "append",
                      queue'[j].rec[1] = queue'[k].rec[1]
                 PROVE  queue'[j].rec[2] < queue'[k].rec[2]
      BY DEF QueueOrder
    <3>0. j \in Int /\ k \in Int /\ m \in Nat
      BY <2>2, <2>4
    <3>1. CASE k <= m
      <4> DEFINE i == Nth(R, j)
                 l == Nth(R, k)
      <4>1. j <= m
        BY <3>0, <3>1
      <4>2. i \in DOMAIN deferred /\ queue'[j].rec = deferred[i] /\ l \in DOMAIN deferred
            /\ queue'[k].rec = deferred[l] /\ i < l
        BY <2>2, <2>8, <3>1, <4>1
      <4> HIDE DEF i, l
      <4> QED BY <1>0, <4>2 DEF DeferredOrder
    <3>2. CASE j <= m /\ ~(k <= m)
      <4> DEFINE i == Nth(R, j)
                 l == k - m + 1
      <4>2. i \in DOMAIN deferred /\ queue'[j].rec = deferred[i] /\ l \in DOMAIN queue
            /\ queue'[k].rec = queue[l].rec /\ queue[l].op = "append"
        BY <2>8, <3>2
      <4> HIDE DEF i, l
      <4> QED BY <1>0, <4>2 DEF DeferredFirst
    <3>3. CASE ~(j <= m)
      <4> DEFINE i == j - m + 1
                 l == k - m + 1
      <4>1. ~(k <= m)
        BY <3>0, <3>3
      <4>2. i \in DOMAIN queue /\ queue'[j].rec = queue[i].rec /\ queue[i].op = "append"
            /\ l \in DOMAIN queue /\ queue'[k].rec = queue[l].rec /\ queue[l].op = "append"
        BY <2>8, <3>3, <4>1
      <4>3. i < l
        BY <3>0
      <4> HIDE DEF i, l
      <4> QED BY <1>0, <4>2, <4>3 DEF QueueOrder
    <3> QED BY <3>1, <3>2, <3>3
  <2>12. DeferredFirst'
    <3> SUFFICES ASSUME NEW j \in DOMAIN deferred', NEW k \in DOMAIN queue',
                        queue'[k].op = "append", deferred'[j][1] = queue'[k].rec[1]
                 PROVE  deferred'[j][2] < queue'[k].rec[2]
      BY DEF DeferredFirst
    <3> DEFINE i == Nth(H, j)
               l == k - m + 1
    <3>1. i \in H /\ i \in DOMAIN deferred /\ deferred'[j] = deferred[i]
      BY <2>2, <2>3
    <3>2. ~(k <= m)
      BY <2>3, <2>8, <3>1
    <3>3. l \in DOMAIN queue /\ queue'[k].rec = queue[l].rec /\ queue[l].op = "append"
      BY <2>8, <3>2
    <3> HIDE DEF i, l
    <3> QED BY <1>0, <3>1, <3>3 DEF DeferredFirst
  <2> QED BY <2>6, <2>7, <2>9, <2>10, <2>11, <2>12, <1>p
<1>6. ASSUME NEW c \in Command, c.op # "append", queue' = Append(queue, c), UNCHANGED <<status, sent, deferred>>
      PROVE  SendOrder'
  <2>1. /\ DOMAIN queue' = 1..Len(queue) + 1
        /\ \A k \in DOMAIN queue' : \/ k \in DOMAIN queue /\ queue'[k] = queue[k]
                                    \/ k = Len(queue) + 1 /\ queue'[k] = c
    BY <1>q, <1>6, Appended
  <2> DEFINE f == [k \in DOMAIN queue' |-> k]
  <2>2. \A k \in DOMAIN queue' : queue'[k].op = "append" => f[k] \in DOMAIN queue /\ queue'[k] = queue[f[k]]
    BY <2>1, <1>6
  <2>3. \A j, k \in DOMAIN queue' : j < k /\ queue'[j].op = "append" /\ queue'[k].op = "append" => f[j] < f[k]
    OBVIOUS
  <2> HIDE DEF f
  <2> QED BY <1>0, <1>6, <2>2, <2>3, OrderSame
<1>7. ASSUME UNCHANGED <<queue, status, sent, deferred>>
      PROVE  SendOrder'
  BY <1>0, <1>7 DEF SendOrder, Waiting
<1>8. ASSUME NEW o \in Requests, AskCompact(o) \/ AskRollback(o) \/ QueueLease(o)
      PROVE  SendOrder'
  <2>1. UNCHANGED <<status, sent, deferred>>
    BY <1>8 DEF AskCompact, AskRollback, QueueLease, writer
  <2>2. UNCHANGED queue \/ queue' = Append(queue, [op |-> "lease", rec |-> o])
    BY <1>0, <1>8, AskIs
  <2>3. [op |-> "lease", rec |-> o] \in Command /\ [op |-> "lease", rec |-> o].op # "append"
    BY ReleaseCommand
  <2> QED BY <1>6, <1>7, <2>1, <2>2, <2>3
<1>9. ASSUME NEW o \in Requests, WorkSteps(o)
      PROVE  SendOrder'
  <2>1. UNCHANGED <<status, sent, deferred>>
    BY <1>9, WorkQuiet
  <2>2. UNCHANGED queue \/ queue' = Append(queue, [op |-> "release", rec |-> o])
    BY <1>0, <1>9, WorkMoves DEF Carries, Begins, Ends
  <2>3. [op |-> "release", rec |-> o] \in Command /\ [op |-> "release", rec |-> o].op # "append"
    BY ReleaseCommand
  <2> QED BY <1>6, <1>7, <2>1, <2>2, <2>3
<1>10. CASE DryRun \/ \E p \in Paths : Edit(p)
  BY <1>7, <1>10 DEF DryRun, Edit, writer
<1>11. CASE DaemonDies
  <2>1. /\ queue' = <<>> /\ deferred' = <<>> /\ sent' = sent
        /\ status' = [p \in Paths |-> [k \in DOMAIN status[p] |->
                    IF status[p][k] = "pending" THEN "failed" ELSE status[p][k]]]
    BY <1>11 DEF DaemonDies
  <2>2. SentNew'
    BY <1>0, <2>1 DEF SentNew
  <2> QED BY <1>p, <2>1, <2>2 DEF DeferredWait, QueueWait, DeferredOrder, QueueOrder, DeferredFirst
<1> QED BY <1>1, <1>2, <1>3, <1>4, <1>5, <1>8, <1>9, <1>10, <1>11, NextCases

(***************************************************************************)
(* What a step does to a request, to a file, and to the acknowledgements.  *)
(***************************************************************************)
LEMMA WhoMoves ==
  ASSUME TypeOK, Next
  PROVE  \/ UNCHANGED own
         \/ \E o \in Requests : WorkSteps(o) /\ Rest(o)
         \/ \E o \in Requests : /\ Rest(o) /\ ~ \E q \in Requests : WorkSteps(q)
                                /\ own'[o].pc \in {"asked", "waiting", "leased", "done"}
         \/ DaemonDies /\ \A o \in Requests : own'[o] = Idle
<1>1. ASSUME NEW o \in Requests, WorkSteps(o) PROVE Rest(o)
  BY <1>1, WorkMoves
<1>2. CASE \E o \in Requests : WorkSteps(o)
  BY <1>1, <1>2
<1>3. CASE ~ \E o \in Requests : WorkSteps(o)
  <2>1. ASSUME NEW o \in Requests, AskCompact(o) \/ AskRollback(o) \/ QueueLease(o)
        PROVE  Rest(o) /\ own'[o].pc \in {"asked", "waiting"}
    BY <2>1, AskIs
  <2>2. CASE GrantLease
    <3> DEFINE o == queue[1].rec
    <3>1. o \in Requests /\ Rest(o) /\ own'[o].pc \in {"leased", "done"}
      BY <2>2, GrantIs
    <3> HIDE DEF o
    <3> QED BY <1>3, <3>1
  <2>3. CASE EndLease
    <3> DEFINE o == queue[1].rec
    <3>1. o \in Requests /\ Rest(o) /\ own'[o].pc = "done"
      BY <2>3, ReleaseIs
    <3> HIDE DEF o
    <3> QED BY <1>3, <3>1
  <2>4. CASE DeferAppend \/ RunAppend \/ DryRun \/ \E p \in Paths : Send(p) \/ Edit(p)
    BY <2>4, OthersIs
  <2>5. CASE DaemonDies
    BY <2>5, DeathIs
  <2> QED BY <1>3, <2>1, <2>2, <2>3, <2>4, <2>5, NextCases
<1> QED BY <1>2, <1>3

Taken(o, T, p, b) ==
    own' = [own EXCEPT ![o].pc = "archive", ![o].todo = T, ![o].path = p, ![o].bytes = b]

LEMMA TakenIs ==
  ASSUME TypeOK, NEW o \in Requests, NEW T \in SUBSET Paths, NEW p \in Paths, NEW b \in Seq(Record),
         Taken(o, T, p, b)
  PROVE  /\ own' \in [Requests -> Request] /\ own'[o].pc = "archive" /\ own'[o].todo = T /\ Rest(o)
         /\ own'[o].plan = own[o].plan /\ own'[o].fence = own[o].fence
         /\ own'[o].path = p /\ own'[o].bytes = b
<1>1. "archive" \in Pcs
  BY PcsAre
<1>2. own \in [Requests -> Request] /\ own[o] \in Request
  BY OwnIs
<1> DEFINE x == [own[o] EXCEPT !.pc = "archive", !.todo = T, !.path = p, !.bytes = b]
<1>3. /\ x \in Request /\ x.pc = "archive" /\ x.plan = own[o].plan /\ x.fence = own[o].fence
      /\ x.todo = T /\ x.path = p /\ x.bytes = b
  BY <1>1, <1>2 DEF Request, Pcs
<1>4. own' = [own EXCEPT ![o] = x]
  BY <1>2 DEF Taken
<1> HIDE DEF x
<1>5. x \in Request
  BY <1>3
<1>6. own' \in [Requests -> Request] /\ own'[o] = x /\ Rest(o)
  BY <1>4, <1>5, SetMoves
<1> QED BY <1>3, <1>6

Takes(o, p) ==
    /\ own[o].pc = "next" /\ own'[o].pc = "archive" /\ own'[o].plan = own[o].plan
    /\ p \in own[o].todo /\ p \in Paths /\ own'[o].path = p /\ own'[o].todo = own[o].todo \ {p}
    /\ own'[o].bytes = Bytes(p) /\ Fingerprint(p) = own[o].plan[p] /\ Eligible(p)
    /\ NextFile(o)
Continues(o) ==
    /\ SameWork(o)
    /\ \/ own[o].pc = "archive" /\ own'[o].pc = "archived" /\ Archive(o)
       \/ own[o].pc = "archived" /\ own'[o].pc = "stage" /\ JournalArchived(o)
       \/ /\ own[o].pc = "stage" /\ own'[o].pc = "staged" /\ Stage(o)
          /\ staging' = [staging EXCEPT ![own[o].path] = File(Replacement(o))]
       \/ own[o].pc = "staged" /\ own'[o].pc = "verify" /\ JournalStaged(o)
       \/ own[o].pc = "verify" /\ own'[o].pc = "rename" /\ Verify(o) /\ UNCHANGED staging
       \/ own[o].pc = "rename" /\ own'[o].pc = "renamed" /\ Rename(o)

\* A step that leaves a file in the hands of a compaction takes the file in hand, or is
\* one of the steps that follow.
LEMMA WorkHand ==
  ASSUME TypeOK, NEW o \in Requests, WorkSteps(o), own'[o].pc \in Reading
  PROVE  (\E p \in own[o].todo : Takes(o, p)) \/ Continues(o)
<1>0. /\ \A pc \in Reading : pc \in Pcs /\ pc # "releasing"
      /\ {"refused", "next", "restore", "swap"} \cap Reading = {}
      /\ {"refused", "next", "restore", "swap"} \subseteq Working
  BY DEF Pcs, Holding, Working, Reading
<1>1. ~Over(o) /\ (Over(o) => own'[o].pc = "releasing")
  <2>1. ASSUME Over(o) PROVE FALSE
    <3>1. own' = [own EXCEPT ![o].pc = "releasing"] /\ "releasing" \in Pcs
      BY <2>1 DEF Over, Pcs, Holding
    <3>2. own'[o].pc = "releasing"
      BY <3>1, GoMoves
    <3> QED BY <3>2, <1>0
  <2> QED BY <2>1
<1>2. ASSUME NEW pc \in Pcs, Go(o, pc) PROVE own'[o].pc = pc /\ SameWork(o)
  BY <1>2, GoMoves DEF Go
<1>3. CASE NextFile(o)
  <2>1. own[o].pc = "next" /\ own[o].todo \subseteq Paths /\ own[o].plan \in Plans
    BY <1>3, OwnIs DEF NextFile, At
  <2>2. PICK p \in own[o].todo :
           IF Fingerprint(p) = own[o].plan[p] /\ Eligible(p)
           THEN own' = [own EXCEPT ![o].pc = "archive", ![o].todo = @ \ {p},
                                   ![o].path = p, ![o].bytes = Bytes(p)]
           ELSE own' = [own EXCEPT ![o].pc = "refused", ![o].todo = @ \ {p}, ![o].path = p]
    BY <1>1, <1>3 DEF NextFile, Id
  <2>3. p \in Paths /\ own[o].todo \ {p} \in SUBSET Paths /\ Bytes(p) \in Seq(Record)
        /\ "archive" \in Pcs /\ "refused" \in Pcs
    BY <2>1, FileIs, PcsAre
  <2>4. CASE own' = [own EXCEPT ![o].pc = "refused", ![o].todo = @ \ {p}, ![o].path = p]
    <3>1. own' = [own EXCEPT ![o].pc = "refused", ![o].todo = own[o].todo \ {p}, ![o].path = p]
      BY <2>4, OwnIs
    <3>2. /\ own' \in [Requests -> Request] /\ own'[o].pc = "refused"
      BY <3>1, <2>3, RefuseMoves
    <3> QED BY <3>2, <1>0
  <2>5. CASE /\ Fingerprint(p) = own[o].plan[p] /\ Eligible(p)
             /\ own' = [own EXCEPT ![o].pc = "archive", ![o].todo = @ \ {p},
                                   ![o].path = p, ![o].bytes = Bytes(p)]
    <3>1. own' = [own EXCEPT ![o].pc = "archive", ![o].todo = own[o].todo \ {p},
                                   ![o].path = p, ![o].bytes = Bytes(p)]
      BY <2>5, OwnIs
    <3> DEFINE b == Bytes(p)
               T == own[o].todo \ {p}
    <3>2. Taken(o, T, p, b)
      BY <3>1 DEF Taken
    <3>5. T \in SUBSET Paths
      BY <2>3
    <3>6. b \in Seq(Record)
      BY <2>3
    <3>8. p \in Paths
      BY <2>3
    <3> HIDE DEF b, T
    <3>3. /\ own' \in [Requests -> Request] /\ own'[o].pc = "archive" /\ own'[o].todo = T /\ Rest(o)
         /\ own'[o].plan = own[o].plan /\ own'[o].fence = own[o].fence
         /\ own'[o].path = p /\ own'[o].bytes = b
      BY <3>2, <3>5, <3>6, <3>8, TakenIs
    <3>4. Takes(o, p)
      BY <3>3, <2>1, <2>3, <2>5, <1>3 DEF Takes, b, T
    <3> QED BY <3>4
  <2> QED BY <2>2, <2>4, <2>5
<1>4. CASE Archive(o)
  <2>1. own[o].pc = "archive" /\ (Go(o, "archived") \/ Go(o, "refused"))
    BY <1>4 DEF Archive, At
  <2>2. "archived" \in Pcs /\ "refused" \in Pcs
    BY DEF Pcs, Holding, Working, Reading
  <2> QED BY <1>0, <1>2, <1>4, <2>1, <2>2 DEF Continues
<1>5. CASE Stage(o)
  <2>1. /\ own[o].pc = "stage"
        /\ \/ staging' = [staging EXCEPT ![own[o].path] = File(Replacement(o))] /\ Go(o, "staged")
           \/ Go(o, "refused")
    BY <1>5 DEF Stage, At, Cur
  <2>2. "staged" \in Pcs /\ "refused" \in Pcs
    BY DEF Pcs, Holding, Working, Reading
  <2> QED BY <1>0, <1>2, <1>5, <2>1, <2>2 DEF Continues
<1>6. CASE Verify(o)
  <2>1. own[o].pc = "verify" /\ ((Go(o, "rename") /\ UNCHANGED staging) \/ Go(o, "refused"))
    BY <1>6 DEF Verify, At
  <2>2. "rename" \in Pcs /\ "refused" \in Pcs
    BY DEF Pcs, Holding, Working, Reading
  <2> QED BY <1>0, <1>2, <1>6, <2>1, <2>2 DEF Continues
<1>7. CASE Rename(o)
  <2>1. own[o].pc = "rename" /\ (Go(o, "renamed") \/ Go(o, "refused"))
    BY <1>7 DEF Rename, At
  <2>2. "renamed" \in Pcs /\ "refused" \in Pcs
    BY DEF Pcs, Holding, Working, Reading
  <2> QED BY <1>0, <1>2, <1>7, <2>1, <2>2 DEF Continues
<1>8. ASSUME NEW from, NEW j, NEW to \in Pcs, WriteJournal(o, from, j, to)
      PROVE  own[o].pc = from /\ own'[o].pc = to /\ SameWork(o)
  BY <1>1, <1>2, <1>8 DEF WriteJournal, At
<1>9. CASE JournalArchived(o)
  <2>1. "stage" \in Pcs
    BY DEF Pcs, Holding, Working, Reading
  <2>2. own[o].pc = "archived" /\ own'[o].pc = "stage" /\ SameWork(o)
    BY <1>8, <1>9, <2>1 DEF JournalArchived
  <2> QED BY <1>9, <2>2 DEF Continues
<1>10. CASE JournalStaged(o)
  <2>1. "verify" \in Pcs
    BY DEF Pcs, Holding, Working, Reading
  <2>2. own[o].pc = "staged" /\ own'[o].pc = "verify" /\ SameWork(o)
    BY <1>8, <1>10, <2>1 DEF JournalStaged
  <2> QED BY <1>10, <2>2 DEF Continues
<1>11. CASE JournalRefused(o) \/ JournalCommitted(o)
  <2>1. "next" \in Pcs
    BY DEF Pcs, Holding, Working, Reading
  <2>2. own'[o].pc = "next"
    BY <1>8, <1>11, <2>1 DEF JournalRefused, JournalCommitted
  <2> QED BY <1>0, <2>2
<1>12. CASE Apply(o) \/ BeginRollback(o)
  <2>1. own[o].pc = "leased" /\ (Carries(o) \/ Begins(o) \/ Ends(o))
    BY <1>12, WorkMoves DEF Apply, BeginRollback, At
  <2>2. own'[o].pc \in {"next", "restore", "releasing"}
    BY <2>1, PcsAre DEF Carries, Begins, Ends
  <2> QED BY <1>0, <2>2
<1>13. CASE Restore(o)
  <2>1. own'[o].pc \in {"restore", "swap"}
    BY <1>1, <1>13, RestoreIs
  <2> QED BY <1>0, <2>1
<1>14. CASE Swap(o)
  <2>1. Go(o, "restore") /\ "restore" \in Pcs
    BY <1>14, PcsAre DEF Swap
  <2> QED BY <1>0, <1>2, <2>1
<1> QED BY <1>3, <1>4, <1>5, <1>6, <1>7, <1>9, <1>10, <1>11, <1>12, <1>13, <1>14 DEF WorkSteps

LEMMA HandsMove ==
  ASSUME TypeOK, Next, NEW o \in Requests, own'[o].pc \in Reading
  PROVE  own'[o] = own[o] \/ (\E p \in own[o].todo : Takes(o, p)) \/ Continues(o)
<1>0. Idle.pc \notin Reading /\ {"asked", "waiting", "leased", "done"} \cap Reading = {}
  BY IdleIs DEF Reading
<1>1. CASE UNCHANGED own
  BY <1>1
<1>2. ASSUME NEW q \in Requests, WorkSteps(q), Rest(q)
      PROVE  own'[o] = own[o] \/ (\E p \in own[o].todo : Takes(o, p)) \/ Continues(o)
  <2>1. CASE q = o
    BY <1>2, <2>1, WorkHand
  <2>2. CASE q # o
    BY <1>2, <2>2 DEF Rest
  <2> QED BY <2>1, <2>2
<1>3. ASSUME NEW q \in Requests, Rest(q), own'[q].pc \in {"asked", "waiting", "leased", "done"}
      PROVE  own'[o] = own[o]
  BY <1>0, <1>3 DEF Rest
<1> QED BY <1>0, <1>1, <1>2, <1>3, WhoMoves

(***************************************************************************)
(* What a step does to the file of a path: nothing, one record more, or    *)
(* what was staged takes its place.                                        *)
(***************************************************************************)
Added(p) == \E r \in Record : (Acks(p, r) \/ Edits(p, r)) /\ Bytes(p)' = Append(Bytes(p), r)
Rewritten(p) == \E o \in Requests :
    /\ Rename(o) /\ own[o].pc = "rename" /\ own[o].path = p /\ live'[p] = used + 1
    /\ Bytes(p)' = Replacement(o)
Restored(p) == \E o \in Requests :
    /\ Swap(o) /\ own[o].pc = "swap" /\ own[o].path = p /\ live'[p] = used + 1
    /\ <<own[o].plan, p>> \in DOMAIN archive /\ Bytes(p)' = archive[<<own[o].plan, p>>]

LEMMA BytesMove ==
  ASSUME Core, Next, NEW p \in Paths
  PROVE  \/ Bytes(p)' = Bytes(p) /\ live'[p] = live[p]
         \/ Added(p) /\ live'[p] = live[p]
         \/ Rewritten(p) \/ Restored(p)
<1>0. /\ TypeOK /\ HandleCurrent /\ WorkFenced
      /\ used \in 0..MaxInode /\ inode \in [1..MaxInode -> Seq(Record)] /\ MaxInode \in Nat
      /\ live \in [Paths -> 1..used] /\ \A n \in 1..used : n \in 1..MaxInode
      /\ \A q \in Paths : q # p => live[q] # live[p]
  <2>1. TypeOK /\ HandleCurrent /\ WorkFenced
    BY DEF Core
  <2>2. /\ used \in 0..MaxInode /\ inode \in [1..MaxInode -> Seq(Record)] /\ MaxInode \in Nat
        /\ live \in [Paths -> 1..used]
    BY <2>1, CompactionBounds DEF TypeOK
  <2>3. \A n \in 1..used : n \in 1..MaxInode
    BY <2>2
  <2>4. \A q \in Paths : q # p => live[q] # live[p]
    BY <2>1 DEF HandleCurrent
  <2> QED BY <2>1, <2>2, <2>3, <2>4
<1>1. CASE UNCHANGED sessions
  BY <1>1 DEF sessions, Bytes
<1>2. ASSUME NEW q \in Paths, NEW r \in Record, Grows(q, r), Acks(q, r) \/ Edits(q, r)
      PROVE  \/ Bytes(p)' = Bytes(p) /\ live'[p] = live[p]
             \/ Added(p) /\ live'[p] = live[p]
  <2>1. inode' = [inode EXCEPT ![live[q]] = Append(inode[live[q]], r)] /\ live' = live
    BY <1>2 DEF Grows
  <2>2. live[p] \in 1..MaxInode /\ live[q] \in 1..MaxInode
    BY <1>0
  <2>3. CASE q = p
    <3>1. inode'[live[p]] = Append(inode[live[p]], r)
      BY <1>0, <2>1, <2>2, <2>3
    <3>2. Bytes(p)' = Append(Bytes(p), r)
      BY <2>1, <3>1 DEF Bytes
    <3> QED BY <1>2, <2>1, <2>3, <3>2 DEF Added
  <2>4. CASE q # p
    <3>1. inode'[live[p]] = inode[live[p]]
      BY <1>0, <2>1, <2>2, <2>4
    <3> QED BY <2>1, <3>1 DEF Bytes
  <2> QED BY <2>3, <2>4
<1>3. ASSUME NEW o \in Requests, Replaces(o)
      PROVE  \/ Bytes(p)' = Bytes(p) /\ live'[p] = live[p]
             \/ Rewritten(p) \/ Restored(p)
  <2> DEFINE q == own[o].path
             b == staging[q].bytes
  <2>1. /\ q \in Paths /\ used < MaxInode /\ used' = used + 1
        /\ inode' = [inode EXCEPT ![used + 1] = b]
        /\ live' = [live EXCEPT ![q] = used + 1]
        /\ Rename(o) \/ Swap(o)
    BY <1>3 DEF Replaces, Renamed
  <2>2. used + 1 \in 1..MaxInode /\ used + 1 \notin 1..used /\ live[p] \in 1..used
    BY <2>1, <1>0
  <2> HIDE DEF q, b
  <2>3. CASE q # p
    <3>1. live'[p] = live[p]
      BY <1>0, <2>1, <2>3
    <3>2. inode'[live[p]] = inode[live[p]]
      BY <1>0, <2>1, <2>2
    <3> QED BY <3>1, <3>2 DEF Bytes
  <2>4. CASE q = p
    <3>1. live'[p] = used + 1
      BY <1>0, <2>1, <2>4
    <3>2. inode'[used + 1] = b
      BY <1>0, <2>1, <2>2
    <3>3. Bytes(p)' = b
      BY <3>1, <3>2 DEF Bytes
    <3>4. own[o].path = p /\ b = staging[p].bytes
      BY <2>4 DEF q, b
    <3>5. CASE Rename(o)
      <4>1. own[o].pc = "rename"
        BY <3>5 DEF Rename, At
      <4>2. own[o].pc \in Reading /\ own[o].pc \in {"staged", "verify", "rename"}
        BY <4>1 DEF Reading
      <4>3. staging[own[o].path].bytes = Replacement(o)
        BY <4>2 DEF Core, JournalTrue
      <4> QED BY <3>1, <3>3, <3>4, <3>5, <4>1, <4>3 DEF Rewritten
    <3>6. CASE Swap(o)
      <4>1. own[o].pc = "swap"
        BY <3>6 DEF Swap, At
      <4>2. /\ <<own[o].plan, own[o].path>> \in DOMAIN archive
            /\ staging[own[o].path].bytes = archive[<<own[o].plan, own[o].path>>]
        BY <4>1 DEF Core, JournalTrue
      <4> QED BY <3>1, <3>3, <3>4, <3>6, <4>1, <4>2 DEF Restored
    <3> QED BY <2>1, <3>5, <3>6
  <2> QED BY <2>3, <2>4
<1> QED BY <1>0, <1>1, <1>2, <1>3, FileMoves

\* An acknowledgement is never taken back, and none is given but by an append.
LEMMA AcksMove ==
  ASSUME Core, Next, NEW p \in Paths, NEW k \in DOMAIN status'[p]
  PROVE  /\ k \in DOMAIN status[p]
         /\ status[p][k] = "ok" => status'[p][k] = "ok"
         /\ status'[p][k] = "ok" => status[p][k] = "ok" \/ Acks(p, <<p, k>>)
<1>0. TypeOK /\ HandleCurrent /\ SentNew /\ QueueWait
  BY OrderParts DEF Core
<1>k. k \in DOMAIN status[p]
  <2>1. TypeOK'
    BY TypeStep
  <2>2. status'[p] \in [1..Len(Class[p]) -> {"new", "pending", "ok", "failed"}]
    BY <2>1 DEF TypeOK
  <2> QED BY <2>2, <1>0, StatusIs
<1>a. ASSUME UNCHANGED status
      PROVE  /\ status[p][k] = "ok" => status'[p][k] = "ok"
             /\ status'[p][k] = "ok" => status[p][k] = "ok"
  BY <1>a
<1>1. ASSUME NEW q \in Paths, Send(q)
      PROVE  /\ status[p][k] = "ok" => status'[p][k] = "ok"
             /\ status'[p][k] = "ok" => status[p][k] = "ok"
  <2> DEFINE n == sent[q] + 1
  <2>1. status' = [status EXCEPT ![q][n] = "pending"] /\ sent[q] < Len(Class[q])
    BY <1>1 DEF Send
  <2>2. n \in DOMAIN status[q] /\ n > sent[q]
    BY <1>0, <2>1, StatusIs
  <2>3. status[q][n] = "new"
    BY <1>0, <2>2 DEF SentNew
  <2> HIDE DEF n
  <2>4. TypeOK
    BY <1>0
  <2>5. Answered(q, n, "pending")
    BY <2>1 DEF Answered
  <2>6. n \in DOMAIN status[q]
    BY <2>2
  <2>7. /\ \A x \in Paths : DOMAIN status'[x] = DOMAIN status[x]
        /\ \A x \in Paths : \A i \in DOMAIN status[x] :
               status'[x][i] = IF x = q /\ i = n THEN "pending" ELSE status[x][i]
    BY <2>4, <2>5, <2>6, StatusMoves
  <2> QED BY <1>k, <2>3, <2>7
<1>2. CASE RunAppend
  <2> DEFINE r == queue[1].rec
             q == r[1]
             n == r[2]
  <2>1. /\ queue[1].op = "append" /\ r \in SessionRecord /\ q \in Paths
        /\ \/ Acks(q, r)
           \/ status' = [status EXCEPT ![q][n] = "failed"]
    BY <1>0, <1>2, RunAppendIs
  <2>2. r = <<q, n>> /\ n \in DOMAIN status[q]
    BY <1>0, <2>1, RecordIs, StatusIs
  <2>3. status[q][n] = "pending"
    <3>1. Head1("append")
      BY <1>2 DEF RunAppend
    <3>2. 1 \in DOMAIN queue
      BY <1>0, <3>1, HeadIs
    <3> QED BY <1>0, <2>1, <3>2 DEF QueueWait, Waits
  <2>4. PICK v \in {"ok", "failed"} : Answered(q, n, v) /\ (v = "ok" => Acks(q, r))
    BY <2>1 DEF Acks, Answered
  <2> HIDE DEF r, q, n
  <2>5. TypeOK
    BY <1>0
  <2>6. n \in DOMAIN status[q]
    BY <2>2
  <2>7. q \in Paths
    BY <2>1
  <2>8. Answered(q, n, v)
    BY <2>4
  <2>9. /\ \A x \in Paths : DOMAIN status'[x] = DOMAIN status[x]
        /\ \A x \in Paths : \A i \in DOMAIN status[x] :
               status'[x][i] = IF x = q /\ i = n THEN v ELSE status[x][i]
    BY <2>5, <2>6, <2>7, <2>8, StatusMoves
  <2>10. CASE p = q /\ k = n
    <3>1. status'[p][k] = v /\ status[p][k] = "pending" /\ r = <<p, k>>
      BY <1>k, <2>9, <2>10, <2>3, <2>2
    <3> QED BY <1>k, <2>4, <2>10, <3>1
  <2>11. CASE ~(p = q /\ k = n)
    BY <1>k, <2>9, <2>11
  <2> QED BY <2>10, <2>11
<1>3. CASE DaemonDies
  <2>1. status' = [x \in Paths |-> [i \in DOMAIN status[x] |->
                    IF status[x][i] = "pending" THEN "failed" ELSE status[x][i]]]
    BY <1>3 DEF DaemonDies
  <2>2. status'[p][k] = IF status[p][k] = "pending" THEN "failed" ELSE status[p][k]
    BY <2>1, <1>k
  <2> QED BY <1>k, <2>2
<1>4. CASE DeferAppend \/ GrantLease \/ EndLease \/ DryRun
  BY <1>a, <1>4, <1>k DEF DeferAppend, GrantLease, EndLease, DryRun, writer
<1>5. ASSUME NEW q \in Paths, Edit(q) PROVE UNCHANGED status
  BY <1>5 DEF Edit, writer
<1>6. ASSUME NEW o \in Requests, AskCompact(o) \/ AskRollback(o) \/ QueueLease(o) PROVE UNCHANGED status
  BY <1>6 DEF AskCompact, AskRollback, QueueLease, writer
<1>7. ASSUME NEW o \in Requests, WorkSteps(o) PROVE UNCHANGED status
  BY <1>7, WorkQuiet
<1> QED BY <1>a, <1>k, <1>1, <1>2, <1>3, <1>4, <1>5, <1>6, <1>7, NextCases

\* An archive is written once: to write it again writes the same.
LEMMA ArchiveMoves ==
  ASSUME Core, Next
  PROVE  /\ DOMAIN archive \subseteq DOMAIN archive'
         /\ \A x \in DOMAIN archive : archive'[x] = archive[x]
         /\ \A x \in DOMAIN archive' \ DOMAIN archive : \E o \in Requests :
               /\ own[o].pc = "archive" /\ own'[o].pc = "archived" /\ SameWork(o) /\ Archive(o)
               /\ x = <<own[o].plan, own[o].path>> /\ archive'[x] = own[o].bytes
<1>1. CASE archive' = archive
  BY <1>1
<1>2. CASE archive' # archive
  <2>1. PICK o \in Requests : Archive(o)
    BY <1>2, ArchiveKept
  <2> DEFINE y == <<own[o].plan, own[o].path>>
  <2>2. /\ own[o].pc = "archive" /\ own'[o].pc = "archived" /\ SameWork(o)
        /\ DOMAIN archive' = DOMAIN archive \cup {y}
        /\ \A x \in DOMAIN archive' :
               archive'[x] = IF x = y THEN own[o].bytes ELSE archive[x]
    BY <1>2, <2>1, Archiving
  <2>3. ASSUME y \in DOMAIN archive PROVE archive[y] = own[o].bytes
    <3>1. archive[y] = Planned(y[1], y[2])
      BY <2>3 DEF Core, JournalTrue
    <3>2. own[o].bytes = Planned(own[o].plan, own[o].path)
      BY <2>2 DEF Core, JournalTrue, Reading
    <3> QED BY <3>1, <3>2
  <2> HIDE DEF y
  <2>4. \A x \in DOMAIN archive : archive'[x] = archive[x]
    BY <2>2, <2>3
  <2>5. \A x \in DOMAIN archive' \ DOMAIN archive : x = y /\ archive'[x] = own[o].bytes
    BY <2>2
  <2> QED BY <2>1, <2>2, <2>4, <2>5 DEF y
<1> QED BY <1>1, <1>2

LEMMA CopiesAre ==
  ASSUME NEW p
  PROVE  /\ Bytes(p) \in Copies(p)
         /\ \A x \in DOMAIN archive : x[2] = p => archive[x] \in Copies(p)
         /\ \A o \in Requests : own[o].pc \in Reading /\ own[o].path = p => own[o].bytes \in Copies(p)
BY DEF Copies

\* A copy of a file is one there was before, or the file itself after an append or after a
\* compaction of a copy there was before.
LEMMA CopiesMove ==
  ASSUME Core, Next, NEW p \in Paths, NEW s \in Copies(p)'
  PROVE  \/ s \in Copies(p)
         \/ (Added(p) \/ Rewritten(p)) /\ s = Bytes(p)'
<1>0. TypeOK
  BY DEF Core
<1>1. CASE s = Bytes(p)'
  <2>1. Restored(p) => s \in Copies(p)
    BY <1>1, CopiesAre DEF Restored
  <2> QED BY <1>1, <2>1, BytesMove, CopiesAre
<1>2. ASSUME NEW x \in DOMAIN archive', x[2] = p, s = archive'[x]
      PROVE  s \in Copies(p)
  <2>1. CASE x \in DOMAIN archive
    BY <1>2, <2>1, ArchiveMoves, CopiesAre
  <2>2. CASE x \notin DOMAIN archive
    <3>1. PICK o \in Requests : own[o].pc = "archive" /\ x = <<own[o].plan, own[o].path>>
                                /\ archive'[x] = own[o].bytes
      BY <2>2, ArchiveMoves
    <3> QED BY <1>2, <3>1, CopiesAre DEF Reading
  <2> QED BY <2>1, <2>2
<1>3. ASSUME NEW o \in Requests, own'[o].pc \in Reading, own'[o].path = p, s = own'[o].bytes
      PROVE  s \in Copies(p)
  <2>1. CASE own'[o] = own[o]
    BY <1>3, <2>1, CopiesAre
  <2>2. CASE \E q \in own[o].todo : Takes(o, q)
    BY <1>3, <2>2, CopiesAre DEF Takes
  <2>3. CASE Continues(o)
    <3>1. own[o].pc \in Reading /\ own[o].path = p /\ own[o].bytes = s
      BY <1>3, <2>3 DEF Continues, SameWork, Reading
    <3> QED BY <3>1, CopiesAre
  <2> QED BY <1>0, <1>3, <2>1, <2>2, <2>3, HandsMove
<1>4. \/ s = Bytes(p)'
      \/ \E x \in DOMAIN archive' : x[2] = p /\ s = archive'[x]
      \/ \E o \in Requests : own'[o].pc \in Reading /\ own'[o].path = p /\ s = own'[o].bytes
  BY DEF Copies
<1> QED BY <1>1, <1>2, <1>3, <1>4

(***************************************************************************)
(* Every copy of a file is in order, and holds what was acknowledged.      *)
(***************************************************************************)
\* What the invariant says of a copy.
Sound(acks, p, s) ==
    /\ Ordered(s)
    /\ \A r \in Range(s) : r[1] \in Paths => r[1] = p /\ acks[p][r[2]] = "ok"

LEMMA CopiesParts == CopiesInOrder <=> \A p \in Paths : \A s \in Copies(p) : Sound(status, p, s)
BY DEF CopiesInOrder, Sound

LEMMA CopiesTyped ==
  ASSUME TypeOK, NEW p \in Paths, NEW s \in Copies(p)
  PROVE  s \in Seq(Record)
<1>1. Bytes(p) \in Seq(Record)
  BY FileIs
<1>2. \A x \in DOMAIN archive : archive[x] \in Seq(Record)
  BY DEF TypeOK
<1>3. \A o \in Requests : own[o].bytes \in Seq(Record)
  BY OwnIs
<1>4. \/ s = Bytes(p)
      \/ \E x \in DOMAIN archive : s = archive[x]
      \/ \E o \in Requests : s = own[o].bytes
  BY DEF Copies
<1> QED BY <1>1, <1>2, <1>3, <1>4

\* A record more, written after every other: the order is kept.
LEMMA AppendSound ==
  ASSUME NEW p \in Paths, NEW s \in Seq(Record), NEW r \in Record, NEW acks, Sound(acks, p, s),
         \/ r[1] \notin Paths
         \/ /\ r[1] = p /\ acks[p][r[2]] = "ok"
            /\ \A x \in Range(s) : x[1] \in Paths => x[2] < r[2]
  PROVE  Sound(acks, p, Append(s, r))
<1> DEFINE t == Append(s, r)
<1>1. /\ Len(s) \in Nat /\ DOMAIN t = 1..Len(s) + 1 /\ DOMAIN s = 1..Len(s)
      /\ \A k \in DOMAIN t : \/ k \in DOMAIN s /\ t[k] = s[k]
                             \/ k = Len(s) + 1 /\ t[k] = r
      /\ \A k \in DOMAIN s : k < Len(s) + 1
  BY Appended
<1>2. \A k \in DOMAIN s : s[k] \in Range(s)
  BY DEF Range
<1> HIDE DEF t
<1>3. \A x \in Range(t) : x \in Range(s) \/ x = r
  BY <1>1, <1>2 DEF Range
<1>4. Ordered(t)
  <2> SUFFICES ASSUME NEW i \in DOMAIN t, NEW j \in DOMAIN t, i < j, t[i][1] \in Paths, t[j][1] \in Paths
               PROVE  t[i][2] < t[j][2]
    BY DEF Ordered
  <2>1. i \in DOMAIN s /\ t[i] = s[i]
    BY <1>1
  <2>2. CASE j \in DOMAIN s /\ t[j] = s[j]
    BY <2>1, <2>2 DEF Sound, Ordered
  <2>3. CASE t[j] = r
    BY <1>2, <2>1, <2>3
  <2> QED BY <1>1, <2>2, <2>3
<1>5. Sound(acks, p, t)
  BY <1>3, <1>4 DEF Sound
<1> QED BY <1>5 DEF t

LEMMA CompactedSound ==
  ASSUME NEW p \in Paths, NEW s \in Seq(Record), Panes(s) # {}, NEW id \in Plans, NEW acks, Sound(acks, p, s)
  PROVE  Sound(acks, p, Compacted(s, id))
<1>1. Ordered(Compacted(s, id))
  BY CompactedInOrder DEF Sound
<1>2. \A r \in Range(Compacted(s, id)) : r \in Range(s) \/ r = <<"summary", id>>
  BY CompactedKeeps
<1> QED BY <1>1, <1>2, SummaryIs DEF Sound

LEMMA SoundStays ==
  ASSUME Core, Next, NEW p \in Paths, NEW s \in Seq(Record), Sound(status, p, s)
  PROVE  Sound(status', p, s)
<1>1. ASSUME NEW r \in Range(s), r[1] \in Paths PROVE r[1] = p /\ status'[p][r[2]] = "ok"
  <2>1. r[1] = p /\ status[p][r[2]] = "ok" /\ r \in Record
    BY <1>1 DEF Sound, Range
  <2>2. r[2] \in 1..Len(Class[p])
    BY <2>1, OfSession
  <2>3. TypeOK'
    BY TypeStep
  <2>4. status'[p] \in [1..Len(Class[p]) -> {"new", "pending", "ok", "failed"}]
    BY <2>3 DEF TypeOK
  <2>5. r[2] \in DOMAIN status'[p]
    BY <2>2, <2>4
  <2> QED BY <2>1, <2>5, AcksMove
<1> QED BY <1>1 DEF Sound

\* The record an append acknowledges comes after every record of every copy.
LEMMA AckLast ==
  ASSUME Core, Next, NEW p \in Paths, NEW r, Acks(p, r), NEW s \in Seq(Record), Sound(status, p, s)
  PROVE  /\ r \in SessionRecord /\ r[1] = p /\ status'[p][r[2]] = "ok"
         /\ \A x \in Range(s) : x[1] \in Paths => x[2] < r[2]
<1>1. r = queue[1].rec /\ r \in SessionRecord /\ r[1] = p /\ RunAppend
      /\ status' = [status EXCEPT ![p][r[2]] = "ok"]
  BY DEF Acks
<1>2. TypeOK /\ QueueWait
  BY OrderParts DEF Core
<1>3. Head1("append")
  BY <1>1 DEF RunAppend
<1>4. 1 \in DOMAIN queue /\ queue[1].op = "append"
  BY <1>2, <1>3, HeadIs
<1>5. Waits(status, r)
  BY <1>1, <1>2, <1>4 DEF QueueWait
<1>6. \A k \in DOMAIN status[p] : status[p][k] = "ok" => k < r[2]
  BY <1>1, <1>5 DEF Waits
<1>7. ASSUME NEW x \in Range(s), x[1] \in Paths PROVE x[2] < r[2]
  <2>1. x[1] = p /\ status[p][x[2]] = "ok" /\ x \in Record
    BY <1>7 DEF Sound, Range
  <2>2. x[2] \in 1..Len(Class[p])
    BY <2>1, OfSession
  <2> QED BY <1>2, <1>6, <2>1, <2>2, StatusIs
<1>8. r[2] \in DOMAIN status[p] /\ Answered(p, r[2], "ok")
  BY <1>1, <1>2, StatusIs DEF Answered
<1> DEFINE n == r[2]
<1>9. n \in DOMAIN status[p]
  BY <1>8
<1>10. Answered(p, n, "ok")
  BY <1>8
<1>11. TypeOK
  BY <1>2
<1> HIDE DEF n
<1>12. /\ \A q \in Paths : DOMAIN status'[q] = DOMAIN status[q]
       /\ \A q \in Paths : \A i \in DOMAIN status[q] :
               status'[q][i] = IF q = p /\ i = n THEN "ok" ELSE status[q][i]
  BY <1>9, <1>10, <1>11, StatusMoves
<1>13. status'[p][n] = "ok"
  BY <1>9, <1>12
<1> QED BY <1>1, <1>7, <1>13 DEF n

LEMMA CopiesStep ==
  ASSUME Core, Next
  PROVE  CopiesInOrder'
<1>0. TypeOK /\ \A p \in Paths : \A s \in Copies(p) : Sound(status, p, s)
  BY CopiesParts DEF Core
<1> SUFFICES ASSUME NEW p \in Paths, NEW s \in Copies(p)'
             PROVE  Sound(status', p, s)
  BY DEF CopiesInOrder, Sound
<1>1. CASE s \in Copies(p)
  <2>1. s \in Seq(Record) /\ Sound(status, p, s)
    BY <1>0, <1>1, CopiesTyped
  <2> QED BY <2>1, SoundStays
<1>b. Bytes(p) \in Seq(Record) /\ Sound(status, p, Bytes(p))
  BY <1>0, FileIs, CopiesAre
<1>2. CASE Added(p) /\ s = Bytes(p)'
  <2>1. PICK r \in Record : (Acks(p, r) \/ Edits(p, r)) /\ s = Append(Bytes(p), r)
    BY <1>2 DEF Added
  <2> DEFINE b == Bytes(p)
  <2>2. b \in Seq(Record)
    BY <1>b
  <2>3. Sound(status, p, b)
    BY <1>b
  <2>4. s = Append(b, r)
    BY <2>1
  <2> HIDE DEF b
  <2>5. Sound(status', p, b)
    BY <2>2, <2>3, SoundStays
  <2>6. CASE Acks(p, r)
    <3>1. /\ r \in SessionRecord /\ r[1] = p /\ status'[p][r[2]] = "ok"
          /\ \A x \in Range(b) : x[1] \in Paths => x[2] < r[2]
      BY <2>6, <2>2, <2>3, AckLast
    <3> DEFINE acks == status'
    <3>2. Sound(acks, p, b)
      BY <2>5
    <3>3. /\ r[1] = p /\ acks[p][r[2]] = "ok"
          /\ \A x \in Range(b) : x[1] \in Paths => x[2] < r[2]
      BY <3>1
    <3> HIDE DEF acks
    <3>4. Sound(acks, p, Append(b, r))
      BY <2>2, <3>2, <3>3, AppendSound
    <3> QED BY <3>4, <2>4 DEF acks
  <2>7. CASE Edits(p, r)
    <3>1. r[1] \notin Paths
      BY <2>7, SummaryIs DEF Edits
    <3> DEFINE acks == status'
    <3>2. Sound(acks, p, b)
      BY <2>5
    <3> HIDE DEF acks
    <3>4. Sound(acks, p, Append(b, r))
      BY <2>2, <3>1, <3>2, AppendSound
    <3> QED BY <3>4, <2>4 DEF acks
  <2> QED BY <2>1, <2>6, <2>7
<1>3. CASE Rewritten(p) /\ s = Bytes(p)'
  <2>1. PICK o \in Requests : own[o].pc = "rename" /\ own[o].path = p /\ s = Replacement(o)
    BY <1>3 DEF Rewritten
  <2>2. own[o].pc \in Reading
    BY <2>1 DEF Reading
  <2> DEFINE t == own[o].bytes
             id == own[o].plan
  <2>3. t \in Seq(Record) /\ Panes(t) # {} /\ id \in Plans /\ s = Compacted(t, id)
    BY <2>1, <2>2, InHand
  <2>4. Sound(status, p, t)
    BY <1>0, <2>1, <2>2, CopiesAre
  <2> HIDE DEF t, id
  <2>5. Sound(status', p, t)
    BY <2>3, <2>4, SoundStays
  <2> DEFINE acks == status'
  <2>6. Sound(acks, p, t)
    BY <2>5
  <2> HIDE DEF acks
  <2>7. Sound(acks, p, Compacted(t, id))
    BY <2>3, <2>6, CompactedSound
  <2> QED BY <2>3, <2>7 DEF acks
<1> QED BY <1>1, <1>2, <1>3, CopiesMove

(***************************************************************************)
(* The journal.                                                            *)
(***************************************************************************)
\* What a plan says of a path is a beginning of an inode.
Pinned(id, p) == id[p][1] \in 1..used /\ id[p][2] <= Len(inode[id[p][1]])
ArchivesTrue ==
    \A x \in DOMAIN archive :
        /\ x[2] \in Named(x[1]) /\ x[1] \in DOMAIN manifest
        /\ Pinned(x[1], x[2]) /\ archive[x] = Planned(x[1], x[2])
StageTrue(j, id, p, arch) ==
    /\ Described(j, id)
    /\ j.stage # "planned" => <<id, p>> \in DOMAIN arch /\ arch[<<id, p>>] = j.old
StagesTrue ==
    \A id \in DOMAIN manifest : \A p \in Named(id) : StageTrue(FilesOf(manifest, id)[p], id, p, archive)
HandTrue(o) ==
    LET id == own[o].plan
        p == own[o].path IN
    /\ Panes(own[o].bytes) # {}
    /\ Pinned(id, p)
    /\ own[o].bytes = Planned(id, p)
    /\ own[o].pc # "archive" => <<id, p>> \in DOMAIN archive /\ archive[<<id, p>>] = own[o].bytes
    /\ own[o].pc # "renamed" => Covers(own[o].bytes, p)
    /\ own[o].pc \in {"staged", "verify", "rename"} => staging[p].bytes = Replacement(o)
TodoTrue ==
    \A o \in Requests : own[o].pc \in {"restore", "swap"} =>
        \A p \in own[o].todo : FilesOf(manifest, own[o].plan)[p].stage # "planned"
SwapTrue(o) ==
    /\ <<own[o].plan, own[o].path>> \in DOMAIN archive
    /\ staging[own[o].path].bytes = archive[<<own[o].plan, own[o].path>>]
    /\ Covers(staging[own[o].path].bytes, own[o].path)

LEMMA JournalParts ==
  JournalTrue <=> /\ ArchivesTrue /\ StagesTrue /\ TodoTrue
                  /\ \A o \in Requests : own[o].pc \in Reading => HandTrue(o)
                  /\ \A o \in Requests : own[o].pc = "swap" => SwapTrue(o)
<1>1. JournalTrue => /\ ArchivesTrue /\ StagesTrue /\ TodoTrue
                     /\ \A o \in Requests : own[o].pc \in Reading => HandTrue(o)
                     /\ \A o \in Requests : own[o].pc = "swap" => SwapTrue(o)
  BY DEF JournalTrue, ArchivesTrue, StagesTrue, StageTrue, TodoTrue, HandTrue, SwapTrue, Pinned, FilesOf
<1>2. ASSUME ArchivesTrue, StagesTrue, TodoTrue,
             \A o \in Requests : own[o].pc \in Reading => HandTrue(o),
             \A o \in Requests : own[o].pc = "swap" => SwapTrue(o)
      PROVE  JournalTrue
  BY <1>2 DEF JournalTrue, ArchivesTrue, StagesTrue, StageTrue, TodoTrue, HandTrue, SwapTrue, Pinned, FilesOf
<1> QED BY <1>1, <1>2

\* No file shrinks: the beginning of an inode stays what it was.
LEMMA PlannedKept ==
  ASSUME Core, Next, NEW id \in Plans, NEW p \in Paths, Pinned(id, p)
  PROVE  Pinned(id, p)' /\ Planned(id, p)' = Planned(id, p)
<1> DEFINE n == id[p][1]
           m == id[p][2]
           s == inode[n]
           t == inode'[n]
<1>1. TypeOK /\ HandleCurrent /\ WorkFenced /\ used \in Nat /\ m \in Nat
  <2>1. TypeOK /\ HandleCurrent /\ WorkFenced
    BY DEF Core
  <2>2. used \in Nat
    BY <2>1, CompactionBounds DEF TypeOK
  <2>3. id[p] \in (0..MaxInode) \X Nat
    BY DEF Plans
  <2>4. m \in Nat
    BY <2>3
  <2> QED BY <2>1, <2>2, <2>4
<1>2. n \in 1..used /\ m <= Len(s)
  BY DEF Pinned
<1>3. /\ used' \in used..MaxInode /\ inode' \in [1..MaxInode -> Seq(Record)]
      /\ Len(s) \in Nat /\ Len(t) \in Nat /\ Len(t) >= Len(s) /\ \A k \in 1..Len(s) : t[k] = s[k]
  BY <1>1, <1>2, InodesKept
<1>4. MaxInode \in Nat /\ inode \in [1..MaxInode -> Seq(Record)] /\ used \in 0..MaxInode
  BY <1>1, CompactionBounds DEF TypeOK
<1>5. n \in 1..used' /\ n \in 1..MaxInode
  BY <1>1, <1>2, <1>3, <1>4
<1>6. s \in Seq(Record) /\ t \in Seq(Record)
  BY <1>3, <1>4, <1>5
<1> HIDE DEF s, t, m, n
<1>7. m <= Len(t)
  BY <1>1, <1>2, <1>3
<1>8. SubSeq(s, 1, m) = SubSeq(t, 1, m)
  <2>1. \A k \in 1..m : s[k] = t[k]
    BY <1>1, <1>2, <1>3
  <2>2. SubSeq(s, 1, m) = [k \in 1..m |-> s[k]] /\ SubSeq(t, 1, m) = [k \in 1..m |-> t[k]]
    BY <1>1, <1>6
  <2>3. [k \in 1..m |-> s[k]] = [k \in 1..m |-> t[k]]
    BY <2>1
  <2> QED BY <2>2, <2>3
<1> QED BY <1>5, <1>7, <1>8 DEF Pinned, Planned, s, t, m, n

\* The manifests stay; their entries change as a compaction writes them.
LEMMA ManifestStays ==
  ASSUME Core, Next
  PROVE  DOMAIN manifest \subseteq DOMAIN manifest'
<1>1. ASSUME NEW o \in Requests, WorkSteps(o) PROVE DOMAIN manifest \subseteq DOMAIN manifest'
  BY <1>1, ManifestMoves DEF SameFiles, Plans1, Stages1
<1>2. CASE ~ \E o \in Requests : WorkSteps(o)
  BY <1>2, StoreQuiet DEF store
<1> QED BY <1>1, <1>2

LEMMA ArchivesStep ==
  ASSUME Core, Next
  PROVE  ArchivesTrue'
<1>0. TypeOK /\ ArchivesTrue
  BY JournalParts DEF Core
<1> SUFFICES ASSUME NEW x \in DOMAIN archive'
             PROVE  /\ x[2] \in Named(x[1]) /\ x[1] \in DOMAIN manifest'
                    /\ Pinned(x[1], x[2])' /\ archive'[x] = Planned(x[1], x[2])'
  BY DEF ArchivesTrue
<1> DEFINE id == x[1]
           p == x[2]
<1>1. /\ id \in Plans /\ p \in Paths /\ p \in Named(id) /\ id \in DOMAIN manifest
      /\ Pinned(id, p) /\ archive'[x] = Planned(id, p)
  <2>1. CASE x \in DOMAIN archive
    <3>1. p \in Named(id) /\ id \in DOMAIN manifest /\ Pinned(id, p) /\ archive[x] = Planned(id, p)
      BY <1>0, <2>1 DEF ArchivesTrue
    <3>2. id \in Plans /\ p \in Paths
      BY <1>0, <2>1 DEF TypeOK
    <3> QED BY <2>1, <3>1, <3>2, ArchiveMoves
  <2>2. CASE x \notin DOMAIN archive
    <3>1. PICK o \in Requests : /\ own[o].pc = "archive" /\ x = <<own[o].plan, own[o].path>>
                                /\ archive'[x] = own[o].bytes
      BY <2>2, ArchiveMoves
    <3>2. own[o].pc \in Reading /\ id = own[o].plan /\ p = own[o].path
      BY <3>1 DEF Reading
    <3>3. HandTrue(o)
      BY <3>2, JournalParts DEF Core
    <3>4. id \in Plans /\ p \in Paths /\ p \in Named(id) /\ id \in DOMAIN manifest
      BY <3>2, InHand
    <3> QED BY <3>1, <3>2, <3>3, <3>4 DEF HandTrue
  <2> QED BY <2>1, <2>2
<1> HIDE DEF id, p
<1>2. Pinned(id, p)' /\ Planned(id, p)' = Planned(id, p)
  BY <1>1, PlannedKept
<1> QED BY <1>1, <1>2, ManifestStays DEF id, p

LEMMA StagesStep ==
  ASSUME Core, Next
  PROVE  StagesTrue'
<1>0. TypeOK /\ StagesTrue /\ Manifests(manifest)
  BY JournalParts, ManifestIs DEF Core
<1>1. ASSUME NEW j, NEW id, NEW p, StageTrue(j, id, p, archive)
      PROVE  StageTrue(j, id, p, archive')
  BY <1>1, ArchiveMoves DEF StageTrue
<1> SUFFICES ASSUME NEW id \in DOMAIN manifest', NEW p \in Named(id)
             PROVE  StageTrue(FilesOf(manifest', id)[p], id, p, archive')
  BY DEF StagesTrue
<1>2. ASSUME id \in DOMAIN manifest, FilesOf(manifest', id)[p] = FilesOf(manifest, id)[p]
      PROVE  StageTrue(FilesOf(manifest', id)[p], id, p, archive')
  <2>1. StageTrue(FilesOf(manifest, id)[p], id, p, archive)
    BY <1>0, <1>2 DEF StagesTrue
  <2> QED BY <1>1, <1>2, <2>1
<1>3. CASE ~ \E o \in Requests : WorkSteps(o)
  BY <1>2, <1>3, StoreQuiet DEF store
<1>4. ASSUME NEW o \in Requests, WorkSteps(o)
      PROVE  StageTrue(FilesOf(manifest', id)[p], id, p, archive')
  <2>1. CASE SameFiles
    BY <1>2, <2>1 DEF SameFiles
  <2>2. CASE Plans1(o)
    <3>1. CASE id = own[o].plan
      <4>1. FilesOf(manifest', id)[p] = Journal("planned", <<>>, <<>>)
        BY <2>2, <3>1 DEF Plans1
      <4>2. Journal("planned", <<>>, <<>>).stage = "planned"
        BY DEF Journal
      <4> QED BY <4>1, <4>2 DEF StageTrue, Described
    <3>2. CASE id # own[o].plan
      BY <1>2, <2>2, <3>2 DEF Plans1
    <3> QED BY <3>1, <3>2
  <2>3. ASSUME NEW from \in Reading, NEW stage \in {"archived", "staged", "committed"}, NEW new, NEW to,
               from # "archive", stage \in {"staged", "committed"} => new = Replacement(o),
               Stages1(o, from, Journal(stage, own[o].bytes, new), to)
        PROVE  StageTrue(FilesOf(manifest', id)[p], id, p, archive')
    <3> DEFINE j == Journal(stage, own[o].bytes, new)
    <3>1. /\ own[o].pc = from /\ id \in DOMAIN manifest
          /\ FilesOf(manifest', id)[p] =
               IF id = own[o].plan /\ p = own[o].path THEN j ELSE FilesOf(manifest, id)[p]
      BY <2>3 DEF Stages1
    <3>2. CASE id = own[o].plan /\ p = own[o].path
      <4>1. own[o].pc \in Reading /\ own[o].pc # "archive"
        BY <2>3, <3>1
      <4>2. HandTrue(o)
        BY <4>1, JournalParts DEF Core
      <4>3. /\ Panes(own[o].bytes) # {} /\ <<id, p>> \in DOMAIN archive
            /\ archive[<<id, p>>] = own[o].bytes
        BY <3>2, <4>1, <4>2 DEF HandTrue
      <4>4. Replacement(o) = Compacted(own[o].bytes, id)
        BY <3>2 DEF Replacement, Id
      <4>5. j.stage = stage /\ j.old = own[o].bytes /\ j.new = new
        BY DEF Journal
      <4> HIDE DEF j
      <4>6. StageTrue(j, id, p, archive)
        BY <2>3, <4>3, <4>4, <4>5 DEF StageTrue, Described
      <4> QED BY <1>1, <3>1, <3>2, <4>6
    <3>3. CASE ~(id = own[o].plan /\ p = own[o].path)
      BY <1>2, <3>1, <3>3
    <3> QED BY <3>2, <3>3
  <2>4. "archived" \in Reading /\ "staged" \in Reading /\ "renamed" \in Reading
    BY DEF Reading
  <2>5. CASE Stages1(o, "archived", Journal("archived", own[o].bytes, <<>>), "stage")
    BY <2>3, <2>4, <2>5
  <2>6. CASE Stages1(o, "staged", Journal("staged", own[o].bytes, Replacement(o)), "verify")
    BY <2>3, <2>4, <2>6
  <2>7. CASE Stages1(o, "renamed", Journal("committed", own[o].bytes, Replacement(o)), "next")
    BY <2>3, <2>4, <2>7
  <2> QED BY <1>4, <2>1, <2>2, <2>5, <2>6, <2>7, ManifestMoves
<1> QED BY <1>3, <1>4

\* While a request works, a step of another changes no manifest, nothing staged, and puts
\* no file in the place of another.
LEMMA WhileWorking ==
  ASSUME Core, Next, NEW o \in Requests, own[o].pc \in Working, ~WorkSteps(o)
  PROVE  /\ UNCHANGED staging /\ SameFiles
         /\ \A p \in Paths : ~Rewritten(p) /\ ~Restored(p)
<1>0. TypeOK /\ lock = o /\ o # NoOne
  BY SessionAssumption DEF Core, LeaseHeld, Requests
<1>1. ASSUME NEW q \in Requests, WorkSteps(q)
      PROVE  q # o /\ own[q].pc \notin Working /\ UNCHANGED staging /\ SameFiles
  <2>1. q # o
    BY <1>1
  <2>2. own[q].pc \notin Working
    BY <2>1, Alone
  <2>3. UNCHANGED staging
    BY <1>1, <2>2, StagingMoves
  <2>4. ~Plans1(q)
    <3>1. Carries(q) \/ Begins(q) \/ Ends(q)
      BY <1>0, <1>1, WorkMoves
    <3>2. own'[q].pc = "releasing"
      BY <1>0, <2>2, <3>1 DEF Carries, Begins, Ends
    <3> QED BY <3>2 DEF Plans1
  <2>5. ASSUME NEW from, NEW j, NEW to, Stages1(q, from, j, to)
        PROVE  own[q].pc = from
    BY <2>5 DEF Stages1
  <2>6. SameFiles
    BY <1>1, <2>2, <2>4, <2>5, PcsAre, ManifestMoves
  <2> QED BY <2>1, <2>2, <2>3, <2>6
<1>2. ASSUME ~ \E q \in Requests : WorkSteps(q)
      PROVE  UNCHANGED staging /\ SameFiles
  BY <1>2, StoreQuiet DEF store, SameFiles
<1>3. UNCHANGED staging /\ SameFiles
  BY <1>1, <1>2
<1>4. ASSUME NEW p \in Paths, Rewritten(p) \/ Restored(p) PROVE FALSE
  <2>1. PICK q \in Requests : (Rename(q) /\ own[q].pc = "rename") \/ (Swap(q) /\ own[q].pc = "swap")
    BY <1>4 DEF Rewritten, Restored
  <2>2. own[q].pc \in Working /\ WorkSteps(q)
    BY <2>1, PcsAre DEF WorkSteps
  <2> QED BY <1>1, <2>2
<1> QED BY <1>3, <1>4

LEMMA OwnStays ==
  ASSUME TypeOK, Next, NEW o \in Requests, own'[o].pc \in Working
  PROVE  own'[o] = own[o] \/ WorkSteps(o)
<1>0. Idle.pc \notin Working /\ {"asked", "waiting", "leased", "done"} \cap Working = {}
  BY IdleIs DEF Working, Reading
<1>1. ASSUME NEW q \in Requests, Rest(q), q # o PROVE own'[o] = own[o]
  BY <1>1 DEF Rest
<1> QED BY <1>0, <1>1, WhoMoves

\* Records of somebody else cover no session: what covers a leased file still does.
LEMMA CoversStays ==
  ASSUME Core, Next, NEW p \in leased, NEW s, Covers(s, p), ~Rewritten(p), ~Restored(p)
  PROVE  Covers(s, p)'
<1>0. p \in Paths /\ TypeOK
  BY DEF Core, TypeOK
<1>1. CASE Bytes(p)' = Bytes(p)
  BY <1>1 DEF Covers
<1>2. CASE Added(p)
  <2>1. PICK r \in Record : (Acks(p, r) \/ Edits(p, r)) /\ Bytes(p)' = Append(Bytes(p), r)
    BY <1>2 DEF Added
  <2>2. r[1] \notin Paths
    BY <2>1, SummaryIs DEF Acks, Edits
  <2> DEFINE b == Bytes(p)
             t == Append(b, r)
  <2>3. b \in Seq(Record)
    BY <1>0, FileIs
  <2> HIDE DEF b
  <2>4. \A k \in DOMAIN t : \/ k \in DOMAIN b /\ t[k] = b[k]
                            \/ k = Len(b) + 1 /\ t[k] = r
    BY <2>3, Appended
  <2> HIDE DEF t
  <2>5. \A x \in Range(t) : x \in Range(b) \/ x = r
    BY <2>4 DEF Range
  <2>6. \A x \in Range(b) : x[1] \in Paths => x \in Range(s)
    BY DEF Covers, b
  <2>7. \A x \in Range(t) : x[1] \in Paths => x \in Range(s)
    BY <2>2, <2>5, <2>6
  <2>8. Bytes(p)' = t
    BY <2>1 DEF b, t
  <2> QED BY <2>7, <2>8 DEF Covers
<1> QED BY <1>0, <1>1, <1>2, BytesMove

LEMMA HandIs ==
  ASSUME NEW o, NEW id, NEW p, NEW b,
         own'[o].plan = id, own'[o].path = p, own'[o].bytes = b,
         Panes(b) # {}, Pinned(id, p)', b = Planned(id, p)',
         own'[o].pc # "archive" => <<id, p>> \in DOMAIN archive' /\ archive'[<<id, p>>] = b,
         own'[o].pc # "renamed" => Covers(b, p)',
         own'[o].pc \in {"staged", "verify", "rename"} => staging'[p].bytes = Compacted(b, id)
  PROVE  HandTrue(o)'
BY DEF HandTrue, Replacement, Id, Pinned, Planned, Covers, Bytes

LEMMA HandWas ==
  ASSUME Core, NEW o \in Requests, own[o].pc \in Reading,
         NEW id, NEW p, NEW b, id = own[o].plan, p = own[o].path, b = own[o].bytes
  PROVE  /\ id \in Plans /\ p \in Paths /\ p \in leased /\ b \in Seq(Record)
         /\ Panes(b) # {} /\ Pinned(id, p) /\ b = Planned(id, p)
         /\ own[o].pc # "archive" => <<id, p>> \in DOMAIN archive /\ archive[<<id, p>>] = b
         /\ own[o].pc # "renamed" => Covers(b, p)
         /\ own[o].pc \in {"staged", "verify", "rename"} => staging[p].bytes = Compacted(b, id)
         /\ Replacement(o) = Compacted(b, id) /\ own[o].pc \in Working
<1>1. HandTrue(o) /\ own[o].pc \in Working
  BY JournalParts, PcsAre DEF Core
<1>2. id \in Plans /\ p \in Paths /\ p \in leased /\ b \in Seq(Record)
  BY InHand
<1>3. Replacement(o) = Compacted(b, id)
  BY DEF Replacement, Id
<1> QED BY <1>1, <1>2, <1>3 DEF HandTrue

LEMMA HandStays ==
  ASSUME Core, Next, NEW o \in Requests, own[o].pc \in Reading, own'[o] = own[o], ~WorkSteps(o)
  PROVE  HandTrue(o)'
<1>0. PICK id, p, b : id = own[o].plan /\ p = own[o].path /\ b = own[o].bytes
  OBVIOUS
<1>1. /\ id \in Plans /\ p \in Paths /\ p \in leased /\ b \in Seq(Record)
      /\ Panes(b) # {} /\ Pinned(id, p) /\ b = Planned(id, p)
      /\ own[o].pc # "archive" => <<id, p>> \in DOMAIN archive /\ archive[<<id, p>>] = b
      /\ own[o].pc # "renamed" => Covers(b, p)
      /\ own[o].pc \in {"staged", "verify", "rename"} => staging[p].bytes = Compacted(b, id)
      /\ Replacement(o) = Compacted(b, id) /\ own[o].pc \in Working
  BY <1>0, HandWas
<1>3. UNCHANGED staging /\ ~Rewritten(p) /\ ~Restored(p)
  BY <1>1, WhileWorking
<1>4. Pinned(id, p)' /\ Planned(id, p)' = Planned(id, p)
  BY <1>1, PlannedKept
<1>5. own'[o].pc # "archive" => <<id, p>> \in DOMAIN archive' /\ archive'[<<id, p>>] = b
  BY <1>1, ArchiveMoves
<1>6. own'[o].pc # "renamed" => Covers(b, p)'
  BY <1>1, <1>3, CoversStays
<1>7. own'[o].pc \in {"staged", "verify", "rename"} => staging'[p].bytes = Compacted(b, id)
  BY <1>1, <1>3
<1>8. own'[o].plan = id /\ own'[o].path = p /\ own'[o].bytes = b
  BY <1>0
<1>9. b = Planned(id, p)'
  BY <1>1, <1>4
<1> QED BY <1>1, <1>4, <1>5, <1>6, <1>7, <1>8, <1>9, HandIs

LEMMA HandTaken ==
  ASSUME Core, Next, NEW o \in Requests, NEW p \in Paths, Takes(o, p)
  PROVE  HandTrue(o)'
<1>a. PICK id, b : id = own[o].plan /\ b = Bytes(p)
  OBVIOUS
<1>0. TypeOK /\ HandleCurrent /\ WorkFenced
  BY DEF Core
<1>1. /\ own'[o].plan = id /\ own'[o].path = p /\ own'[o].bytes = b /\ own'[o].pc = "archive"
      /\ id[p] = <<live[p], Len(b)>> /\ Panes(b) # {}
  BY <1>a DEF Takes, Fingerprint, Eligible
<1>2. UNCHANGED sessions
  BY DEF Takes, NextFile
<1>3. live[p] \in 1..used /\ b \in Seq(Record) /\ Len(b) \in Nat /\ b = inode[live[p]]
  BY <1>0, <1>a, FileIs DEF Bytes
<1>4. id[p][1] = live[p] /\ id[p][2] = Len(b)
  BY <1>1
<1>5. SubSeq(b, 1, Len(b)) = b
  BY <1>3
<1>7. inode' = inode /\ live' = live /\ used' = used
  BY <1>2 DEF sessions
<1>8. Pinned(id, p)'
  BY <1>3, <1>4, <1>7 DEF Pinned
<1>9. b = Planned(id, p)'
  BY <1>3, <1>4, <1>5, <1>7 DEF Planned
<1>10. Covers(b, p)'
  BY <1>3, <1>7 DEF Covers, Bytes
<1>11. own'[o].pc # "archive" => <<id, p>> \in DOMAIN archive' /\ archive'[<<id, p>>] = b
  BY <1>1
<1>12. own'[o].pc \in {"staged", "verify", "rename"} => staging'[p].bytes = Compacted(b, id)
  BY <1>1
<1> QED BY <1>1, <1>8, <1>9, <1>10, <1>11, <1>12, HandIs

LEMMA HandContinues ==
  ASSUME Core, Next, NEW o \in Requests, Continues(o)
  PROVE  HandTrue(o)'
<1>a. PICK id, p, b : id = own[o].plan /\ p = own[o].path /\ b = own[o].bytes
  OBVIOUS
<1>0. TypeOK /\ HandleCurrent /\ WorkFenced /\ WorkSteps(o) /\ own[o].pc \in Reading
  BY DEF Core, Continues, WorkSteps, Reading
<1>1. /\ id \in Plans /\ p \in Paths /\ p \in leased /\ b \in Seq(Record)
      /\ Panes(b) # {} /\ Pinned(id, p) /\ b = Planned(id, p)
      /\ own[o].pc # "archive" => <<id, p>> \in DOMAIN archive /\ archive[<<id, p>>] = b
      /\ own[o].pc # "renamed" => Covers(b, p)
      /\ own[o].pc \in {"staged", "verify", "rename"} => staging[p].bytes = Compacted(b, id)
      /\ Replacement(o) = Compacted(b, id) /\ own[o].pc \in Working
  BY <1>a, <1>0, HandWas
<1>3. own'[o].plan = id /\ own'[o].path = p /\ own'[o].bytes = b
  BY <1>a DEF Continues, SameWork
<1>4. Pinned(id, p)' /\ Planned(id, p)' = Planned(id, p)
  BY <1>1, PlannedKept
<1>5. b = Planned(id, p)'
  BY <1>1, <1>4
<1>6. own'[o].pc # "archive" => <<id, p>> \in DOMAIN archive' /\ archive'[<<id, p>>] = b
  <2>1. CASE own[o].pc = "archive"
    <3>1. Archive(o) /\ own'[o].pc = "archived"
      BY <2>1 DEF Continues
    <3>2. ~Go(o, "refused")
      <4>1. "refused" \in Pcs
        BY DEF Pcs, Holding, Working, Reading
      <4>2. Go(o, "refused") => own'[o].pc = "refused"
        BY <1>0, <4>1, GoMoves DEF Go
      <4> QED BY <3>1, <4>2
    <3> DEFINE x == <<id, p>>
    <3>3. archive' = Put(archive, x, b)
      BY <3>1, <3>2, <1>a DEF Archive, Id, Cur
    <3> HIDE DEF x
    <3>5. x \in DOMAIN archive' /\ archive'[x] = b
      BY <3>3 DEF Put
    <3> QED BY <3>5 DEF x
  <2>2. CASE own[o].pc # "archive"
    BY <1>1, <2>2, ArchiveMoves
  <2> QED BY <2>1, <2>2
<1>7. own'[o].pc # "renamed" => Covers(b, p)'
  <2> SUFFICES ASSUME own'[o].pc # "renamed" PROVE Covers(b, p)'
    OBVIOUS
  <2>1. own[o].pc # "renamed" /\ own[o].pc \notin {"rename", "swap"}
    BY DEF Continues
  <2>2. Covers(b, p)
    BY <1>1, <2>1
  <2>3. ~Rename(o) /\ ~Swap(o)
    BY <2>1 DEF Rename, Swap, At
  <2>4. inode' = inode /\ live' = live
    BY <1>0, <2>3, WorkQuiet DEF sessions
  <2> QED BY <2>2, <2>4 DEF Covers, Bytes
<1>8. own'[o].pc \in {"staged", "verify", "rename"} => staging'[p].bytes = Compacted(b, id)
  <2> SUFFICES ASSUME own'[o].pc \in {"staged", "verify", "rename"}
               PROVE  staging'[p].bytes = Compacted(b, id)
    OBVIOUS
  <2>1. CASE own[o].pc = "stage"
    <3>1. staging' = [staging EXCEPT ![p] = File(Replacement(o))]
      BY <1>a, <2>1 DEF Continues
    <3>2. p \in DOMAIN staging
      BY <1>0, <1>1 DEF TypeOK
    <3>3. staging'[p] = File(Replacement(o))
      BY <3>1, <3>2
    <3> QED BY <1>1, <3>3 DEF File
  <2>2. CASE own[o].pc \in {"staged", "verify"}
    <3>1. UNCHANGED staging
      BY <2>2 DEF Continues, JournalStaged, WriteJournal
    <3> QED BY <1>1, <2>2, <3>1
  <2> QED BY <2>1, <2>2 DEF Continues
<1> QED BY <1>1, <1>3, <1>4, <1>5, <1>6, <1>7, <1>8, HandIs

LEMMA HandStep ==
  ASSUME Core, Next, NEW o \in Requests, own'[o].pc \in Reading
  PROVE  HandTrue(o)'
<1>0. TypeOK
  BY DEF Core
<1>1. CASE WorkSteps(o)
  <2>1. (\E p \in own[o].todo : Takes(o, p)) \/ Continues(o)
    BY <1>0, <1>1, WorkHand
  <2>2. \A p : Takes(o, p) => p \in Paths
    BY DEF Takes
  <2> QED BY <2>1, <2>2, HandTaken, HandContinues
<1>2. CASE ~WorkSteps(o)
  <2>1. own'[o] = own[o] /\ own[o].pc \in Reading
    BY <1>0, <1>2, OwnStays, PcsAre
  <2> QED BY <1>2, <2>1, HandStays
<1> QED BY <1>1, <1>2

\* The steps that leave a request restoring.
LEMMA WorkBack ==
  ASSUME TypeOK, NEW o \in Requests, WorkSteps(o), own'[o].pc \in {"restore", "swap"}
  PROVE  /\ own'[o].plan = own[o].plan /\ UNCHANGED <<manifest, archive>>
         /\ \/ /\ BeginRollback(o) /\ own[o].pc = "leased" /\ own'[o].pc = "restore"
               /\ own'[o].todo = Touched(own[o].plan)
            \/ Restore(o) /\ own[o].pc = "restore" /\ own'[o].todo \subseteq own[o].todo
            \/ Swap(o) /\ own[o].pc = "swap" /\ own'[o].pc = "restore" /\ own'[o].todo = own[o].todo
<1>0. own'[o].plan = own[o].plan
  BY WorkMoves
<1>1. ~Over(o)
  <2>1. ASSUME Over(o) PROVE FALSE
    <3>1. own' = [own EXCEPT ![o].pc = "releasing"] /\ "releasing" \in Pcs
      BY <2>1 DEF Over, Pcs, Holding
    <3>2. own'[o].pc = "releasing"
      BY <3>1, GoMoves
    <3> QED BY <3>2
  <2> QED BY <2>1
<1>2. ASSUME NEW pc \in Pcs, Go(o, pc) PROVE own'[o].pc = pc /\ SameWork(o)
  BY <1>2, GoMoves DEF Go
<1>p. {"archived", "refused", "staged", "rename", "renamed", "stage", "verify", "next", "restore"} \subseteq Pcs
  BY DEF Pcs, Holding, Working, Reading
<1>3. CASE NextFile(o)
  BY <1>1, <1>3, NextFileIs
<1>4. CASE Archive(o) \/ Stage(o) \/ Verify(o) \/ Rename(o)
  <2>1. PICK pc \in {"archived", "refused", "staged", "rename", "renamed"} : Go(o, pc)
    BY <1>4 DEF Archive, Stage, Verify, Rename
  <2> QED BY <1>2, <1>p, <2>1
<1>5. CASE JournalArchived(o) \/ JournalStaged(o) \/ JournalRefused(o) \/ JournalCommitted(o)
  <2>1. PICK pc \in {"stage", "verify", "next"} : Go(o, pc)
    BY <1>1, <1>5 DEF JournalArchived, JournalStaged, JournalRefused, JournalCommitted, WriteJournal
  <2> QED BY <1>2, <1>p, <2>1
<1>6. CASE Apply(o)
  <2>1. own' = [own EXCEPT ![o].pc = "next", ![o].todo = Named(own[o].plan)]
    BY <1>1, <1>6 DEF Apply
  <2>2. Named(own[o].plan) \in SUBSET Paths
    BY DEF Named
  <2> DEFINE T == Named(own[o].plan)
  <2>3. /\ own' \in [Requests -> Request] /\ own'[o].pc = "next" /\ own'[o].todo = T /\ Rest(o)
        /\ own'[o].plan = own[o].plan /\ own'[o].fence = own[o].fence
        /\ own'[o].path = own[o].path /\ own'[o].bytes = own[o].bytes
    BY <1>p, <2>1, <2>2, TodoMoves
  <2> QED BY <2>3
<1>7. CASE BeginRollback(o)
  <2>1. /\ own[o].pc = "leased" /\ UNCHANGED <<manifest, archive>>
        /\ own' = [own EXCEPT ![o].pc = "restore", ![o].todo = Touched(own[o].plan)]
    BY <1>1, <1>7 DEF BeginRollback, At, Id, store
  <2> DEFINE T == Touched(own[o].plan)
  <2>2. T \in SUBSET Paths /\ "restore" \in Pcs
    BY <1>p DEF Touched, Named
  <2>4. /\ own' \in [Requests -> Request] /\ own'[o].pc = "restore" /\ own'[o].todo = T /\ Rest(o)
        /\ own'[o].plan = own[o].plan /\ own'[o].fence = own[o].fence
        /\ own'[o].path = own[o].path /\ own'[o].bytes = own[o].bytes
    BY <2>1, <2>2, TodoMoves
  <2> QED BY <1>0, <1>7, <2>1, <2>4 DEF T
<1>8. CASE Restore(o)
  <2>1. own[o].pc = "restore" /\ UNCHANGED <<manifest, archive>>
    BY <1>8 DEF Restore, At
  <2>2. PICK p \in own[o].todo : own'[o].todo = own[o].todo \ {p}
    BY <1>1, <1>8, RestoreIs
  <2> QED BY <1>0, <1>8, <2>1, <2>2
<1>9. CASE Swap(o)
  <2>1. own[o].pc = "swap" /\ UNCHANGED <<manifest, archive>> /\ Go(o, "restore")
    BY <1>9 DEF Swap, At
  <2>2. own'[o].pc = "restore" /\ SameWork(o)
    BY <1>2, <1>p, <2>1
  <2> QED BY <1>0, <1>9, <2>1, <2>2 DEF SameWork
<1> QED BY <1>3, <1>4, <1>5, <1>6, <1>7, <1>8, <1>9 DEF WorkSteps

LEMMA TodoStep ==
  ASSUME Core, Next
  PROVE  TodoTrue'
<1>0. TypeOK /\ TodoTrue
  BY JournalParts DEF Core
<1> SUFFICES ASSUME NEW o \in Requests, own'[o].pc \in {"restore", "swap"}, NEW p \in own'[o].todo
             PROVE  FilesOf(manifest', own'[o].plan)[p].stage # "planned"
  BY DEF TodoTrue
<1>1. CASE WorkSteps(o)
  <2>1. own'[o].plan = own[o].plan /\ manifest' = manifest
    BY <1>0, <1>1, WorkBack
  <2>2. CASE own'[o].todo = Touched(own[o].plan)
    BY <2>1, <2>2 DEF Touched, FilesOf
  <2>3. CASE own[o].pc \in {"restore", "swap"} /\ own'[o].todo \subseteq own[o].todo
    BY <1>0, <2>1, <2>3 DEF TodoTrue
  <2> QED BY <1>0, <1>1, <2>2, <2>3, WorkBack
<1>2. CASE ~WorkSteps(o)
  <2>1. own'[o] = own[o] /\ own[o].pc \in Working
    BY <1>0, <1>2, OwnStays, PcsAre
  <2>2. SameFiles
    BY <1>2, <2>1, WhileWorking
  <2>3. own[o].plan \in DOMAIN manifest
    BY <2>1 DEF Core, WorkFenced
  <2>4. FilesOf(manifest', own[o].plan) = FilesOf(manifest, own[o].plan)
    BY <2>2, <2>3 DEF SameFiles
  <2> QED BY <1>0, <2>1, <2>4 DEF TodoTrue
<1> QED BY <1>1, <1>2

LEMMA SwapStep ==
  ASSUME Core, Next, NEW o \in Requests, own'[o].pc = "swap"
  PROVE  SwapTrue(o)'
<1>0. TypeOK
  BY DEF Core
<1>g. ASSUME NEW id, NEW p, NEW b, own'[o].plan = id, own'[o].path = p,
             <<id, p>> \in DOMAIN archive', archive'[<<id, p>>] = b, staging'[p].bytes = b,
             Covers(b, p)'
      PROVE  SwapTrue(o)'
  BY <1>g DEF SwapTrue, Covers, Bytes
<1>1. CASE WorkSteps(o)
  <2>1. Restore(o) /\ own[o].pc = "restore" /\ own'[o].plan = own[o].plan /\ UNCHANGED archive
    BY <1>0, <1>1, WorkBack
  <2>2. PICK p \in own[o].todo :
           /\ own'[o].path = p /\ Restorable(o, p)
           /\ staging' = [staging EXCEPT ![p] = File(archive[<<own[o].plan, p>>])]
    <3>1. ~Over(o)
      <4>1. ASSUME Over(o) PROVE FALSE
        <5>1. own' = [own EXCEPT ![o].pc = "releasing"] /\ "releasing" \in Pcs
          BY <4>1 DEF Over, Pcs, Holding
        <5>2. own'[o].pc = "releasing"
          BY <1>0, <5>1, GoMoves
        <5> QED BY <5>2
      <4> QED BY <4>1
    <3> QED BY <1>0, <2>1, <3>1, RestoreIs
  <2>3. PICK id, j : id = own[o].plan /\ j = manifest[id].files[p]
    OBVIOUS
  <2>4. /\ p \in Paths /\ id \in DOMAIN manifest /\ p \in Named(id) /\ <<id, p>> \in DOMAIN archive
        /\ archive[<<id, p>>] \in Seq(Record) /\ archive[<<id, p>>] = j.old /\ j.stage # "planned"
    BY <2>1, <2>3, ToRestore
  <2>5. j.stage # "archived" /\ Bytes(p) = j.new
    BY <2>2, <2>3 DEF Restorable, Id
  <2>6. StageTrue(j, id, p, archive) /\ j \in JournalRecord
    <3>1. StagesTrue /\ FilesOf(manifest, id) \in [Named(id) -> JournalRecord] /\ FilesOf(manifest, id)[p] = j
      BY <1>0, <2>3, <2>4, JournalParts, ManifestIs DEF Core, FilesOf
    <3> QED BY <2>4, <3>1 DEF StagesTrue
  <2>7. j.new = Compacted(j.old, id) /\ Panes(j.old) # {}
    BY <2>4, <2>5, <2>6 DEF StageTrue, Described, JournalRecord, Stages
  <2>8. PICK b : b = j.old
    OBVIOUS
  <2>9. b \in Seq(Record) /\ id \in Plans /\ Panes(b) # {} /\ Bytes(p) = Compacted(b, id)
    BY <1>0, <2>4, <2>5, <2>7, <2>8, ManifestIs
  <2>10. \A r \in Range(Compacted(b, id)) : r \in Range(b) \/ r = <<"summary", id>>
    BY <2>9, CompactedKeeps
  <2>11. \A r \in Range(Bytes(p)) : r[1] \in Paths => r \in Range(b)
    BY <2>9, <2>10, SummaryIs
  <2>12. inode' = inode /\ live' = live
    BY <2>1 DEF Restore, sessions
  <2>13. Covers(b, p)'
    BY <2>11, <2>12 DEF Covers, Bytes
  <2>14. archive'[<<id, p>>] = b /\ <<id, p>> \in DOMAIN archive'
    BY <2>1, <2>4, <2>8
  <2>15. staging'[p].bytes = b
    <3>1. staging' = [staging EXCEPT ![p] = File(b)] /\ p \in DOMAIN staging
      BY <1>0, <2>2, <2>3, <2>4, <2>8 DEF TypeOK
    <3> QED BY <3>1 DEF File
  <2> QED BY <1>g, <2>1, <2>2, <2>3, <2>13, <2>14, <2>15
<1>2. CASE ~WorkSteps(o)
  <2>1. own'[o] = own[o] /\ own[o].pc = "swap" /\ own[o].pc \in Working
    BY <1>0, <1>2, OwnStays, PcsAre
  <2>2. PICK id, p : id = own[o].plan /\ p = own[o].path
    OBVIOUS
  <2>3. SwapTrue(o)
    BY <2>1, JournalParts DEF Core
  <2>4. PICK b : b = archive[<<id, p>>]
    OBVIOUS
  <2>5. <<id, p>> \in DOMAIN archive /\ staging[p].bytes = b /\ Covers(b, p)
    BY <2>2, <2>3, <2>4 DEF SwapTrue
  <2>6. p \in leased /\ p \in Paths
    BY <2>1, <2>2, Leased
  <2>7. UNCHANGED staging /\ ~Rewritten(p) /\ ~Restored(p)
    BY <1>2, <2>1, <2>6, WhileWorking
  <2>8. Covers(b, p)'
    BY <2>5, <2>6, <2>7, CoversStays
  <2>9. <<id, p>> \in DOMAIN archive' /\ archive'[<<id, p>>] = b
    BY <2>4, <2>5, ArchiveMoves
  <2> QED BY <1>g, <2>1, <2>2, <2>5, <2>7, <2>8, <2>9
<1> QED BY <1>1, <1>2

LEMMA JournalStep ==
  ASSUME Core, Next
  PROVE  JournalTrue'
<1>1. ArchivesTrue' /\ StagesTrue' /\ TodoTrue'
  BY ArchivesStep, StagesStep, TodoStep
<1>2. \A o \in Requests : own'[o].pc \in Reading => HandTrue(o)'
  BY HandStep
<1>3. \A o \in Requests : own'[o].pc = "swap" => SwapTrue(o)'
  BY SwapStep
<1> QED BY <1>1, <1>2, <1>3
        DEF JournalTrue, ArchivesTrue, StagesTrue, StageTrue, TodoTrue, HandTrue, SwapTrue, Pinned, FilesOf

(***************************************************************************)
(* No acknowledged record is lost.                                         *)
(***************************************************************************)
\* An acknowledgement is given with the record in the file.
LEMMA AckWritten ==
  ASSUME Core, NEW p \in Paths, NEW r, Acks(p, r)
  PROVE  Bytes(p)' = Append(Bytes(p), r)
<1>1. /\ RunAppend /\ r = queue[1].rec /\ r \in SessionRecord /\ r[1] = p
      /\ status' = [status EXCEPT ![p][r[2]] = "ok"]
  BY DEF Acks
<1>2. TypeOK /\ HandleCurrent
  BY DEF Core
<1>3. Grows(p, r) \/ status' = [status EXCEPT ![p][r[2]] = "failed"]
  BY <1>1, <1>2, RunAppendIs
<1>4. ~(status' = [status EXCEPT ![p][r[2]] = "failed"])
  <2>1. r[2] \in DOMAIN status[p]
    BY <1>1, <1>2, StatusIs
  <2> DEFINE n == r[2]
  <2>2. n \in DOMAIN status[p]
    BY <2>1
  <2>3. Answered(p, n, "ok")
    BY <1>1 DEF Answered
  <2>4. TypeOK
    BY <1>2
  <2>5. ASSUME Answered(p, n, "failed") PROVE FALSE
    <3> HIDE DEF n
    <3>1. /\ \A q \in Paths : DOMAIN status'[q] = DOMAIN status[q]
          /\ \A q \in Paths : \A i \in DOMAIN status[q] :
               status'[q][i] = IF q = p /\ i = n THEN "ok" ELSE status[q][i]
      BY <2>2, <2>3, <2>4, StatusMoves
    <3>2. /\ \A q \in Paths : DOMAIN status'[q] = DOMAIN status[q]
          /\ \A q \in Paths : \A i \in DOMAIN status[q] :
               status'[q][i] = IF q = p /\ i = n THEN "failed" ELSE status[q][i]
      BY <2>2, <2>4, <2>5, StatusMoves
    <3> QED BY <2>2, <3>1, <3>2
  <2> QED BY <2>5 DEF Answered
<1>5. inode' = [inode EXCEPT ![live[p]] = Append(inode[live[p]], r)] /\ live' = live
  BY <1>3, <1>4 DEF Grows
<1>6. live[p] \in 1..MaxInode /\ inode \in [1..MaxInode -> Seq(Record)]
  BY <1>2, FileIs DEF TypeOK
<1> QED BY <1>5, <1>6 DEF Bytes

\* Where an acknowledged record is.
InArchive(p, k) == \E id \in DOMAIN manifest :
    <<id, p>> \in DOMAIN archive /\ <<p, k>> \in Range(archive[<<id, p>>])

LEMMA InArchiveStays ==
  ASSUME Core, Next, NEW p \in Paths, NEW k, InArchive(p, k)
  PROVE  InArchive(p, k)'
<1>1. PICK id \in DOMAIN manifest : <<id, p>> \in DOMAIN archive /\ <<p, k>> \in Range(archive[<<id, p>>])
  BY DEF InArchive
<1>2. id \in DOMAIN manifest' /\ <<id, p>> \in DOMAIN archive' /\ archive'[<<id, p>>] = archive[<<id, p>>]
  BY <1>1, ManifestStays, ArchiveMoves
<1> QED BY <1>1, <1>2 DEF InArchive

LEMMA AppendKeeps ==
  ASSUME NEW s \in Seq(Record), NEW r \in Record
  PROVE  /\ r \in Range(Append(s, r)) /\ \A x \in Range(s) : x \in Range(Append(s, r))
<1> DEFINE t == Append(s, r)
<1>1. /\ Len(s) \in Nat /\ DOMAIN t = 1..Len(s) + 1 /\ t[Len(s) + 1] = r
      /\ DOMAIN s = 1..Len(s) /\ \A k \in DOMAIN s : k \in DOMAIN t /\ t[k] = s[k]
  OBVIOUS
<1> HIDE DEF t
<1>2. Len(s) + 1 \in DOMAIN t
  BY <1>1
<1>3. r \in Range(t) /\ \A x \in Range(s) : x \in Range(t)
  BY <1>1, <1>2 DEF Range
<1> QED BY <1>3 DEF t

LEMMA LostParts ==
  NothingLost <=> \A p \in Paths : \A k \in DOMAIN status[p] : status[p][k] = "ok" =>
                      <<p, k>> \in Range(Bytes(p)) \/ (Class[p][k] = "pane" /\ InArchive(p, k))
BY DEF NothingLost, Acked, InArchive

LEMMA LostStep ==
  ASSUME Core, NothingLost, Next
  PROVE  NothingLost'
<1> SUFFICES ASSUME NEW p \in Paths, NEW k \in DOMAIN status'[p], status'[p][k] = "ok"
             PROVE  <<p, k>> \in Range(Bytes(p)') \/ (Class[p][k] = "pane" /\ InArchive(p, k)')
  BY DEF NothingLost, Acked, InArchive, Bytes
<1>0. TypeOK /\ Bytes(p) \in Seq(Record)
  BY FileIs DEF Core
<1>1. k \in DOMAIN status[p] /\ (status[p][k] = "ok" \/ Acks(p, <<p, k>>))
  BY AcksMove
<1>2. <<p, k>> \in SessionRecord /\ <<p, k>> \in Record /\ ClassOf(<<p, k>>) = Class[p][k]
  BY <1>0, <1>1, StatusIs, RecordIs DEF ClassOf
<1>3. CASE Acks(p, <<p, k>>)
  BY <1>0, <1>2, <1>3, AckWritten, AppendKeeps
<1>4. CASE Class[p][k] = "pane" /\ InArchive(p, k)
  BY <1>4, InArchiveStays
<1>5. CASE <<p, k>> \in Range(Bytes(p))
  <2>1. CASE Bytes(p)' = Bytes(p)
    BY <1>5, <2>1
  <2>2. CASE Added(p)
    BY <1>0, <1>5, <2>2, AppendKeeps DEF Added
  <2>3. CASE Rewritten(p)
    <3>1. PICK o \in Requests : own[o].pc = "rename" /\ own[o].path = p /\ Bytes(p)' = Replacement(o)
      BY <2>3 DEF Rewritten
    <3>2. PICK id, b : id = own[o].plan /\ b = own[o].bytes
      OBVIOUS
    <3>3. own[o].pc \in Reading /\ own[o].pc # "archive" /\ own[o].pc # "renamed"
      BY <3>1 DEF Reading
    <3>4. /\ id \in Plans /\ p \in Paths /\ p \in leased /\ b \in Seq(Record)
          /\ Panes(b) # {} /\ Pinned(id, p) /\ b = Planned(id, p)
          /\ own[o].pc # "archive" => <<id, p>> \in DOMAIN archive /\ archive[<<id, p>>] = b
          /\ own[o].pc # "renamed" => Covers(b, p)
          /\ own[o].pc \in {"staged", "verify", "rename"} => staging[p].bytes = Compacted(b, id)
          /\ Replacement(o) = Compacted(b, id) /\ own[o].pc \in Working
      BY <3>1, <3>2, <3>3, HandWas
    <3>5. <<p, k>> \in Range(b)
      <4>1. <<p, k>>[1] \in Paths
        OBVIOUS
      <4> QED BY <1>5, <3>3, <3>4, <4>1 DEF Covers
    <3>6. CASE Class[p][k] = "pane"
      <4>1. id \in DOMAIN manifest
        BY <3>2, <3>3, InHand
      <4>2. InArchive(p, k)
        BY <3>3, <3>4, <3>5, <4>1 DEF InArchive
      <4> QED BY <3>6, <4>2, InArchiveStays
    <3>7. CASE Class[p][k] # "pane"
      <4>1. \A r \in Range(b) : ClassOf(r) # "pane" => r \in Range(Compacted(b, id))
        BY <3>4, CompactedKeeps
      <4> QED BY <1>2, <3>1, <3>4, <3>5, <3>7, <4>1
    <3> QED BY <3>6, <3>7
  <2>4. CASE Restored(p)
    <3>1. PICK o \in Requests : /\ own[o].pc = "swap" /\ own[o].path = p
                                /\ Bytes(p)' = archive[<<own[o].plan, p>>]
      BY <2>4 DEF Restored
    <3>2. SwapTrue(o)
      BY <3>1, JournalParts DEF Core
    <3>3. Covers(Bytes(p)', p)
      BY <3>1, <3>2 DEF SwapTrue
    <3>4. <<p, k>>[1] \in Paths
      OBVIOUS
    <3> QED BY <1>5, <3>3, <3>4 DEF Covers
  <2> QED BY <2>1, <2>2, <2>3, <2>4, BytesMove
<1> QED BY <1>1, <1>3, <1>4, <1>5, LostParts

\* The order of the copies is that of the file.
LEMMA OrderFromCopies ==
  ASSUME CopiesInOrder
  PROVE  OrderKept
BY CopiesAre DEF CopiesInOrder, OrderKept

(***************************************************************************)
(* The first state.                                                        *)
(***************************************************************************)
LEMMA InitialIs ==
  /\ InitialInode \in [Paths -> 1..Cardinality(Paths)]
  /\ \A p, q \in Paths : p # q => InitialInode[p] # InitialInode[q]
  /\ Cardinality(Paths) \in 0..MaxInode
<1>1. IsFiniteSet(Paths) /\ Cardinality(Paths) \in Nat /\ MaxInode \in Nat /\ MaxInode >= Cardinality(Paths)
  BY SessionAssumption, CompactionBounds, FS_CardinalityType
<1> DEFINE n == Cardinality(Paths)
<1>2. PICK f : f \in Bijection(1..n, Paths)
  BY <1>1, FS_CardinalityType DEF ExistsBijection
<1>3. f \in [1..n -> Paths] /\ \A p \in Paths : \E i \in 1..n : f[i] = p
  BY <1>2 DEF Bijection, Injection, Surjection
<1> DEFINE g == [p \in Paths |-> CHOOSE i \in 1..n : f[i] = p]
<1> HIDE DEF n
<1>4. \A p \in Paths : g[p] \in 1..n /\ f[g[p]] = p
  BY <1>3
<1>5. g \in [Paths -> 1..n] /\ \A p, q \in Paths : p # q => g[p] # g[q]
  <2>1. g \in [Paths -> 1..n]
    BY <1>4
  <2>2. \A p, q \in Paths : p # q => g[p] # g[q]
    BY <1>4
  <2> QED BY <2>1, <2>2
<1> HIDE DEF g
<1>6. /\ InitialInode \in [Paths -> 1..n]
      /\ \A p, q \in Paths : p # q => InitialInode[p] # InitialInode[q]
  BY <1>5 DEF InitialInode, n
<1> QED BY <1>1, <1>6 DEF n

\* What the writer has written of a path so far.
First(p) == [k \in 1..Written[p] |-> <<p, k>>]

LEMMA FirstIs ==
  ASSUME NEW p \in Paths
  PROVE  /\ Written[p] \in Nat /\ Written[p] <= Len(Class[p]) /\ Len(Class[p]) \in Nat
         /\ First(p) \in Seq(Record) /\ DOMAIN First(p) = 1..Written[p]
         /\ \A k \in 1..Written[p] : First(p)[k] = <<p, k>>
         /\ \A r \in Range(First(p)) : r[1] = p /\ r[2] \in 1..Written[p]
<1>1. Written[p] \in Nat /\ Written[p] <= Len(Class[p]) /\ Len(Class[p]) \in Nat
  BY SessionAssumption
<1>2. \A k \in 1..Written[p] : <<p, k>> \in Record
  BY <1>1, RecordIs
<1>3. First(p) \in [1..Written[p] -> Record]
  BY <1>2 DEF First
<1>4. First(p) \in Seq(Record)
  BY <1>1, <1>3
<1>5. DOMAIN First(p) = 1..Written[p] /\ \A k \in 1..Written[p] : First(p)[k] = <<p, k>>
  BY DEF First
<1>6. \A r \in Range(First(p)) : r[1] = p /\ r[2] \in 1..Written[p]
  BY <1>5 DEF Range
<1> QED BY <1>1, <1>4, <1>5, <1>6

LEMMA InitFiles ==
  ASSUME Init
  PROVE  /\ inode \in [1..MaxInode -> Seq(Record)] /\ used \in 0..MaxInode /\ live \in [Paths -> 1..used]
         /\ \A p, q \in Paths : p # q => live[p] # live[q]
         /\ \A p \in Paths : Bytes(p) = First(p)
<1>1. /\ used \in 0..MaxInode /\ live \in [Paths -> 1..used]
      /\ \A p, q \in Paths : p # q => live[p] # live[q]
  BY InitialIs DEF Init
<1>2. MaxInode \in Nat /\ \A p \in Paths : live[p] \in 1..MaxInode
  BY <1>1, CompactionBounds
<1>3. inode = [n \in 1..MaxInode |->
                  IF \E q \in Paths : live[q] = n
                  THEN First(CHOOSE q \in Paths : live[q] = n)
                  ELSE <<>>]
  BY DEF Init, First
<1>4. \A n \in 1..MaxInode : (\E q \in Paths : live[q] = n) => (CHOOSE q \in Paths : live[q] = n) \in Paths
  OBVIOUS
<1>5. \A n \in 1..MaxInode : inode[n] \in Seq(Record)
  BY <1>3, <1>4, FirstIs, JournalIs
<1>6. ASSUME NEW p \in Paths PROVE Bytes(p) = First(p)
  <2>1. (CHOOSE q \in Paths : live[q] = live[p]) = p
    BY <1>1
  <2>2. inode[live[p]] = First(CHOOSE q \in Paths : live[q] = live[p])
    BY <1>2, <1>3
  <2> QED BY <2>1, <2>2 DEF Bytes
<1>7. inode \in [1..MaxInode -> Seq(Record)]
  BY <1>3, <1>5
<1> QED BY <1>1, <1>6, <1>7

LEMMA InitCore ==
  ASSUME Init
  PROVE  Core /\ NothingLost
<1>0. /\ handle = [p \in Paths |-> IF Written[p] = 0 THEN 0 ELSE live[p]] /\ sent = Written
      /\ status = [p \in Paths |-> [k \in 1..Len(Class[p]) |->
                                    IF k <= Written[p] THEN "ok" ELSE "new"]]
      /\ queue = <<>> /\ leased = {} /\ deferred = <<>>
      /\ token = NoPlan /\ own = [o \in Requests |-> Idle] /\ lock = NoOne
      /\ manifest = Nothing /\ archive = Nothing /\ DOMAIN manifest = {} /\ DOMAIN archive = {}
      /\ staging = [p \in Paths |-> NoFile]
      /\ faults = 0 /\ stops = 0 /\ edits = 0
      /\ DOMAIN queue = {} /\ DOMAIN deferred = {}
  BY DEF Init, Nothing
<1>1. /\ inode \in [1..MaxInode -> Seq(Record)] /\ used \in 0..MaxInode /\ live \in [Paths -> 1..used]
      /\ \A p, q \in Paths : p # q => live[p] # live[q]
      /\ \A p \in Paths : Bytes(p) = First(p)
  BY InitFiles
<1>2. \A o \in Requests : own[o] = Idle
  BY <1>0
<1>3. /\ NoPlan \in Plans /\ Named(NoPlan) = {} /\ Idle \in Request /\ Idle.pc = "idle"
      /\ Idle.plan = NoPlan /\ Idle.fence = {} /\ Idle.todo = {}
  BY IdleIs
<1>4. "idle" \notin Holding /\ "idle" \notin Working /\ "idle" \notin Reading
  BY PcsAre
<1>5. \A p \in Paths : /\ DOMAIN status[p] = 1..Len(Class[p]) /\ Len(Class[p]) \in Nat /\ Written[p] \in Nat
                       /\ \A k \in 1..Len(Class[p]) : status[p][k] = IF k <= Written[p] THEN "ok" ELSE "new"
  BY <1>0, FirstIs
<1>6. TypeOK
  <2>1. handle \in [Paths -> 0..used]
    <3>1. used \in Nat /\ \A p \in Paths : live[p] \in 1..used
      BY <1>1, CompactionBounds
    <3> QED BY <1>0, <3>1
  <2>2. sent \in [Paths -> Nat] /\ DOMAIN status = Paths
    BY <1>0, SessionAssumption
  <2>3. \A p \in Paths : status[p] \in [1..Len(Class[p]) -> {"new", "pending", "ok", "failed"}]
    BY <1>0
  <2>4. queue \in Seq(Command) /\ deferred \in Seq(SessionRecord)
    BY <1>0
  <2>5. own \in [Requests -> Request] /\ staging \in [Paths -> FileRecord]
    BY <1>0, <1>3, FileRecordIs
  <2>6. token \in Plans /\ lock \in Requests \cup {NoOne} /\ leased \subseteq Paths
        /\ {faults, stops, edits} \subseteq Nat
    BY <1>0, <1>3
  <2>7. /\ DOMAIN manifest \subseteq Plans /\ DOMAIN archive \subseteq Plans \X Paths
        /\ \A id \in DOMAIN manifest :
              manifest[id] \in [files : [Named(id) -> [stage : Stages, old : Seq(Record),
                                                   new : Seq(Record)]],
                            complete : BOOLEAN]
        /\ \A x \in DOMAIN archive : archive[x] \in Seq(Record)
    BY <1>0
  <2> QED BY <1>1, <2>1, <2>2, <2>3, <2>4, <2>5, <2>6, <2>7 DEF TypeOK, Command, FileRecord
<1>7. LeaseHeld
  <2>1. Flock
    BY <1>0, <1>2, <1>3, <1>4, SessionAssumption DEF Flock, Requests
  <2>2. Fences
    <3>1. Holders = {}
      BY <1>2, <1>3, <1>4 DEF Holders
    <3> QED BY <1>0, <3>1 DEF Fences, Holders
  <2>3. Commands
    BY <1>0 DEF Commands
  <2> QED BY <2>1, <2>2, <2>3, LeaseParts
<1>8. HandleCurrent
  BY <1>0, <1>1 DEF HandleCurrent
<1>9. WorkFenced
  <2>1. "idle" \notin Reading \cup {"next", "refused"} /\ "idle" \notin {"restore", "swap"}
    BY <1>4
  <2> QED BY <1>2, <1>3, <1>4, <2>1 DEF WorkFenced
<1>10. SendOrder
  <2>1. SentNew
    <3> SUFFICES ASSUME NEW p \in Paths, NEW k \in DOMAIN status[p]
                 PROVE  k > sent[p] <=> status[p][k] = "new"
      BY DEF SentNew
    <3>1. k \in Nat /\ status[p][k] = (IF k <= Written[p] THEN "ok" ELSE "new") /\ sent[p] = Written[p]
      BY <1>0, <1>5
    <3> QED BY <3>1, <1>5
  <2> QED BY <1>0, <2>1, OrderParts DEF DeferredWait, QueueWait, DeferredOrder, QueueOrder, DeferredFirst
<1>11. ASSUME NEW p \in Paths PROVE Sound(status, p, First(p))
  <2>1. Ordered(First(p))
    <3> SUFFICES ASSUME NEW i \in 1..Written[p], NEW j \in 1..Written[p], i < j
                 PROVE  First(p)[i][2] < First(p)[j][2]
      BY FirstIs DEF Ordered
    <3>1. First(p)[i] = <<p, i>> /\ First(p)[j] = <<p, j>>
      BY FirstIs
    <3> QED BY <3>1
  <2>2. \A r \in Range(First(p)) : r[1] = p /\ status[p][r[2]] = "ok"
    <3> SUFFICES ASSUME NEW r \in Range(First(p)) PROVE r[1] = p /\ status[p][r[2]] = "ok"
      OBVIOUS
    <3>1. r[1] = p /\ r[2] \in 1..Written[p] /\ Written[p] \in Nat /\ Written[p] <= Len(Class[p])
          /\ Len(Class[p]) \in Nat
      BY FirstIs
    <3>2. r[2] \in 1..Len(Class[p]) /\ r[2] <= Written[p]
      BY <3>1
    <3> QED BY <1>5, <3>1, <3>2
  <2> QED BY <2>1, <2>2 DEF Sound
<1>12. CopiesInOrder
  <2>1. \A p \in Paths : \A s \in Copies(p) : s = First(p)
    BY <1>0, <1>1, <1>2, <1>3, <1>4 DEF Copies
  <2> QED BY <1>11, <2>1, CopiesParts
<1>13. JournalTrue
  <2>1. ArchivesTrue /\ StagesTrue
    BY <1>0 DEF ArchivesTrue, StagesTrue
  <2>2. TodoTrue
    BY <1>2, <1>3 DEF TodoTrue
  <2> QED BY <1>2, <1>3, <1>4, <2>1, <2>2, JournalParts
<1>14. NothingLost
  <2> SUFFICES ASSUME NEW p \in Paths, NEW k \in DOMAIN status[p], status[p][k] = "ok"
               PROVE  <<p, k>> \in Range(Bytes(p))
    BY LostParts
  <2>1. k \in 1..Len(Class[p]) /\ k <= Written[p]
    BY <1>5
  <2>2. k \in 1..Written[p]
    BY <1>5, <2>1
  <2>3. First(p)[k] = <<p, k>> /\ k \in DOMAIN First(p)
    BY <2>2, FirstIs
  <2> QED BY <1>1, <2>3 DEF Range
<1> QED BY <1>6, <1>7, <1>8, <1>9, <1>10, <1>12, <1>13, <1>14 DEF Core

\* A step that changes nothing keeps everything.
LEMMA Stutter ==
  ASSUME Core, NothingLost, UNCHANGED vars
  PROVE  Core' /\ NothingLost'
<1>0. UNCHANGED <<inode, used, live, handle, status, queue, leased, deferred, sent, token, own, lock,
                  manifest, archive, staging, faults, stops, edits>>
  BY DEF vars, sessions, writer, store
<1>1. TypeOK'
  BY <1>0 DEF Core, TypeOK
<1>2. LeaseHeld'
  BY <1>0 DEF Core, LeaseHeld
<1>3. HandleCurrent' /\ WorkFenced'
  BY <1>0 DEF Core, HandleCurrent, WorkFenced
<1>4. SendOrder'
  BY <1>0 DEF Core, SendOrder, Waiting
<1>5. CopiesInOrder'
  BY <1>0 DEF Core, CopiesInOrder, Copies, Bytes
<1>6. JournalTrue'
  BY <1>0 DEF Core, JournalTrue, Planned, Covers, Bytes, Replacement, Id
<1>7. NothingLost'
  BY <1>0 DEF NothingLost, Acked, Bytes
<1> QED BY <1>1, <1>2, <1>3, <1>4, <1>5, <1>6, <1>7 DEF Core

(***************************************************************************)
(* Summaries.  A summary stands for what a manifest has recorded, as long  *)
(* as one compaction is asked for at a time.                               *)
(***************************************************************************)
Entry(id, p) == FilesOf(manifest, id)[p]
Accounted(id, p, s) ==
    /\ id \in DOMAIN manifest /\ p \in Named(id) /\ id[p][1] < live[p]
    /\ Entry(id, p).stage \in {"staged", "committed"}
    /\ <<id, p>> \in DOMAIN archive /\ archive[<<id, p>>] = Entry(id, p).old
    /\ StartsWith(s, Entry(id, p).new)
SummariesTrue ==
    \A p \in Paths : \A s \in Copies(p) : \A r \in Range(s) : r[1] = "summary" => Accounted(r[2], p, s)
Unapplied ==
    \A o \in Compactions : \A p \in ToApply(o) : \A s \in Copies(p) :
        <<"summary", own[o].plan>> \notin Range(s)
StagedTrue ==
    \A o \in Compactions : own[o].pc \in {"verify", "rename", "renamed"} =>
        Entry(own[o].plan, own[o].path) = Journal("staged", own[o].bytes, Replacement(o))

LEMMA SummaryParts ==
  SummariesJournalled <=> SummariesTrue /\ Unapplied /\ StagedTrue
<1>1. SummariesJournalled => SummariesTrue /\ Unapplied /\ StagedTrue
  BY DEF SummariesJournalled, SummariesTrue, Unapplied, StagedTrue, Accounted, Entry, FilesOf, Held
<1>2. ASSUME SummariesTrue, Unapplied, StagedTrue PROVE SummariesJournalled
  BY <1>2 DEF SummariesJournalled, SummariesTrue, Unapplied, StagedTrue, Accounted, Entry, FilesOf, Held
<1> QED BY <1>1, <1>2

LEMMA SummaryRecord ==
  ASSUME NEW r \in Record, r[1] = "summary"
  PROVE  r = <<"summary", r[2]>> /\ r[2] \in Plans
<1>1. r \notin SessionRecord
  BY RecordIs, SummaryIs
<1>2. r \notin {"edit"} \X Nat
  OBVIOUS
<1>3. r \in {"summary"} \X Plans
  BY <1>1, <1>2 DEF Record
<1> QED BY <1>3

\* The entry of a summary is written again only to say that it is committed.
LEMMA EntryStays ==
  ASSUME Core, Unapplied, StagedTrue, Next, NEW p \in Paths, NEW s \in Copies(p), NEW id \in Plans,
         <<"summary", id>> \in Range(s), Accounted(id, p, s)
  PROVE  LET e == FilesOf(manifest', id)[p] IN
         /\ e.stage \in {"staged", "committed"}
         /\ e.old = Entry(id, p).old /\ e.new = Entry(id, p).new
<1>0. TypeOK /\ id \in DOMAIN manifest /\ p \in Named(id) /\ Entry(id, p).stage \in {"staged", "committed"}
  BY DEF Core, Accounted
<1> DEFINE Goal == /\ FilesOf(manifest', id)[p].stage \in {"staged", "committed"}
                   /\ FilesOf(manifest', id)[p].old = Entry(id, p).old
                   /\ FilesOf(manifest', id)[p].new = Entry(id, p).new
<1>1. ASSUME FilesOf(manifest', id)[p] = FilesOf(manifest, id)[p] PROVE Goal
  BY <1>0, <1>1 DEF Entry
<1> SUFFICES Goal
  OBVIOUS
<1> HIDE DEF Goal
<1>2. CASE ~ \E o \in Requests : WorkSteps(o)
  BY <1>1, <1>2, StoreQuiet DEF store, FilesOf
<1>3. ASSUME NEW o \in Requests, WorkSteps(o) PROVE Goal
  <2>1. CASE SameFiles
    BY <1>0, <1>1, <2>1 DEF SameFiles
  <2>2. CASE Plans1(o)
    <3>1. o \in Compactions /\ own[o].pc = "leased"
      BY <2>2 DEF Plans1
    <3>2. p \in ToApply(o) \/ id # own[o].plan
      BY <1>0, <3>1 DEF ToApply
    <3>3. id # own[o].plan
      BY <3>1, <3>2 DEF Unapplied
    <3> QED BY <1>0, <1>1, <2>2, <3>3 DEF Plans1
  <2>3. ASSUME NEW from \in Reading, NEW j, NEW to, Stages1(o, from, j, to)
        PROVE  \/ FilesOf(manifest', id)[p] = FilesOf(manifest, id)[p]
               \/ /\ id = own[o].plan /\ p = own[o].path /\ FilesOf(manifest', id)[p] = j
                  /\ own[o].pc = from /\ o \in Compactions
    <3>1. own[o].pc = from /\ own[o].pc \in Reading
      BY <2>3 DEF Stages1
    <3>2. o \in Compactions
      BY <3>1, InHand
    <3> QED BY <1>0, <2>3, <3>1, <3>2 DEF Stages1
  <2>4. ASSUME o \in Compactions, own[o].pc \in Reading \ {"renamed"}, id = own[o].plan, p = own[o].path
        PROVE  FALSE
    <3>1. p \in ToApply(o)
      BY <1>0, <2>4 DEF ToApply
    <3> QED BY <2>4, <3>1 DEF Unapplied
  <2>5. {"archived", "staged"} \subseteq Reading \ {"renamed"} /\ "renamed" \in Reading
    BY DEF Reading
  <2>6. CASE \/ Stages1(o, "archived", Journal("archived", own[o].bytes, <<>>), "stage")
             \/ Stages1(o, "staged", Journal("staged", own[o].bytes, Replacement(o)), "verify")
    BY <1>1, <2>3, <2>4, <2>5, <2>6
  <2>7. CASE Stages1(o, "renamed", Journal("committed", own[o].bytes, Replacement(o)), "next")
    <3> DEFINE j == Journal("committed", own[o].bytes, Replacement(o))
    <3>1. \/ FilesOf(manifest', id)[p] = FilesOf(manifest, id)[p]
          \/ /\ id = own[o].plan /\ p = own[o].path /\ FilesOf(manifest', id)[p] = j
             /\ own[o].pc = "renamed" /\ o \in Compactions
      BY <2>3, <2>5, <2>7
    <3>2. ASSUME id = own[o].plan, p = own[o].path, FilesOf(manifest', id)[p] = j,
                 own[o].pc = "renamed", o \in Compactions
          PROVE  Goal
      <4>1. Entry(id, p) = Journal("staged", own[o].bytes, Replacement(o))
        BY <3>2 DEF StagedTrue
      <4>2. Entry(id, p).old = own[o].bytes /\ Entry(id, p).new = Replacement(o)
        BY <4>1 DEF Journal
      <4>3. j.stage = "committed" /\ j.old = own[o].bytes /\ j.new = Replacement(o)
        BY DEF Journal
      <4> QED BY <3>2, <4>2, <4>3 DEF Goal
    <3> QED BY <1>1, <3>1, <3>2
  <2> QED BY <1>3, <2>1, <2>2, <2>6, <2>7, ManifestMoves
<1> QED BY <1>2, <1>3

LEMMA AccountedStays ==
  ASSUME Core, Unapplied, StagedTrue, Next, NEW p \in Paths, NEW s \in Copies(p), NEW id \in Plans,
         <<"summary", id>> \in Range(s), Accounted(id, p, s)
  PROVE  Accounted(id, p, s)'
<1>0. TypeOK /\ HandleCurrent /\ WorkFenced
  BY DEF Core
<1>1. /\ id \in DOMAIN manifest /\ p \in Named(id) /\ id[p][1] < live[p]
      /\ <<id, p>> \in DOMAIN archive /\ archive[<<id, p>>] = Entry(id, p).old
      /\ StartsWith(s, Entry(id, p).new)
  BY DEF Accounted
<1>2. id \in DOMAIN manifest' /\ <<id, p>> \in DOMAIN archive' /\ archive'[<<id, p>>] = archive[<<id, p>>]
  BY <1>1, ManifestStays, ArchiveMoves
<1>3. id[p][1] < live'[p]
  <2>1. (live'[p] = live[p] \/ live'[p] = used + 1) /\ live[p] \in 1..used /\ used \in Nat
    <3>1. live'[p] = live[p] \/ live'[p] = used + 1
      BY <1>0, InodesKept
    <3>2. live[p] \in 1..used
      BY <1>0, FileIs
    <3>3. used \in Nat
      BY <1>0, CompactionBounds DEF TypeOK
    <3> QED BY <3>1, <3>2, <3>3
  <2>2. id[p] \in (0..MaxInode) \X Nat
    BY DEF Plans
  <2>3. id[p][1] \in 0..MaxInode /\ MaxInode \in Nat
    BY <2>2, CompactionBounds
  <2> DEFINE n == id[p][1]
             m == live[p]
             l == live'[p]
  <2>4. n \in Int /\ n < m /\ (l = m \/ l = used + 1) /\ m \in 1..used /\ used \in Nat
    BY <1>1, <2>1, <2>3
  <2> HIDE DEF n, m, l
  <2>5. n < l
    BY <2>4
  <2> QED BY <2>5 DEF n, l
<1>4. PICK e : e = FilesOf(manifest', id)[p]
  OBVIOUS
<1>5. e.stage \in {"staged", "committed"} /\ e.old = Entry(id, p).old /\ e.new = Entry(id, p).new
  BY <1>4, EntryStays
<1>6. archive'[<<id, p>>] = e.old /\ StartsWith(s, e.new)
  BY <1>1, <1>2, <1>5
<1> QED BY <1>1, <1>2, <1>3, <1>4, <1>5, <1>6 DEF Accounted, Entry

LEMMA StartsMore ==
  ASSUME NEW s \in Seq(Record), NEW t \in Seq(Record), NEW r \in Record, StartsWith(s, t)
  PROVE  StartsWith(Append(s, r), t)
<1> DEFINE u == Append(s, r)
<1>1. u \in Seq(Record) /\ Len(u) = Len(s) + 1 /\ Len(s) \in Nat /\ Len(t) \in Nat
      /\ \A i \in 1..Len(s) : u[i] = s[i]
  OBVIOUS
<1> HIDE DEF u
<1>2. Len(t) <= Len(s) /\ \A i \in 1..Len(t) : s[i] = t[i]
  BY StartsIs
<1>3. Len(t) <= Len(u) /\ \A i \in 1..Len(t) : u[i] = t[i]
  BY <1>1, <1>2
<1>4. StartsWith(u, t)
  BY <1>1, <1>3, StartsIs
<1> QED BY <1>4 DEF u

\* An append brings no summary.
LEMMA AddedNoSummary ==
  ASSUME Core, NEW p \in Paths, Added(p), NEW r, r[1] = "summary", r \in Range(Bytes(p)')
  PROVE  r \in Range(Bytes(p)) /\ \E x \in Record : Bytes(p)' = Append(Bytes(p), x)
<1>1. PICK x \in Record : (Acks(p, x) \/ Edits(p, x)) /\ Bytes(p)' = Append(Bytes(p), x)
  BY DEF Added
<1>2. x[1] # "summary"
  BY <1>1, SummaryIs DEF Acks, Edits
<1>3. PICK b : b = Bytes(p)
  OBVIOUS
<1>4. b \in Seq(Record)
  BY <1>3, FileIs DEF Core
<1> DEFINE t == Append(b, x)
<1>5. \A k \in DOMAIN t : \/ k \in DOMAIN b /\ t[k] = b[k]
                          \/ k = Len(b) + 1 /\ t[k] = x
  BY <1>4, Appended
<1> HIDE DEF t
<1>6. \A y \in Range(t) : y \in Range(b) \/ y = x
  BY <1>5 DEF Range
<1>7. Bytes(p)' = t
  BY <1>1, <1>3 DEF t
<1> QED BY <1>1, <1>2, <1>3, <1>6, <1>7

LEMMA SummaryStep ==
  ASSUME Core, SummariesTrue, Unapplied, StagedTrue, Next
  PROVE  SummariesTrue'
<1>0. TypeOK /\ StagesTrue
  BY JournalParts DEF Core
<1>t. TypeOK'
  BY TypeStep
<1> SUFFICES ASSUME NEW p \in Paths, NEW s \in Copies(p)', NEW r \in Range(s), r[1] = "summary"
             PROVE  Accounted(r[2], p, s)'
  BY DEF SummariesTrue
<1>1. s \in Seq(Record) /\ r \in Record
  <2>1. s \in Seq(Record)
    <3>1. Bytes(p)' \in Seq(Record)
      <4>1. inode' \in [1..MaxInode -> Seq(Record)] /\ live' \in [Paths -> 1..used'] /\ used' \in 0..MaxInode
        BY <1>t DEF TypeOK
      <4>2. MaxInode \in Nat
        BY CompactionBounds
      <4>3. live'[p] \in 1..MaxInode
        BY <4>1, <4>2
      <4>4. inode'[live'[p]] \in Seq(Record)
        BY <4>1, <4>3
      <4> QED BY <4>4 DEF Bytes
    <3>2. s \in Copies(p) => s \in Seq(Record)
      BY <1>0, CopiesTyped
    <3> QED BY <3>1, <3>2, CopiesMove
  <2> QED BY <2>1 DEF Range
<1>2. PICK id : id = r[2]
  OBVIOUS
<1>3. r = <<"summary", id>> /\ id \in Plans
  BY <1>1, <1>2, SummaryRecord
<1>4. ASSUME NEW c \in Copies(p), r \in Range(c)
      PROVE  Accounted(id, p, c) /\ Accounted(id, p, c)'
  <2>1. Accounted(id, p, c)
    BY <1>2, <1>4 DEF SummariesTrue
  <2> QED BY <1>3, <1>4, <2>1, AccountedStays
<1>5. CASE s \in Copies(p)
  BY <1>2, <1>4, <1>5
<1>e. PICK e : e = FilesOf(manifest', id)[p]
  OBVIOUS
<1>6. CASE Added(p) /\ s = Bytes(p)'
  <2>1. PICK b : b = Bytes(p)
    OBVIOUS
  <2>2. PICK x \in Record : r \in Range(b) /\ s = Append(b, x)
    BY <1>6, <2>1, AddedNoSummary
  <2>3. b \in Copies(p) /\ b \in Seq(Record)
    BY <1>0, <2>1, CopiesAre, FileIs
  <2>4. Accounted(id, p, b)'
    BY <1>4, <2>2, <2>3
  <2>5. StartsWith(b, e.new) /\ id \in DOMAIN manifest' /\ p \in Named(id)
    BY <1>e, <2>4 DEF Accounted, Entry
  <2>6. e.new \in Seq(Record)
    <3>1. Manifests(manifest')
      BY StoreTyped
    <3>2. FilesOf(manifest', id) \in [Named(id) -> JournalRecord]
      BY <2>5, <3>1 DEF Manifests, FilesOf
    <3>3. e \in JournalRecord
      BY <1>e, <2>5, <3>2
    <3> QED BY <3>3 DEF JournalRecord
  <2>7. StartsWith(s, e.new)
    BY <2>2, <2>3, <2>5, <2>6, StartsMore
  <2> QED BY <1>2, <1>e, <2>4, <2>7 DEF Accounted, Entry
<1>7. CASE Rewritten(p) /\ s = Bytes(p)'
  <2>1. PICK o \in Requests : Rename(o) /\ own[o].pc = "rename" /\ own[o].path = p /\ s = Replacement(o)
                              /\ live'[p] = used + 1
    BY <1>7 DEF Rewritten
  <2>2. PICK i, b : i = own[o].plan /\ b = own[o].bytes
    OBVIOUS
  <2>3. own[o].pc \in Reading /\ own[o].pc # "archive" /\ own[o].pc # "renamed"
    BY <2>1 DEF Reading
  <2>4. /\ i \in Plans /\ p \in Paths /\ p \in leased /\ b \in Seq(Record)
        /\ Panes(b) # {} /\ Pinned(i, p) /\ b = Planned(i, p)
        /\ own[o].pc # "archive" => <<i, p>> \in DOMAIN archive /\ archive[<<i, p>>] = b
        /\ own[o].pc # "renamed" => Covers(b, p)
        /\ own[o].pc \in {"staged", "verify", "rename"} => staging[p].bytes = Compacted(b, i)
        /\ Replacement(o) = Compacted(b, i) /\ own[o].pc \in Working
    BY <2>1, <2>2, <2>3, HandWas
  <2>5. s = Compacted(b, i) /\ UNCHANGED <<manifest, archive>>
    BY <2>1, <2>4 DEF Rename
  <2>6. r \in Range(b) \/ r = <<"summary", i>>
    BY <2>4, <2>5, CompactedKeeps
  <2>7. CASE r \in Range(b)
    <3>1. b \in Copies(p)
      BY <2>1, <2>2, <2>3, CopiesAre
    <3>2. Accounted(id, p, b) /\ Accounted(id, p, b)'
      BY <1>4, <2>7, <3>1
    <3>3. /\ e.stage \in {"staged", "committed"} /\ StartsWith(b, e.new) /\ id \in DOMAIN manifest
          /\ p \in Named(id) /\ e = FilesOf(manifest, id)[p]
      BY <1>e, <2>5, <3>2 DEF Accounted, Entry
    <3>4. e \in JournalRecord /\ StageTrue(e, id, p, archive)
      BY <1>0, <3>3, ManifestIs DEF StagesTrue
    <3>5. PICK c : c = e.old
      OBVIOUS
    <3>6. c \in Seq(Record) /\ Panes(c) # {} /\ e.new = Compacted(c, id)
      BY <3>3, <3>4, <3>5 DEF StageTrue, Described, JournalRecord
    <3>7. PICK n : n = e.new
      OBVIOUS
    <3>8. n \in Seq(Record) /\ Panes(n) = {}
      BY <1>3, <3>6, <3>7, CompactedKeeps
    <3>9. StartsWith(b, n)
      BY <3>3, <3>7
    <3>10. StartsWith(Compacted(b, i), n)
      BY <2>4, <3>8, <3>9, CompactedStarts
    <3> QED BY <1>2, <1>e, <2>5, <3>2, <3>7, <3>10 DEF Accounted, Entry
  <2>8. CASE r = <<"summary", i>>
    <3>1. id = i
      BY <1>2, <2>8
    <3>2. i \in DOMAIN manifest /\ p \in Named(i) /\ o \in Compactions
      BY <2>1, <2>2, <2>3, InHand
    <3>3. Entry(i, p) = Journal("staged", b, s)
      BY <2>1, <2>2, <3>2 DEF StagedTrue
    <3>4. e = Journal("staged", b, s)
      BY <1>e, <2>5, <3>1, <3>3 DEF Entry, FilesOf
    <3>5. e.stage = "staged" /\ e.old = b /\ e.new = s
      BY <3>4 DEF Journal
    <3>6. i[p][1] < live'[p]
      <4>1. i[p][1] \in 1..used /\ used \in Nat
        BY <1>0, <2>4, CompactionBounds DEF Pinned, TypeOK
      <4> QED BY <2>1, <4>1
    <3>7. StartsWith(s, s)
      BY <1>1, StartsIs
    <3>8. <<i, p>> \in DOMAIN archive' /\ archive'[<<i, p>>] = b
      BY <2>3, <2>4, <2>5
    <3>9. i \in DOMAIN manifest'
      BY <2>5, <3>2
    <3> QED BY <1>2, <1>e, <3>1, <3>2, <3>5, <3>6, <3>7, <3>8, <3>9 DEF Accounted, Entry
  <2> QED BY <2>6, <2>7, <2>8
<1> QED BY <1>5, <1>6, <1>7, CopiesMove

LEMMA TodoShrinks ==
  ASSUME TypeOK, NEW o \in Requests, WorkSteps(o), own[o].pc \in Working, own'[o].pc \in Working
  PROVE  own'[o].todo \subseteq own[o].todo
<1>0. own[o].pc # "leased" /\ own'[o].pc # "releasing"
  BY PcsAre
<1>1. ASSUME Over(o) PROVE FALSE
  <2>1. Ends(o)
    BY <1>1, OverMoves
  <2> QED BY <1>0, <2>1 DEF Ends
<1>2. ASSUME NEW pc \in Pcs, Go(o, pc) PROVE own'[o].todo \subseteq own[o].todo
  BY <1>2, GoMoves DEF Go, SameWork
<1>3. {"archived", "refused", "stage", "staged", "rename", "renamed", "next", "restore", "verify"} \subseteq Pcs
  BY DEF Pcs, Holding, Working, Reading
<1>4. ~Apply(o) /\ ~BeginRollback(o)
  BY <1>0 DEF Apply, BeginRollback, At
<1>5. CASE NextFile(o)
  BY <1>1, <1>5, NextFileIs
<1>6. CASE Restore(o)
  BY <1>1, <1>6, RestoreIs
<1>7. CASE Archive(o) \/ Stage(o) \/ Verify(o) \/ Rename(o) \/ Swap(o)
  <2>1. \E pc \in Pcs : Go(o, pc)
    BY <1>3, <1>7 DEF Archive, Stage, Verify, Rename, Swap
  <2> QED BY <1>2, <2>1
<1>8. CASE JournalArchived(o) \/ JournalStaged(o) \/ JournalRefused(o) \/ JournalCommitted(o)
  <2>1. \E pc \in Pcs : Go(o, pc)
    BY <1>1, <1>3, <1>8 DEF JournalArchived, JournalStaged, JournalRefused, JournalCommitted, WriteJournal
  <2> QED BY <1>2, <2>1
<1> QED BY <1>4, <1>5, <1>6, <1>7, <1>8 DEF WorkSteps

\* A request that is not at work yet has its plan from the moment it was asked.
LEMMA Asking ==
  ASSUME Core, Next, NEW o \in Requests, own'[o].pc \in {"asked", "waiting", "leased"}
  PROVE  \/ own'[o] = own[o]
         \/ own[o].pc \in {"asked", "waiting"} /\ own'[o].plan = own[o].plan
         \/ own[o].pc = "idle" /\ (o \in Compactions => own'[o].plan = Plan)
<1>0. TypeOK /\ Commands
  BY LeaseParts DEF Core
<1> DEFINE Goal == \/ own'[o] = own[o]
                   \/ own[o].pc \in {"asked", "waiting"} /\ own'[o].plan = own[o].plan
                   \/ own[o].pc = "idle" /\ (o \in Compactions => own'[o].plan = Plan)
<1>a. ASSUME UNCHANGED own PROVE Goal
  BY <1>a
<1>b. ASSUME NEW q \in Requests, Rest(q), q # o PROVE Goal
  BY <1>b DEF Rest
<1> SUFFICES Goal
  OBVIOUS
<1>1. ASSUME NEW q \in Requests, WorkSteps(q) PROVE Goal
  <2>1. Rest(q) /\ (Carries(q) \/ Begins(q) \/ Ends(q))
    BY <1>0, <1>1, WorkMoves
  <2>2. own'[q].pc \notin {"asked", "waiting", "leased"}
    BY <2>1, PcsAre DEF Carries, Begins, Ends
  <2> QED BY <1>b, <2>1, <2>2
<1>2. ASSUME NEW q \in Requests, AskCompact(q) \/ AskRollback(q) \/ QueueLease(q) PROVE Goal
  <2>1. /\ Rest(q)
        /\ \/ own[q].pc = "idle" /\ (q \in Compactions => own'[q].plan = Plan)
           \/ own[q].pc = "asked" /\ own'[q].plan = own[q].plan
    BY <1>0, <1>2, AskIs DEF SameWork
  <2>2. CASE q = o
    BY <2>1, <2>2
  <2> QED BY <1>b, <2>1, <2>2
<1>3. CASE GrantLease
  <2>1. PICK q : q = queue[1].rec
    OBVIOUS
  <2>2. /\ queue[1].op = "lease" /\ q \in Requests /\ Rest(q)
        /\ own'[q].pc = "done" \/ own'[q].plan = own[q].plan
    BY <1>0, <1>3, <2>1, GrantIs DEF SameWork
  <2>3. Head1("lease")
    BY <1>3 DEF GrantLease
  <2>4. 1 \in DOMAIN queue
    BY <1>0, <2>3, HeadIs
  <2>5. own[q].pc = "waiting"
    BY <1>0, <2>1, <2>2, <2>4 DEF Commands
  <2>6. CASE q = o
    BY <2>2, <2>5, <2>6
  <2> QED BY <1>b, <2>2, <2>6
<1>4. CASE EndLease
  <2>1. PICK q : q = queue[1].rec
    OBVIOUS
  <2>2. q \in Requests /\ Rest(q) /\ own'[q].pc = "done"
    BY <1>0, <1>4, <2>1, ReleaseIs
  <2>3. q # o
    BY <2>2
  <2> QED BY <1>b, <2>2, <2>3
<1>5. CASE DeferAppend \/ RunAppend \/ DryRun \/ \E p \in Paths : Send(p) \/ Edit(p)
  BY <1>a, <1>5, OthersIs
<1>6. CASE DaemonDies
  <2>1. own'[o].pc = "idle"
    BY <1>6, DeathIs, IdleIs
  <2> QED BY <2>1
<1> QED BY <1>1, <1>2, <1>3, <1>4, <1>5, <1>6, NextCases

\* A path still to be compacted under a plan was so before, or the plan is one just made.
LEMMA ToApplyMoves ==
  ASSUME Core, Next, NEW o \in Compactions, NEW p \in ToApply(o)'
  PROVE  \/ p \in ToApply(o) /\ own'[o].plan = own[o].plan
         \/ own'[o].plan = Plan /\ p \in Named(Plan)
<1>0. TypeOK /\ o \in Requests
  BY DEF Core, Requests
<1>1. /\ p \in Named(own'[o].plan)
      /\ \/ own'[o].pc \in {"asked", "waiting", "leased"}
         \/ own'[o].pc \in Working /\ p \in own'[o].todo
         \/ own'[o].pc \in Reading \ {"renamed"} /\ p = own'[o].path
  BY DEF ToApply
<1>2. CASE own'[o] = own[o]
  BY <1>1, <1>2 DEF ToApply
<1>3. CASE own'[o].pc \in {"asked", "waiting", "leased"}
  <2>1. CASE own[o].pc \in {"asked", "waiting"} /\ own'[o].plan = own[o].plan
    BY <1>1, <2>1 DEF ToApply
  <2>2. CASE own'[o].plan = Plan
    BY <1>1, <2>2
  <2> QED BY <1>0, <1>2, <1>3, <2>1, <2>2, Asking
<1>4. CASE own'[o].pc \in Working /\ WorkSteps(o)
  <2>1. own'[o].plan = own[o].plan /\ (Carries(o) \/ Begins(o) \/ Ends(o))
    BY <1>0, <1>4, WorkMoves
  <2>2. own'[o].pc # "releasing"
    BY <1>4, PcsAre
  <2>3. CASE Begins(o)
    BY <1>1, <2>1, <2>3 DEF Begins, ToApply
  <2>4. CASE own[o].pc \in Working
    <3>1. own'[o].todo \subseteq own[o].todo
      BY <1>0, <1>4, <2>4, TodoShrinks
    <3>2. CASE p \in own'[o].todo
      BY <1>1, <2>1, <2>4, <3>1, <3>2 DEF ToApply
    <3>3. CASE own'[o].pc \in Reading \ {"renamed"} /\ p = own'[o].path
      <4>1. (\E q \in own[o].todo : Takes(o, q)) \/ Continues(o)
        BY <1>0, <1>4, <3>3, WorkHand
      <4>2. CASE \E q \in own[o].todo : Takes(o, q)
        <5>1. p \in own[o].todo
          BY <3>3, <4>2 DEF Takes
        <5> QED BY <1>1, <2>1, <2>4, <5>1 DEF ToApply
      <4>3. CASE Continues(o)
        <5>1. own[o].path = p /\ own[o].pc \in Reading \ {"renamed"}
          BY <3>3, <4>3 DEF Continues, SameWork, Reading
        <5> QED BY <1>1, <2>1, <5>1 DEF ToApply
      <4> QED BY <4>1, <4>2, <4>3
    <3>4. own'[o].pc \notin {"asked", "waiting", "leased"}
      BY <1>4, PcsAre
    <3> QED BY <1>1, <3>2, <3>3, <3>4
  <2> QED BY <2>1, <2>2, <2>3, <2>4 DEF Carries, Ends
<1>5. CASE own'[o].pc \in Working /\ ~WorkSteps(o)
  BY <1>0, <1>2, <1>5, OwnStays
<1> QED BY <1>1, <1>3, <1>4, <1>5, PcsAre

LEMMA UnappliedStep ==
  ASSUME Core, OneAtATime, SummariesTrue, Unapplied, Next
  PROVE  Unapplied'
<1>0. TypeOK
  BY DEF Core
<1> SUFFICES ASSUME NEW o \in Compactions, NEW p \in ToApply(o)', NEW s \in Copies(p)',
                    <<"summary", own'[o].plan>> \in Range(s)
             PROVE  FALSE
  BY DEF Unapplied
<1>1. PICK id, r : id = own'[o].plan /\ r = <<"summary", id>>
  OBVIOUS
<1>2. r[1] = "summary" /\ r[2] = id /\ r \in Range(s) /\ o \in Requests
  BY <1>1 DEF Requests
<1>3. \/ p \in ToApply(o) /\ own[o].plan = id
      \/ id = Plan /\ p \in Named(Plan)
  BY <1>1, ToApplyMoves
<1>4. p \in Paths
  <2>1. ToApply(o) \subseteq Paths
    BY <1>0, <1>2, OwnIs, PlanIs DEF ToApply
  <2>2. Named(Plan) \subseteq Paths
    BY DEF Named
  <2> QED BY <1>3, <2>1, <2>2
<1>5. ASSUME NEW c \in Copies(p), r \in Range(c) PROVE FALSE
  <2>1. CASE p \in ToApply(o) /\ own[o].plan = id
    BY <1>1, <1>5, <2>1 DEF Unapplied
  <2>2. CASE id = Plan /\ p \in Named(Plan)
    <3>1. Accounted(id, p, c)
      BY <1>2, <1>4, <1>5 DEF SummariesTrue
    <3>2. id[p][1] < live[p]
      BY <3>1 DEF Accounted
    <3>3. id[p] = Fingerprint(p)
      BY <1>0, <2>2, PlanIs
    <3>4. id[p][1] = live[p] /\ live[p] \in 1..used /\ used \in Nat
      BY <1>0, <1>4, <3>3, FileIs, CompactionBounds DEF Fingerprint, TypeOK
    <3> QED BY <3>2, <3>4
  <2> QED BY <1>3, <2>1, <2>2
<1>6. CASE s \in Copies(p)
  BY <1>2, <1>5, <1>6
<1>7. CASE Added(p) /\ s = Bytes(p)'
  <2>1. r \in Range(Bytes(p)')
    BY <1>2, <1>7
  <2>2. r \in Range(Bytes(p))
    BY <1>2, <1>4, <1>7, <2>1, AddedNoSummary
  <2> QED BY <1>5, <2>2, CopiesAre
<1>8. CASE Rewritten(p)
  <2>1. PICK q \in Requests : Rename(q) /\ own[q].pc = "rename" /\ own[q].path = p
    BY <1>8 DEF Rewritten
  <2>2. own[q].pc \in Reading
    BY <2>1 DEF Reading
  <2>3. q \in Compactions /\ p \notin own[q].todo
    BY <2>1, <2>2, InHand
  <2>4. q = o
    <3>1. ASSUME q # o PROVE own'[o] = own[o]
      <4>1. Rest(q)
        BY <1>0, <2>1, WorkMoves DEF WorkSteps
      <4> QED BY <1>2, <3>1, <4>1 DEF Rest
    <3>2. own'[o].pc \in Busy
      BY PcsAre DEF ToApply, Busy
    <3>3. own[q].pc \in Busy
      BY <2>1, PcsAre DEF Busy
    <3> QED BY <2>3, <3>1, <3>2, <3>3 DEF OneAtATime
  <2>5. \E pc \in {"renamed", "refused"} : Go(o, pc)
    BY <2>1, <2>4 DEF Rename
  <2>6. {"renamed", "refused"} \subseteq Pcs
    BY DEF Pcs, Holding, Working, Reading
  <2>7. own'[o].pc \in {"renamed", "refused"} /\ own'[o].todo = own[o].todo
    BY <1>0, <1>2, <2>5, <2>6, GoMoves DEF Go, SameWork
  <2>8. \/ own'[o].pc \in {"asked", "waiting", "leased"}
        \/ p \in own'[o].todo
        \/ own'[o].pc \in Reading \ {"renamed"}
    BY DEF ToApply
  <2> QED BY <2>3, <2>4, <2>7, <2>8 DEF Reading
<1> QED BY <1>4, <1>6, <1>7, <1>8, CopiesMove

LEMMA StagedStep ==
  ASSUME Core, StagedTrue, Next
  PROVE  StagedTrue'
<1>0. TypeOK
  BY DEF Core
<1> SUFFICES ASSUME NEW o \in Compactions, own'[o].pc \in {"verify", "rename", "renamed"}
             PROVE  FilesOf(manifest', own'[o].plan)[own'[o].path] =
                      Journal("staged", own'[o].bytes, Compacted(own'[o].bytes, own'[o].plan))
  BY DEF StagedTrue, Entry, FilesOf, Replacement, Id
<1>1. o \in Requests /\ own'[o].pc \in Reading /\ own'[o].pc \in Working
  BY DEF Requests, Reading, Working
<1>2. PICK i, p, b : i = own[o].plan /\ p = own[o].path /\ b = own[o].bytes
  OBVIOUS
<1>3. ASSUME own[o].pc \in Reading
      PROVE  i \in DOMAIN manifest /\ p \in Named(i) /\ Replacement(o) = Compacted(b, i)
             /\ b \in Seq(Record) /\ Replacement(o) \in Seq(Record)
  BY <1>1, <1>2, <1>3, InHand
<1>4. ASSUME own[o].pc \in {"verify", "rename", "renamed"},
             own'[o].plan = i, own'[o].path = p, own'[o].bytes = b, SameFiles
      PROVE  FilesOf(manifest', own'[o].plan)[own'[o].path] =
                      Journal("staged", own'[o].bytes, Compacted(own'[o].bytes, own'[o].plan))
  <2>1. own[o].pc \in Reading
    BY <1>4 DEF Reading
  <2>2. Entry(i, p) = Journal("staged", b, Compacted(b, i))
    BY <1>2, <1>3, <1>4, <2>1 DEF StagedTrue
  <2>3. FilesOf(manifest', i) = FilesOf(manifest, i)
    BY <1>3, <1>4, <2>1 DEF SameFiles
  <2> QED BY <1>4, <2>2, <2>3 DEF Entry
<1>5. CASE WorkSteps(o)
  <2>1. (\E q \in own[o].todo : Takes(o, q)) \/ Continues(o)
    BY <1>0, <1>1, <1>5, WorkHand
  <2>2. Continues(o)
    BY <2>1 DEF Takes
  <2>3. own'[o].plan = i /\ own'[o].path = p /\ own'[o].bytes = b
    BY <1>2, <2>2 DEF Continues, SameWork
  <2>4. CASE own[o].pc = "staged" /\ JournalStaged(o)
    <3>1. own[o].pc \in Reading /\ own'[o].pc # "releasing"
      BY <1>1, <2>4, PcsAre DEF Reading
    <3>2. WriteJournal(o, "staged", Journal("staged", own[o].bytes, Replacement(o)), "verify")
      BY <2>4 DEF JournalStaged
    <3>3. PICK j : j = Journal("staged", own[o].bytes, Replacement(o))
      OBVIOUS
    <3>4. WriteJournal(o, "staged", j, "verify")
      BY <3>2, <3>3
    <3>5. "staged" \in Working /\ "verify" \in Working
      BY PcsAre
    <3>6. /\ own' \in [Requests -> Request] /\ SameWork(o) /\ Rest(o) /\ own[o].pc = "staged"
          /\ \/ Carries(o) /\ own'[o].pc = "verify" /\ Journalled(o, j)
             \/ Ends(o) /\ UNCHANGED manifest
      BY <1>0, <1>1, <3>4, <3>5, JournalMoves
    <3>7. Journalled(o, j)
      BY <3>1, <3>6 DEF Ends
    <3>8. j \in JournalRecord
      BY <1>2, <1>3, <3>1, <3>3, JournalIs
    <3>9. Id(o) \in DOMAIN manifest
      BY <1>2, <1>3, <3>1 DEF Id
    <3>10. Cur(o) \in Named(Id(o))
      BY <1>2, <1>3, <3>1 DEF Id, Cur
    <3>11. \A x \in DOMAIN manifest : \A q \in Named(x) :
               FilesOf(manifest', x)[q] =
                 IF x = Id(o) /\ q = Cur(o) THEN j ELSE FilesOf(manifest, x)[q]
      BY <1>0, <1>1, <3>7, <3>8, <3>9, <3>10, Journalling
    <3>12. FilesOf(manifest', i)[p] = j
      BY <1>2, <3>9, <3>10, <3>11 DEF Id, Cur
    <3> QED BY <1>2, <1>3, <2>3, <3>1, <3>3, <3>12
  <2>5. CASE /\ own[o].pc \in {"verify", "rename"} /\ (Verify(o) \/ Rename(o))
    <3>1. UNCHANGED manifest
      BY <2>5 DEF Verify, Rename
    <3>2. SameFiles
      BY <3>1 DEF SameFiles
    <3>3. own[o].pc \in {"verify", "rename", "renamed"}
      BY <2>5
    <3> QED BY <1>4, <2>3, <3>2, <3>3
  <2> QED BY <2>2, <2>4, <2>5 DEF Continues
<1>6. CASE ~WorkSteps(o)
  <2>1. own'[o] = own[o]
    BY <1>0, <1>1, <1>6, OwnStays
  <2>2. SameFiles
    BY <1>1, <1>6, <2>1, WhileWorking
  <2> QED BY <1>2, <1>4, <2>1, <2>2
<1> QED BY <1>5, <1>6

LEMMA SummariesStep ==
  ASSUME Core, OneAtATime, SummariesJournalled, Next
  PROVE  SummariesJournalled'
<1>1. SummariesTrue /\ Unapplied /\ StagedTrue
  BY SummaryParts
<1>2. SummariesTrue' /\ Unapplied' /\ StagedTrue'
  BY <1>1, SummaryStep, UnappliedStep, StagedStep
<1>3. SummariesTrue' /\ Unapplied' /\ StagedTrue' => SummariesJournalled'
  BY DEF SummariesJournalled, SummariesTrue, Unapplied, StagedTrue, Accounted, Entry, FilesOf, Held
<1> QED BY <1>2, <1>3

LEMMA SummariesStutter ==
  ASSUME SummariesJournalled, UNCHANGED vars
  PROVE  SummariesJournalled'
<1>1. UNCHANGED <<inode, used, live, own, manifest, archive, staging>>
  BY DEF vars, sessions, store
<1>2. \A p : Copies(p)' = Copies(p)
  BY <1>1 DEF Copies, Bytes
<1>3. \A o : ToApply(o)' = ToApply(o)
  BY <1>1 DEF ToApply
<1> QED BY <1>1, <1>2, <1>3 DEF SummariesJournalled, Held, Replacement, Id

LEMMA InitSummaries ==
  ASSUME Init
  PROVE  SummariesJournalled
<1>1. /\ \A o \in Requests : own[o].pc = "idle"
      /\ DOMAIN archive = {}
  <2>1. own = [o \in Requests |-> Idle] /\ archive = Nothing
    BY DEF Init
  <2> QED BY <2>1, IdleIs DEF Nothing
<1>2. "idle" \notin Reading /\ "idle" \notin Working
  BY PcsAre
<1>3. SummariesTrue
  <2> SUFFICES ASSUME NEW p \in Paths, NEW s \in Copies(p), NEW r \in Range(s), r[1] = "summary"
               PROVE  FALSE
    BY DEF SummariesTrue
  <2>1. s = Bytes(p)
    BY <1>1, <1>2 DEF Copies
  <2>2. s = First(p)
    BY <2>1, InitFiles
  <2>3. r[1] = p
    BY <2>2, FirstIs
  <2> QED BY <2>3, SummaryIs
<1>4. \A o \in Compactions : ToApply(o) = {} /\ own[o].pc = "idle"
  BY <1>1, <1>2 DEF ToApply, Requests
<1>5. Unapplied /\ StagedTrue
  BY <1>4 DEF Unapplied, StagedTrue
<1> QED BY <1>3, <1>5, SummaryParts

LEMMA SameSequence ==
  ASSUME NEW s \in Seq(Record), NEW t \in Seq(Record), StartsWith(s, t), Len(s) = Len(t)
  PROVE  s = t
<1>1. \A i \in 1..Len(t) : s[i] = t[i]
  BY StartsIs
<1> QED BY <1>1

LEMMA UndoableFrom ==
  ASSUME Core, SummariesJournalled
  PROVE  Undoable
<1>0. TypeOK /\ StagesTrue /\ SummariesTrue
  BY JournalParts, SummaryParts DEF Core
<1> SUFFICES ASSUME NEW p \in Paths, NEW id \in DOMAIN manifest, <<"summary", id>> \in Range(Bytes(p))
             PROVE  LET j == FilesOf(manifest, id)[p] IN
                    /\ j.stage \in {"staged", "committed"} /\ <<id, p>> \in DOMAIN archive
                    /\ archive[<<id, p>>] = j.old
                    /\ j.new = Compacted(j.old, id)
                    /\ Len(Bytes(p)) = Len(j.new) => Bytes(p) = j.new
  BY DEF Undoable, Held, FilesOf
<1>1. PICK j, s : j = FilesOf(manifest, id)[p] /\ s = Bytes(p)
  OBVIOUS
<1>2. s \in Copies(p) /\ s \in Seq(Record) /\ <<"summary", id>> \in Range(s)
  BY <1>0, <1>1, CopiesAre, FileIs
<1>3. Accounted(id, p, s)
  <2>1. PICK r : r = <<"summary", id>>
    OBVIOUS
  <2>2. r \in Range(s) /\ r[1] = "summary" /\ r[2] = id
    BY <1>2, <2>1
  <2> QED BY <1>0, <1>2, <2>2 DEF SummariesTrue
<1>4. /\ p \in Named(id) /\ j.stage \in {"staged", "committed"} /\ <<id, p>> \in DOMAIN archive
      /\ archive[<<id, p>>] = j.old /\ StartsWith(s, j.new)
  BY <1>1, <1>3 DEF Accounted, Entry
<1>5. j \in JournalRecord
  BY <1>0, <1>1, <1>4, ManifestIs
<1>6. StageTrue(j, id, p, archive)
  BY <1>0, <1>1, <1>4 DEF StagesTrue
<1>7. j.new = Compacted(j.old, id) /\ j.new \in Seq(Record)
  BY <1>4, <1>5, <1>6 DEF StageTrue, Described, JournalRecord
<1>8. Len(s) = Len(j.new) => s = j.new
  BY <1>2, <1>4, <1>7, SameSequence
<1> QED BY <1>1, <1>4, <1>7, <1>8

(***************************************************************************)
(* The inductive invariant, and what follows from it.                      *)
(***************************************************************************)
Invariant == Core /\ NothingLost

LEMMA CoreStep ==
  ASSUME Core, Next
  PROVE  Core'
<1>1. TypeOK' /\ LeaseHeld' /\ HandleCurrent' /\ WorkFenced'
  BY TypeStep, LeaseStep, HandleStep, FenceStep
<1>2. SendOrder' /\ CopiesInOrder' /\ JournalTrue'
  BY OrderStep, CopiesStep, JournalStep
<1> QED BY <1>1, <1>2 DEF Core

LEMMA InvariantStep ==
  ASSUME Invariant, [Next]_vars
  PROVE  Invariant'
<1>0. Core /\ NothingLost
  BY DEF Invariant
<1>1. CASE Next
  BY <1>0, <1>1, CoreStep, LostStep DEF Invariant
<1>2. CASE UNCHANGED vars
  BY <1>0, <1>2, Stutter DEF Invariant
<1> QED BY <1>1, <1>2

LEMMA InvariantHolds == Spec => []Invariant
<1>1. Init => Invariant
  BY InitCore DEF Invariant
<1>2. Invariant /\ [Next]_vars => Invariant'
  BY InvariantStep
<1> QED BY <1>1, <1>2, PTL DEF Spec

\* The writer, the leases, the flock, the journal and the archives agree with each other in
\* every state (the session commands of writer.rs, apply_compaction, rollback_compaction).
THEOREM CompactionInvariant == Spec => []CompactionInv
<1>1. Invariant => CompactionInv
  BY DEF Invariant, Core, CompactionInv
<1> QED BY <1>1, InvariantHolds, PTL

\* An acknowledged record is never lost: it is in the file its path names, or it is pane
\* output and in an archive that a manifest names, whatever lease, rename, refusal, failure
\* or death of the daemon came between (run_session_append, compact_one_file, rollback).
THEOREM AcknowledgedKept == Spec => []NothingLost
<1>1. Invariant => NothingLost
  BY DEF Invariant
<1> QED BY <1>1, InvariantHolds, PTL

\* The records of a session stay in the order they were sent, through the deferral behind
\* a lease (ReleaseSessions), compaction (build_compacted) and rollback.
THEOREM RecordsInOrder == Spec => []OrderKept
<1>1. Invariant => OrderKept
  BY OrderFromCopies DEF Invariant, Core
<1> QED BY <1>1, InvariantHolds, PTL

LEMMA SummariesHold == Spec /\ []OneAtATime => []SummariesJournalled
<1>1. Init => SummariesJournalled
  BY InitSummaries
<1>2. Invariant /\ OneAtATime /\ SummariesJournalled /\ [Next]_vars => SummariesJournalled'
  <2> SUFFICES ASSUME Invariant, OneAtATime, SummariesJournalled, [Next]_vars
               PROVE  SummariesJournalled'
    OBVIOUS
  <2>1. Core
    BY DEF Invariant
  <2>2. CASE Next
    BY <2>1, <2>2, SummariesStep
  <2>3. CASE UNCHANGED vars
    BY <2>3, SummariesStutter
  <2> QED BY <2>2, <2>3
<1> QED BY <1>1, <1>2, InvariantHolds, PTL DEF Spec

\* As long as no compaction is asked for before the last one has given its lease back, what
\* each took out of a file can be put back, through any rollback, failure or death of the
\* daemon (write_manifest, archive_original, rollback_compaction).  Two that overlap refute
\* it: the second replaces the manifest of the first.
THEOREM CompactionUndoable == Spec /\ []OneAtATime => []Undoable
<1>1. Invariant /\ SummariesJournalled => Undoable
  BY UndoableFrom DEF Invariant
<1> QED BY <1>1, InvariantHolds, SummariesHold, PTL
=============================================================================
