----------------------------- MODULE SpotsProofs -----------------------------
(***************************************************************************)
(* What the lists of spots are that the queries of the app give, for any   *)
(* spots and keys: each row once, in an order, cut off or filtered.        *)
(***************************************************************************)
EXTENDS Spots, Functions, WellFoundedInduction, FiniteSetTheorems, SequenceTheorems, TLAPS

---------------------------------------------------------------------------
\* Induction along an interval, without an operator for what is shown by it.

LEMMA LeastOf ==
    ASSUME NEW T \in SUBSET Nat, T # {}
    PROVE  \E m \in T : \A k \in T : m <= k
<1> DEFINE R == {ss \in Nat \X Nat : ss[1] < ss[2]}
<1>1. IsWellFoundedOn(R, Nat)
  BY NatLessThanWellFounded DEF OpToRel
<1>2. PICK m \in T : \A k \in T : ~(<<k, m>> \in R)
  <2> HIDE DEF R
  <2>1. T \subseteq Nat /\ T # {}
    OBVIOUS
  <2>2. \E m \in T : \A k \in T : ~(<<k, m>> \in R)
    BY ONLY <1>1, <2>1, WFMin, Zenon
  <2> QED
    BY <2>2
<1>3. \A k \in T : ~(k < m)
  BY <1>2
<1> QED
  BY <1>2, <1>3

\* What holds at 0 and is passed on holds up to n.
LEMMA Inducts ==
    ASSUME NEW n \in Nat, NEW T, 0 \in T, \A i \in 1..n : i - 1 \in T => i \in T
    PROVE  0..n \subseteq T
<1> DEFINE left == {i \in 0..n : i \notin T}
<1> SUFFICES ASSUME left # {} PROVE FALSE
  OBVIOUS
<1>1. left \subseteq Nat
  OBVIOUS
<1>2. PICK m \in left : \A k \in left : m <= k
  <2> HIDE DEF left
  <2> QED
    BY <1>1, LeastOf
<1>3. m \in 1..n /\ m - 1 \in 0..n /\ ~(m <= m - 1)
  BY <1>2
<1>4. m - 1 \in T
  BY <1>2, <1>3
<1> QED
  BY <1>2, <1>3, <1>4

\* A function of an interval that is defined step by step.
Steps(f, n, X, start, step) ==
    f \in [0..n -> X] /\ f[0] = start /\ \A i \in 1..n : f[i] = step[i][f[i - 1]]

LEMMA Iterated ==
    ASSUME NEW n \in Nat, NEW X, NEW start \in X, NEW step \in [1..n -> [X -> X]]
    PROVE  \E f : Steps(f, n, X, start, step)
<1> DEFINE Goes(k) == \E f \in [0..k -> X] : f[0] = start /\ \A i \in 1..k : f[i] = step[i][f[i - 1]]
           T == {k \in 0..n : ~Goes(k)}
<1> SUFFICES ASSUME ~Goes(n) PROVE FALSE
  BY DEF Steps
<1>1. n \in T /\ T \subseteq Nat
  OBVIOUS
<1>2. PICK m \in T : \A k \in T : m <= k
  <2> HIDE DEF T
  <2> QED
    BY <1>1, LeastOf
<1>3. m # 0
  <2>1. SUFFICES ASSUME m = 0 PROVE FALSE
    OBVIOUS
  <2>2. [i \in 0..0 |-> start] \in [0..0 -> X] /\ [i \in 0..0 |-> start][0] = start /\ 1..0 = {}
    OBVIOUS
  <2>3. Goes(0)
    BY <2>2
  <2> QED
    BY <1>2, <2>1, <2>3
<1>4. m \in 1..n /\ m - 1 \in 0..n /\ m - 1 \notin T
  <2>1. m \in 1..n
    BY <1>2, <1>3
  <2>2. m - 1 \in 0..n /\ ~(m <= m - 1)
    BY <2>1
  <2> HIDE DEF T
  <2> QED
    BY <1>2, <2>1, <2>2
<1>5. PICK f \in [0..(m - 1) -> X] : f[0] = start /\ \A i \in 1..(m - 1) : f[i] = step[i][f[i - 1]]
  BY <1>4
<1> DEFINE g == [i \in 0..m |-> IF i = m THEN step[m][f[m - 1]] ELSE f[i]]
<1>6. step[m][f[m - 1]] \in X
  BY <1>4, <1>5
<1>7. g \in [0..m -> X]
  BY <1>4, <1>5, <1>6
<1>8. g[0] = start
  BY <1>4, <1>5
<1>9. ASSUME NEW i \in 1..m PROVE g[i] = step[i][g[i - 1]]
  BY <1>4, <1>5
<1>10. Goes(m)
  <2> HIDE DEF g
  <2> QED
    BY <1>7, <1>8, <1>9
<1> QED
  BY <1>2, <1>10

\* A function on the places of a list is a sequence.
LEMMA ListedSeq == ASSUME NEW X, NEW n \in Nat, NEW seq \in [1..n -> X] PROVE seq \in Seq(X)
<1> QED
  BY ONLY n \in Nat, seq \in [1..n -> X], SeqDef

\* Two of them that start alike and go alike are alike.
KeepsPace(f, g, n) == f[0] = g[0] /\ \A i \in 1..n : f[i - 1] = g[i - 1] => f[i] = g[i]
AgreeUpTo(f, g, n) == \A i \in 0..n : f[i] = g[i]

LEMMA IteratedAlike ==
    ASSUME NEW n \in Nat, NEW f, NEW g, KeepsPace(f, g, n)
    PROVE  AgreeUpTo(f, g, n)
<1> SUFFICES \A i \in 0..n : f[i] = g[i]
  BY DEF AgreeUpTo
<1>0. f[0] = g[0] /\ \A i \in 1..n : f[i - 1] = g[i - 1] => f[i] = g[i]
  BY DEF KeepsPace
<1> DEFINE T == {i \in 0..n : f[i] # g[i]}
<1> SUFFICES ASSUME T # {} PROVE FALSE
  OBVIOUS
<1>1. T \subseteq Nat
  OBVIOUS
<1>2. PICK m \in T : \A k \in T : m <= k
  <2> HIDE DEF T
  <2> QED
    BY <1>1, LeastOf
<1>3. m \in 1..n /\ m - 1 \in 0..n /\ ~(m <= m - 1)
  BY <1>0, <1>2
<1>4. f[m - 1] = g[m - 1]
  BY <1>2, <1>3
<1> QED
  BY <1>0, <1>2, <1>3, <1>4

LEMMA SameEnd == \A i, j \in Nat : 1..i = 1..j => i = j
<1> SUFFICES ASSUME NEW i \in Nat, NEW j \in Nat, 1..i = 1..j PROVE i = j
  OBVIOUS
<1>1. (i # 0 => i \in 1..j) /\ (j # 0 => j \in 1..i)
  <2>1. (i # 0 => i \in 1..i) /\ (j # 0 => j \in 1..j)
    OBVIOUS
  <2> QED
    BY <2>1
<1> QED
  BY <1>1

\* The places of a list at which a class of its rows appears first.
FirstOfClass(class, n) == {i \in 1..n : \A j \in 1..(i - 1) : class[j] # class[i]}

LEMMA ClassesFirst ==
    ASSUME NEW n \in Nat, NEW class
    PROVE  /\ \A i \in 1..n : \E k \in FirstOfClass(class, n) : class[k] = class[i]
           /\ \A i, j \in FirstOfClass(class, n) : class[i] = class[j] => i = j
<1>1. ASSUME NEW i \in 1..n PROVE \E k \in FirstOfClass(class, n) : class[k] = class[i]
  <2> DEFINE T == {j \in 1..n : class[j] = class[i]}
  <2>1. T \subseteq Nat /\ T # {}
    OBVIOUS
  <2>2. PICK m \in T : \A j \in T : m <= j
    <3> HIDE DEF T
    <3> QED
      BY <2>1, LeastOf
  <2>3. \A j \in 1..(m - 1) : j \in 1..n /\ ~(m <= j)
    BY <2>2
  <2>4. m \in 1..n /\ class[m] = class[i] /\ \A j \in 1..(m - 1) : class[j] # class[m]
    BY <2>2, <2>3
  <2> QED
    BY <2>4 DEF FirstOfClass
<1>2. ASSUME NEW i \in FirstOfClass(class, n), NEW j \in FirstOfClass(class, n), class[i] = class[j]
      PROVE  i = j
  <2>1. /\ i \in 1..n /\ \A k \in 1..(i - 1) : class[k] # class[i]
        /\ j \in 1..n /\ \A k \in 1..(j - 1) : class[k] # class[j]
    BY DEF FirstOfClass
  <2>2. ~(i < j) /\ ~(j < i)
    <3>1. i < j => i \in 1..(j - 1)
      BY <2>1
    <3>2. j < i => j \in 1..(i - 1)
      BY <2>1
    <3> QED
      BY <1>2, <2>1, <3>1, <3>2
  <2> QED
    BY <2>1, <2>2
<1> QED
  BY <1>1, <1>2

---------------------------------------------------------------------------
\* Lists of spots.

\* A list with each element of S once.
ListOf(seq, S) ==
    /\ seq \in Seq(S) /\ Len(seq) = Cardinality(S)
    /\ \A i, j \in 1..Len(seq) : seq[i] = seq[j] => i = j
    /\ \A s \in S : \E i \in 1..Len(seq) : seq[i] = s

\* What is sooner than an element is less than all, and less than what is sooner
\* than a later element.
LEMMA SoonerSmaller ==
    ASSUME NEW S \in SUBSET Int, IsFiniteSet(S), NEW key, \A s \in S : key[s] \in Int
    PROVE  /\ \A s \in S : /\ IsFiniteSet(Sooner(S, key, s)) /\ Sooner(S, key, s) \subseteq S \ {s}
                           /\ Cardinality(Sooner(S, key, s)) \in Nat
                           /\ Cardinality(Sooner(S, key, s)) + 1 \in 1..Cardinality(S)
           /\ \A s, t \in S : s \in Sooner(S, key, t) => Cardinality(Sooner(S, key, s)) < Cardinality(Sooner(S, key, t))
<1> DEFINE N == Cardinality(S)
<1>1. N \in Nat
  BY FS_CardinalityType
<1>2. ASSUME NEW s \in S
      PROVE  /\ IsFiniteSet(Sooner(S, key, s)) /\ Sooner(S, key, s) \subseteq S \ {s}
             /\ Cardinality(Sooner(S, key, s)) + 1 \in 1..N
  <2>1. Sooner(S, key, s) \subseteq S \ {s}
    BY DEF Sooner
  <2>2. IsFiniteSet(S \ {s}) /\ Cardinality(S \ {s}) = N - 1
    BY FS_RemoveElement
  <2>3. IsFiniteSet(Sooner(S, key, s)) /\ Cardinality(Sooner(S, key, s)) <= N - 1
    BY <2>1, <2>2, FS_Subset
  <2>4. Cardinality(Sooner(S, key, s)) \in Nat
    BY <2>3, FS_CardinalityType
  <2> QED
    BY <1>1, <2>1, <2>3, <2>4
<1>3. ASSUME NEW s \in S, NEW t \in S, s \in Sooner(S, key, t)
      PROVE  Cardinality(Sooner(S, key, s)) < Cardinality(Sooner(S, key, t))
  <2>1. ASSUME NEW u \in S, u \in Sooner(S, key, s) PROVE u \in Sooner(S, key, t)
    <3>1. key[u] \in Int /\ key[s] \in Int /\ key[t] \in Int /\ u \in Int /\ s \in Int /\ t \in Int
      OBVIOUS
    <3>2. /\ key[u] < key[s] \/ (key[u] = key[s] /\ u < s)
          /\ key[s] < key[t] \/ (key[s] = key[t] /\ s < t)
      BY <1>3, <2>1 DEF Sooner
    <3>3. key[u] < key[t] \/ (key[u] = key[t] /\ u < t)
      BY ONLY <3>1, <3>2
    <3> QED
      BY <3>3 DEF Sooner
  <2>2. s \notin Sooner(S, key, s)
    BY <1>2
  <2>3. Sooner(S, key, s) # Sooner(S, key, t)
    BY <1>3, <2>2
  <2>4. Sooner(S, key, s) \subseteq Sooner(S, key, t)
    BY <1>2, <2>1
  <2>5. Cardinality(Sooner(S, key, s)) <= Cardinality(Sooner(S, key, t))
        /\ Cardinality(Sooner(S, key, s)) # Cardinality(Sooner(S, key, t))
    BY <1>2, <2>3, <2>4, FS_Subset
  <2>6. Cardinality(Sooner(S, key, s)) \in Nat /\ Cardinality(Sooner(S, key, t)) \in Nat
    BY <1>2, FS_CardinalityType
  <2> QED
    BY ONLY <2>5, <2>6
<1> HIDE DEF N
<1>4. \A s \in S : Cardinality(Sooner(S, key, s)) \in Nat
  BY <1>2, FS_CardinalityType
<1> QED
  BY <1>2, <1>3, <1>4 DEF N

\* ORDER BY gives each row one place.
LEMMA OrderedStands ==
    ASSUME NEW S \in SUBSET Int, IsFiniteSet(S), NEW key, \A s \in S : key[s] \in Int
    PROVE  /\ ListOf(Ordered(S, key), S)
           /\ \A n \in 1..Len(Ordered(S, key)) : Cardinality(Sooner(S, key, Ordered(S, key)[n])) + 1 = n
<1> DEFINE N == Cardinality(S)
           rank == [s \in S |-> Cardinality(Sooner(S, key, s)) + 1]
<1>1. N \in Nat
  BY FS_CardinalityType
<1>2. ASSUME NEW s \in S
      PROVE  /\ IsFiniteSet(Sooner(S, key, s)) /\ Sooner(S, key, s) \subseteq S \ {s}
             /\ Cardinality(Sooner(S, key, s)) + 1 \in 1..N
  BY <1>1, SoonerSmaller
<1>3. ASSUME NEW s \in S, NEW t \in S, s \in Sooner(S, key, t)
      PROVE  Cardinality(Sooner(S, key, s)) # Cardinality(Sooner(S, key, t))
  <2>1. Cardinality(Sooner(S, key, s)) < Cardinality(Sooner(S, key, t))
    BY <1>3, SoonerSmaller
  <2>2. Cardinality(Sooner(S, key, s)) \in Nat /\ Cardinality(Sooner(S, key, t)) \in Nat
    BY SoonerSmaller
  <2> QED
    BY <2>1, <2>2
<1>4. \A s, t \in S : s # t => s \in Sooner(S, key, t) \/ t \in Sooner(S, key, s)
  BY DEF Sooner
<1>5. rank \in Injection(S, 1..N)
  <2>1. rank \in [S -> 1..N]
    BY <1>2
  <2>2. ASSUME NEW s \in S, NEW t \in S, rank[s] = rank[t] PROVE s = t
    <3>1. Cardinality(Sooner(S, key, s)) \in Nat /\ Cardinality(Sooner(S, key, t)) \in Nat
      BY <1>2, FS_CardinalityType
    <3>2. Cardinality(Sooner(S, key, s)) = Cardinality(Sooner(S, key, t))
      BY <2>2, <3>1
    <3> QED
      BY <1>3, <1>4, <3>2
  <2> QED
    BY <2>1, <2>2 DEF Injection, IsInjective
<1>6. IsFiniteSet(1..N) /\ Cardinality(1..N) = N
  BY <1>1, FS_Interval
<1>7. rank \in Surjection(S, 1..N)
  <2> HIDE DEF rank
  <2> QED
    BY <1>5, <1>6, FS_Injection
<1>8. \A n \in 1..N : \E s \in S : rank[s] = n
  BY <1>7 DEF Surjection
<1> DEFINE standings == {<<Cardinality(Sooner(S, key, s)) + 1, s>> : s \in S}
           seq == [n \in 1..N |-> CHOOSE s \in S : <<n, s>> \in standings]
<1>9. \A n \in 1..N, s \in S : <<n, s>> \in standings <=> rank[s] = n
  OBVIOUS
<1>10. \A n \in 1..N : seq[n] \in S /\ rank[seq[n]] = n
  <2> SUFFICES ASSUME NEW n \in 1..N PROVE seq[n] \in S /\ rank[seq[n]] = n
    OBVIOUS
  <2>1. \E s \in S : <<n, s>> \in standings
    BY <1>8, <1>9
  <2> HIDE DEF standings, rank
  <2>2. seq[n] \in S /\ <<n, seq[n]>> \in standings
    BY <2>1
  <2> QED
    BY <1>9, <2>2
<1>11. Ordered(S, key) = seq
  BY DEF Ordered
<1> HIDE DEF seq, rank
<1>12. seq \in [1..N -> S]
  BY <1>10 DEF seq
<1> HIDE DEF N
<1>13. seq \in Seq(S) /\ Len(seq) = N
  <2>1. seq \in Seq(S)
    BY <1>1, <1>12, SeqDef
  <2>2. 1..Len(seq) = 1..N /\ Len(seq) \in Nat
    BY <1>12, <2>1, LenProperties
  <2> QED
    BY ONLY <1>1, <2>1, <2>2, SameEnd
<1>14. \A i, j \in 1..N : seq[i] = seq[j] => i = j
  BY <1>10
<1>15. ASSUME NEW s \in S PROVE \E i \in 1..N : seq[i] = s
  <2>1. rank[s] \in 1..N /\ \A t \in S : rank[t] = rank[s] => t = s
    BY <1>5 DEF Injection, IsInjective
  <2> QED
    BY <1>10, <2>1
<1>16. \A n \in 1..N : seq[n] \in S /\ Cardinality(Sooner(S, key, seq[n])) + 1 = n
  BY <1>10 DEF rank
<1> QED
  BY <1>11, <1>13, <1>14, <1>15, <1>16 DEF ListOf, N

LEMMA OrderedLists ==
    ASSUME NEW S \in SUBSET Int, IsFiniteSet(S), NEW key, \A s \in S : key[s] \in Int
    PROVE  ListOf(Ordered(S, key), S)
  BY OrderedStands

HeldAt(seq, S) == {i \in 1..Len(seq) : seq[i] \in S}

InPlaces(kept, seq, S) ==
    \E at : /\ ListOf(at, HeldAt(seq, S)) /\ Len(kept) = Len(at)
            /\ \A n \in 1..Len(at) : kept[n] = seq[at[n]]

\* What is left of a list is of the list, in places of their own.
LEMMA OnlyLists ==
    ASSUME NEW X, NEW seq \in Seq(X), NEW S
    PROVE  /\ Only(seq, S) \in Seq(X \cap S)
           /\ InPlaces(Only(seq, S), seq, S)
<1>1. Len(seq) \in Nat /\ DOMAIN seq = 1..Len(seq) /\ \A i \in 1..Len(seq) : seq[i] \in X
  BY LenProperties, ElementOfSeq
<1>2. PICK I : I = {i \in 1..Len(seq) : seq[i] \in S}
  OBVIOUS
<1>3. PICK at : at = InOrder(I)
  OBVIOUS
<1>4. I \in SUBSET Int /\ I \subseteq 1..Len(seq)
  BY <1>1, <1>2
<1>5. IsFiniteSet(I)
  <2>1. IsFiniteSet(1..Len(seq))
    BY <1>1, FS_Interval
  <2> QED
    BY ONLY <1>4, <2>1, FS_Subset
<1>6. ListOf(at, I)
  <2>1. PICK key : key = [i \in I |-> i]
    OBVIOUS
  <2>2. \A i \in I : key[i] \in Int
    BY <1>4, <2>1
  <2> QED
    BY <1>3, <1>4, <1>5, <2>1, <2>2, OrderedLists DEF InOrder
<1>7. at \in Seq(I) /\ Len(at) \in Nat /\ DOMAIN at = 1..Len(at) /\ \A n \in 1..Len(at) : at[n] \in I
  <2>1. at \in Seq(I)
    BY <1>6 DEF ListOf
  <2> QED
    BY <2>1, LenProperties, ElementOfSeq
<1>8. PICK kept : kept = [n \in 1..Len(at) |-> seq[at[n]]]
  OBVIOUS
<1>9. Only(seq, S) = kept
  BY <1>1, <1>2, <1>3, <1>7, <1>8 DEF Only
<1>10. \A n \in 1..Len(at) : kept[n] = seq[at[n]] /\ kept[n] \in X \cap S
  BY <1>1, <1>2, <1>7, <1>8
<1>11. kept \in Seq(X \cap S) /\ Len(kept) = Len(at)
  <2>1. kept \in [1..Len(at) -> X \cap S]
    BY <1>8, <1>10
  <2>2. kept \in Seq(X \cap S)
    BY <1>7, <2>1, SeqDef
  <2>3. 1..Len(kept) = 1..Len(at) /\ Len(kept) \in Nat
    BY <2>1, <2>2, LenProperties
  <2> QED
    BY ONLY <1>7, <2>2, <2>3, SameEnd
<1>12. I = HeldAt(seq, S)
  BY <1>2 DEF HeldAt
<1>13. InPlaces(kept, seq, S)
  BY <1>6, <1>10, <1>11, <1>12 DEF InPlaces
<1> QED
  BY <1>9, <1>11, <1>13

LEMMA TakeLists ==
    ASSUME NEW X, NEW seq \in Seq(X), NEW n \in Nat
    PROVE  /\ Take(seq, n) \in Seq(X) /\ Len(Take(seq, n)) = (IF Len(seq) < n THEN Len(seq) ELSE n)
           /\ \A i \in 1..Len(Take(seq, n)) : Take(seq, n)[i] = seq[i]
<1>1. Len(seq) \in Nat /\ \A i \in 1..Len(seq) : seq[i] \in X
  BY LenProperties, ElementOfSeq
<1>2. PICK k \in Nat : k = IF Len(seq) < n THEN Len(seq) ELSE n
  BY <1>1
<1>3. PICK one \in Int : one = 1
  OBVIOUS
<1>4. \A i \in one..k : seq[i] \in X
  BY <1>1, <1>2, <1>3
<1>5. k \in Int
  BY <1>2
<1>6. /\ SubSeq(seq, one, k) \in Seq(X)
      /\ Len(SubSeq(seq, one, k)) = IF one <= k THEN k - one + 1 ELSE 0
      /\ \A i \in 1..(k - one + 1) : SubSeq(seq, one, k)[i] = seq[one + i - 1]
  BY ONLY <1>3, <1>4, <1>5, SubSeqProperties
<1>7. Take(seq, n) = SubSeq(seq, one, k)
  BY <1>2, <1>3 DEF Take
<1>8. PICK some : some = SubSeq(seq, one, k)
  OBVIOUS
<1>9. Len(some) = k
  BY <1>2, <1>3, <1>6, <1>8
<1>10. \A i \in 1..k : some[i] = seq[i]
  <2> SUFFICES ASSUME NEW i \in 1..k PROVE some[i] = seq[i]
    OBVIOUS
  <2>1. i \in 1..(k - one + 1) /\ one + i - 1 = i
    BY <1>3
  <2> QED
    BY <1>6, <1>8, <2>1
<1> QED
  BY <1>2, <1>6, <1>7, <1>8, <1>9, <1>10

\* An element of the first n comes before every one that is not among them.
LEMMA FirstComeFirst ==
    ASSUME NEW S \in SUBSET Int, IsFiniteSet(S), NEW key, \A s \in S : key[s] \in Int, NEW n \in Nat
    PROVE  /\ Len(Take(Ordered(S, key), n)) < n => S \subseteq Range(Take(Ordered(S, key), n))
           /\ n > 0 /\ S # {} => Take(Ordered(S, key), n) # <<>>
           /\ \A s \in Range(Take(Ordered(S, key), n)), t \in S \ Range(Take(Ordered(S, key), n)) : key[s] <= key[t]
<1> PICK list : list = Ordered(S, key)
  OBVIOUS
<1>1. ListOf(list, S) /\ \A i \in 1..Len(list) : Cardinality(Sooner(S, key, list[i])) + 1 = i
  BY OrderedStands
<1>2. /\ list \in Seq(S) /\ Len(list) \in Nat /\ DOMAIN list = 1..Len(list)
      /\ \A i \in 1..Len(list) : list[i] \in S
      /\ \A s \in S : \E i \in 1..Len(list) : list[i] = s
  BY <1>1 DEF ListOf
<1> PICK first : first = Take(list, n)
  OBVIOUS
<1>3. /\ first \in Seq(S) /\ Len(first) = (IF Len(list) < n THEN Len(list) ELSE n)
      /\ \A i \in 1..Len(first) : first[i] = list[i]
  BY <1>2, TakeLists
<1>4. DOMAIN first = 1..Len(first) /\ Range(first) = {first[i] : i \in 1..Len(first)}
  BY <1>3 DEF Range
<1>5. ASSUME Len(first) < n PROVE S \subseteq Range(first)
  <2>1. Len(first) = Len(list)
    <3>1. Len(list) < n
      BY <1>2, <1>3, <1>5
    <3> QED
      BY <1>3, <3>1
  <2>2. ASSUME NEW s \in S PROVE s \in Range(first)
    <3>1. PICK i \in 1..Len(list) : list[i] = s
      BY <1>2
    <3>2. i \in 1..Len(first) /\ first[i] = s
      BY <1>3, <2>1, <3>1
    <3> QED
      BY <1>4, <3>2
  <2> QED
    BY <2>2
<1>6. ASSUME n > 0, S # {} PROVE first # <<>>
  <2>1. PICK i \in 1..Len(list) : TRUE
    BY <1>2, <1>6
  <2>2. Len(first) > 0
    BY <1>2, <1>3, <1>6, <2>1
  <2> QED
    BY <2>2
<1>7. ASSUME NEW s \in Range(first), NEW t \in S \ Range(first) PROVE key[s] <= key[t]
  <2>1. PICK i \in 1..Len(first) : first[i] = s
    BY <1>4
  <2>2. PICK j \in 1..Len(list) : list[j] = t
    BY <1>2
  <2>3. i \in 1..Len(list) /\ list[i] = s /\ s \in S
    BY <1>2, <1>3, <2>1
  <2>4. i < j
    <3>1. j \notin 1..Len(first)
      BY <1>3, <1>4, <2>2
    <3> QED
      BY <1>2, <1>3, <2>1, <2>2, <3>1
  <2>5. Cardinality(Sooner(S, key, s)) + 1 = i /\ Cardinality(Sooner(S, key, t)) + 1 = j
    BY <1>1, <2>2, <2>3
  <2>6. ASSUME t \in Sooner(S, key, s) PROVE FALSE
    <3>1. Cardinality(Sooner(S, key, t)) \in Nat /\ Cardinality(Sooner(S, key, s)) \in Nat
      BY SoonerSmaller, <2>3
    <3>2. Cardinality(Sooner(S, key, t)) < Cardinality(Sooner(S, key, s))
      BY SoonerSmaller, <2>3, <2>6
    <3> QED
      BY <2>4, <2>5, <3>1, <3>2
  <2>7. ~(key[t] < key[s])
    BY <2>6 DEF Sooner
  <2> QED
    BY <2>3, <2>7
<1> QED
  BY <1>5, <1>6, <1>7

LEMMA IdsFinite == ASSUME NEW S \in SUBSET Ids PROVE S \subseteq Int /\ IsFiniteSet(S)
<1>1. SpotCount \in Nat /\ S \subseteq 1..SpotCount
  BY SpotsAssumption DEF Ids
<1>2. IsFiniteSet(1..SpotCount)
  BY <1>1, FS_Interval
<1>3. IsFiniteSet(S)
  BY ONLY <1>1, <1>2, FS_Subset
<1> QED
  BY <1>1, <1>3

\* The sum of some keys, one by one.
SumsUp(sum, all, key) == sum = [n \in 0..Len(all) |-> IF n = 0 THEN 0 ELSE sum[n - 1] + key[all[n]]]

LEMMA TotalTyped ==
    ASSUME NEW S \in SUBSET Int, IsFiniteSet(S), NEW key, \A s \in S : key[s] \in Int
    PROVE  Total(S, key) \in Int
<1> PICK all : all = InOrder(S)
  OBVIOUS
<1>1. ListOf(all, S)
  <2>1. PICK same : same = [s \in S |-> s]
    OBVIOUS
  <2>2. \A s \in S : same[s] \in Int
    BY <2>1
  <2>3. all = Ordered(S, same)
    BY <2>1 DEF InOrder
  <2> QED
    BY <2>2, <2>3, OrderedLists
<1> PICK N : N = Len(all)
  OBVIOUS
<1>2. N \in Nat /\ \A n \in 1..N : all[n] \in S
  <2>1. all \in Seq(S)
    BY <1>1 DEF ListOf
  <2> QED
    BY <2>1, LenProperties, ElementOfSeq
<1>3. \A n \in 1..N : key[all[n]] \in Int
  BY <1>2
<1> DEFINE step == [i \in 1..N |-> [x \in Int |-> x + key[all[i]]]]
<1>4. step \in [1..N -> [Int -> Int]]
  BY <1>3
<1>5. PICK f : f \in [0..N -> Int] /\ f[0] = 0 /\ \A i \in 1..N : f[i] = step[i][f[i - 1]]
  <2> HIDE DEF step
  <2>1. 0 \in Int
    OBVIOUS
  <2>2. \E f : Steps(f, N, Int, 0, step)
    BY ONLY <1>2, <1>4, <2>1, Iterated
  <2> QED
    BY <2>2 DEF Steps
<1>6. \A i \in 1..N : f[i] = f[i - 1] + key[all[i]]
  <2> SUFFICES ASSUME NEW i \in 1..N PROVE f[i] = f[i - 1] + key[all[i]]
    OBVIOUS
  <2>1. i - 1 \in 0..N
    BY <1>2
  <2>2. f[i - 1] \in Int
    BY <1>5, <2>1
  <2>3. step[i][f[i - 1]] = f[i - 1] + key[all[i]]
    BY <2>2
  <2> QED
    BY <1>5, <2>3
<1>7. SumsUp(f, all, key)
  <2> HIDE DEF step
  <2>1. \A n \in 0..N : f[n] = IF n = 0 THEN 0 ELSE f[n - 1] + key[all[n]]
    BY <1>2, <1>5, <1>6
  <2> QED
    BY <1>5, <2>1 DEF SumsUp
<1>8. PICK sum : sum = CHOOSE g : SumsUp(g, all, key)
  OBVIOUS
<1>9. \A n \in 0..N : sum[n] = IF n = 0 THEN 0 ELSE sum[n - 1] + key[all[n]]
  <2>1. SumsUp(sum, all, key)
    BY <1>7, <1>8
  <2> QED
    BY <2>1 DEF SumsUp
<1>10. sum[0] = f[0] /\ \A i \in 1..N : sum[i - 1] = f[i - 1] => sum[i] = f[i]
  <2> HIDE DEF step
  <2> QED
    BY <1>2, <1>5, <1>6, <1>9
<1>11. \A n \in 0..N : sum[n] = f[n]
  <2>1. N \in Nat
    BY ONLY <1>2
  <2>2. KeepsPace(sum, f, N)
    BY ONLY <1>10 DEF KeepsPace
  <2>3. AgreeUpTo(sum, f, N)
    BY ONLY <2>1, <2>2, IteratedAlike
  <2> QED
    BY ONLY <2>3 DEF AgreeUpTo
<1>12. sum[N] \in Int
  BY <1>2, <1>5, <1>11
<1>13. Total(S, key) = sum[N]
  BY <1>8 DEF Total, SumsUp
<1> QED
  BY <1>12, <1>13

---------------------------------------------------------------------------
\* Lists of spots that hold no spot twice.
Lists == {list \in Seq(Ids) : \A i, j \in 1..Len(list) : list[i] = list[j] => i = j}

LEMMA PartsOfList ==
    ASSUME NEW list \in Lists
    PROVE  /\ list \in Seq(Ids) /\ Len(list) \in Nat /\ DOMAIN list = 1..Len(list)
           /\ \A i \in 1..Len(list) : list[i] \in Ids
           /\ \A i, j \in 1..Len(list) : list[i] = list[j] => i = j
           /\ Range(list) = {list[i] : i \in 1..Len(list)}
<1>1. list \in Seq(Ids) /\ \A i, j \in 1..Len(list) : list[i] = list[j] => i = j
  BY DEF Lists
<1>2. Len(list) \in Nat /\ DOMAIN list = 1..Len(list) /\ \A i \in 1..Len(list) : list[i] \in Ids
  BY <1>1, LenProperties, ElementOfSeq
<1> QED
  BY <1>1, <1>2 DEF Range

LEMMA NoneListed == <<>> \in Lists /\ Len(<<>>) = 0 /\ Range(<<>>) = {}
<1>1. <<>> \in Seq(Ids) /\ Len(<<>>) = 0
  BY EmptySeq
<1> QED
  BY <1>1 DEF Lists, Range

LEMMA OneListed ==
    ASSUME NEW s \in Ids
    PROVE  <<s>> \in Lists /\ Len(<<s>>) = 1 /\ Range(<<s>>) = {s}
<1>1. <<s>> \in Seq(Ids) /\ Len(<<s>>) = 1
  OBVIOUS
<1> PICK one : one = <<s>>
  OBVIOUS
<1>2. one \in Seq(Ids) /\ Len(one) = 1 /\ one[1] = s
  BY <1>1
<1>3. one \in Lists
  BY <1>2 DEF Lists
<1>4. Range(one) = {s}
  BY <1>2, <1>3, PartsOfList
<1> QED
  BY <1>2, <1>3, <1>4

LEMMA OrderedList ==
    ASSUME NEW S \in SUBSET Ids, NEW key, \A s \in S : key[s] \in Int
    PROVE  Ordered(S, key) \in Lists /\ Range(Ordered(S, key)) = S
<1>1. S \in SUBSET Int /\ IsFiniteSet(S)
  BY IdsFinite
<1> PICK list : list = Ordered(S, key)
  OBVIOUS
<1>2. ListOf(list, S)
  BY <1>1, OrderedLists
<1>3. list \in Seq(S) /\ list \in Seq(Ids)
  BY <1>2, SeqMonotonic DEF ListOf
<1>4. list \in Lists
  BY <1>2, <1>3 DEF ListOf, Lists
<1>5. \A i \in 1..Len(list) : list[i] \in S
  BY <1>3, ElementOfSeq
<1>6. Range(list) = {list[i] : i \in 1..Len(list)}
  BY <1>4, PartsOfList
<1>7. \A s \in S : \E i \in 1..Len(list) : list[i] = s
  BY <1>2 DEF ListOf
<1>8. Range(list) = S
  BY <1>5, <1>6, <1>7
<1> QED
  BY <1>4, <1>8

LEMMA OnlyList ==
    ASSUME NEW list \in Lists, NEW S
    PROVE  Only(list, S) \in Lists /\ Range(Only(list, S)) = Range(list) \cap S
<1>1. /\ list \in Seq(Ids) /\ \A i, j \in 1..Len(list) : list[i] = list[j] => i = j
      /\ Range(list) = {list[i] : i \in 1..Len(list)}
  BY PartsOfList
<1> PICK I : I = {i \in 1..Len(list) : list[i] \in S}
  OBVIOUS
<1> PICK kept : kept = Only(list, S)
  OBVIOUS
<1>2. kept \in Seq(Ids \cap S)
  BY <1>1, OnlyLists
<1>3. PICK at : ListOf(at, I) /\ Len(kept) = Len(at) /\ \A n \in 1..Len(at) : kept[n] = list[at[n]]
  <2>1. InPlaces(kept, list, S)
    BY <1>1, OnlyLists
  <2>2. I = HeldAt(list, S)
    BY DEF HeldAt
  <2> QED
    BY <2>1, <2>2 DEF InPlaces
<1>4. \A n \in 1..Len(at) : at[n] \in I
  <2>1. at \in Seq(I)
    BY <1>3 DEF ListOf
  <2> QED
    BY <2>1, ElementOfSeq
<1>5. kept \in Lists
  <2>1. kept \in Seq(Ids)
    BY <1>2, SeqMonotonic
  <2>2. ASSUME NEW m \in 1..Len(kept), NEW n \in 1..Len(kept), kept[m] = kept[n] PROVE m = n
    <3>1. at[m] \in I /\ at[n] \in I /\ list[at[m]] = list[at[n]]
      BY <1>3, <1>4, <2>2
    <3>2. at[m] = at[n]
      BY <1>1, <3>1
    <3> QED
      BY <1>3, <3>2 DEF ListOf
  <2> QED
    BY <2>1, <2>2 DEF Lists
<1>6. Range(kept) = {kept[n] : n \in 1..Len(kept)}
  BY <1>5, PartsOfList
<1>7. \A n \in 1..Len(kept) : kept[n] \in Range(list) \cap S
  BY <1>1, <1>3, <1>4
<1>8. ASSUME NEW s \in Range(list) \cap S PROVE \E n \in 1..Len(kept) : kept[n] = s
  <2>1. PICK i \in I : list[i] = s
    BY <1>1
  <2>2. PICK n \in 1..Len(at) : at[n] = i
    BY <1>3 DEF ListOf
  <2> QED
    BY <1>3, <2>1, <2>2
<1>9. Range(kept) = Range(list) \cap S
  <2> PICK all : all = Range(list)
    OBVIOUS
  <2> QED
    BY <1>6, <1>7, <1>8
<1> QED
  BY <1>5, <1>9

LEMMA TakeList ==
    ASSUME NEW list \in Lists, NEW n \in Nat
    PROVE  /\ Take(list, n) \in Lists /\ Range(Take(list, n)) \subseteq Range(list)
           /\ Len(Take(list, n)) = IF Len(list) < n THEN Len(list) ELSE n
<1>1. /\ list \in Seq(Ids) /\ Len(list) \in Nat /\ \A i, j \in 1..Len(list) : list[i] = list[j] => i = j
      /\ Range(list) = {list[i] : i \in 1..Len(list)}
  BY PartsOfList
<1> PICK kept : kept = Take(list, n)
  OBVIOUS
<1>2. /\ kept \in Seq(Ids) /\ Len(kept) = (IF Len(list) < n THEN Len(list) ELSE n)
      /\ \A i \in 1..Len(kept) : kept[i] = list[i]
  BY <1>1, TakeLists
<1>3. \A i \in 1..Len(kept) : i \in 1..Len(list)
  BY <1>1, <1>2
<1>4. kept \in Lists
  BY <1>1, <1>2, <1>3 DEF Lists
<1>5. Range(kept) = {kept[i] : i \in 1..Len(kept)}
  BY <1>4, PartsOfList
<1>6. Range(kept) \subseteq Range(list)
  BY <1>1, <1>2, <1>3, <1>5
<1> QED
  BY <1>2, <1>4, <1>6

LEMMA JoinedList ==
    ASSUME NEW list \in Lists, NEW more \in Lists, Range(list) \cap Range(more) = {}
    PROVE  /\ list \o more \in Lists /\ Len(list \o more) = Len(list) + Len(more)
           /\ Range(list \o more) = Range(list) \cup Range(more)
<1>1. /\ list \in Seq(Ids) /\ Len(list) \in Nat /\ \A i, j \in 1..Len(list) : list[i] = list[j] => i = j
      /\ Range(list) = {list[i] : i \in 1..Len(list)}
  BY PartsOfList
<1>2. /\ more \in Seq(Ids) /\ Len(more) \in Nat /\ \A i, j \in 1..Len(more) : more[i] = more[j] => i = j
      /\ Range(more) = {more[i] : i \in 1..Len(more)}
  BY PartsOfList
<1> PICK both : both = list \o more
  OBVIOUS
<1>3. /\ both \in Seq(Ids) /\ Len(both) = Len(list) + Len(more)
      /\ \A i \in 1..(Len(list) + Len(more)) : both[i] = IF i <= Len(list) THEN list[i] ELSE more[i - Len(list)]
  BY <1>1, <1>2, ConcatProperties
<1>4. \A i \in 1..Len(list) : i \in 1..Len(both) /\ both[i] = list[i]
  BY <1>1, <1>2, <1>3
<1>5. \A i \in 1..Len(more) : Len(list) + i \in 1..Len(both) /\ both[Len(list) + i] = more[i]
  <2> SUFFICES ASSUME NEW i \in 1..Len(more)
               PROVE  Len(list) + i \in 1..Len(both) /\ both[Len(list) + i] = more[i]
    OBVIOUS
  <2>1. Len(list) + i \in 1..(Len(list) + Len(more)) /\ ~(Len(list) + i <= Len(list))
        /\ (Len(list) + i) - Len(list) = i
    BY <1>1, <1>2
  <2> QED
    BY <1>3, <2>1
<1>6. \A k \in 1..Len(both) : k \in 1..Len(list) \/ \E i \in 1..Len(more) : k = Len(list) + i
  <2> SUFFICES ASSUME NEW k \in 1..Len(both), k \notin 1..Len(list)
               PROVE  \E i \in 1..Len(more) : k = Len(list) + i
    OBVIOUS
  <2>1. k - Len(list) \in 1..Len(more) /\ k = Len(list) + (k - Len(list))
    BY <1>1, <1>2, <1>3
  <2> QED
    BY <2>1
<1>7. both \in Lists
  <2> SUFFICES ASSUME NEW k \in 1..Len(both), NEW l \in 1..Len(both), both[k] = both[l] PROVE k = l
    BY <1>3 DEF Lists
  <2>1. CASE k \in 1..Len(list) /\ l \in 1..Len(list)
    BY <1>1, <1>4, <2>1
  <2>2. CASE k \notin 1..Len(list) /\ l \notin 1..Len(list)
    BY <1>2, <1>5, <1>6, <2>2
  <2>3. \A i \in 1..Len(both) : i \in 1..Len(list) => both[i] \in Range(list)
    BY <1>1, <1>4
  <2>4. \A i \in 1..Len(both) : i \notin 1..Len(list) => both[i] \in Range(more)
    <3> SUFFICES ASSUME NEW i \in 1..Len(both), i \notin 1..Len(list) PROVE both[i] \in Range(more)
      OBVIOUS
    <3>1. PICK m \in 1..Len(more) : i = Len(list) + m
      BY <1>6
    <3>2. both[i] = more[m]
      BY <1>5, <3>1
    <3> QED
      BY <1>2, <3>2
  <2>5. k \in 1..Len(list) <=> l \in 1..Len(list)
    <3> PICK ours : ours = Range(list)
      OBVIOUS
    <3> PICK theirs : theirs = Range(more)
      OBVIOUS
    <3>1. both[k] \notin ours \/ both[l] \notin theirs
      OBVIOUS
    <3>2. both[l] \notin ours \/ both[k] \notin theirs
      OBVIOUS
    <3> QED
      BY <2>3, <2>4, <3>1, <3>2
  <2> QED
    BY <2>1, <2>2, <2>5
<1>8. Range(both) = {both[i] : i \in 1..Len(both)}
  BY <1>7, PartsOfList
<1>9. Range(both) = Range(list) \cup Range(more)
  <2>1. \A s \in Range(both) : s \in Range(list) \cup Range(more)
    BY <1>1, <1>2, <1>4, <1>5, <1>6, <1>8
  <2>2. \A s \in Range(list) : s \in Range(both)
    BY <1>1, <1>4, <1>8
  <2>3. \A s \in Range(more) : s \in Range(both)
    BY <1>2, <1>5, <1>8
  <2> QED
    BY <2>1, <2>2, <2>3
<1> QED
  BY <1>3, <1>7, <1>9

LEMMA ListCounted == ASSUME NEW list \in Lists PROVE Cardinality(Range(list)) = Len(list)
<1>1. /\ list \in Seq(Ids) /\ Len(list) \in Nat /\ \A i, j \in 1..Len(list) : list[i] = list[j] => i = j
      /\ Range(list) = {list[i] : i \in 1..Len(list)}
  BY PartsOfList
<1> PICK all : all = Range(list)
  OBVIOUS
<1> PICK at : at = 1..Len(list)
  OBVIOUS
<1>2. IsFiniteSet(at) /\ Cardinality(at) = Len(list)
  <2> PICK n \in Nat : n = Len(list)
    BY <1>1
  <2>1. n \in Nat
    OBVIOUS
  <2>2. IsFiniteSet(1..n) /\ Cardinality(1..n) = n
    BY ONLY <2>1, FS_Interval
  <2> QED
    BY <2>2
<1> DEFINE g == [i \in at |-> list[i]]
<1>3. g \in Surjection(at, all)
  BY <1>1 DEF Surjection
<1>4. \A i, j \in at : g[i] = g[j] => i = j
  BY <1>1
<1>5. g \in Injection(at, all)
  <2> HIDE DEF g
  <2> QED
    BY <1>3, <1>4 DEF Injection, Surjection, IsInjective
<1>6. Cardinality(all) = Cardinality(at)
  <2> HIDE DEF g
  <2>1. IsFiniteSet(all) /\ Cardinality(all) <= Cardinality(at)
    BY ONLY <1>2, <1>3, FS_Surjection
  <2>2. Cardinality(at) <= Cardinality(all)
    BY ONLY <1>5, <2>1, FS_Injection
  <2>3. Cardinality(all) \in Nat /\ Cardinality(at) \in Nat
    BY ONLY <1>2, <2>1, FS_CardinalityType
  <2> QED
    BY ONLY <2>1, <2>2, <2>3
<1> QED
  BY <1>2, <1>6

\* ORDER BY and LIMIT.
LEMMA FirstRows ==
    ASSUME NEW S \in SUBSET Ids, NEW key, \A s \in S : key[s] \in Int, NEW n \in Nat
    PROVE  Take(Ordered(S, key), n) \in Lists /\ Range(Take(Ordered(S, key), n)) \subseteq S
<1> PICK list : list = Ordered(S, key)
  OBVIOUS
<1>1. list \in Lists /\ Range(list) = S
  BY OrderedList
<1>2. Take(list, n) \in Lists /\ Range(Take(list, n)) \subseteq Range(list)
  BY <1>1, TakeList
<1> QED
  BY <1>1, <1>2

LEMMA AppendedList ==
    ASSUME NEW list \in Lists, NEW s \in Ids, s \notin Range(list)
    PROVE  /\ Append(list, s) \in Lists /\ Len(Append(list, s)) = Len(list) + 1
           /\ Range(Append(list, s)) = Range(list) \cup {s}
<1>1. list \in Seq(Ids) /\ Len(list) \in Nat
  BY PartsOfList
<1> PICK one : one = <<s>>
  OBVIOUS
<1>2. one \in Lists /\ Len(one) = 1 /\ Range(one) = {s}
  BY OneListed
<1>3. Range(list) \cap Range(one) = {}
  <2> PICK all : all = Range(list)
    OBVIOUS
  <2> QED
    BY <1>2
<1>4. Append(list, s) = list \o one
  BY <1>1
<1> QED
  BY ONLY <1>2, <1>3, <1>4, JoinedList, list \in Lists

\* A list is no longer than what its elements are taken from.
LEMMA ListFits ==
    ASSUME NEW list \in Lists, NEW n \in Nat, Range(list) \subseteq 1..n
    PROVE  Len(list) <= n
<1> PICK all : all = Range(list)
  OBVIOUS
<1> PICK at : at = 1..n
  OBVIOUS
<1>1. IsFiniteSet(at) /\ Cardinality(at) = n
  <2>1. n \in Nat
    OBVIOUS
  <2>2. IsFiniteSet(1..n) /\ Cardinality(1..n) = n
    BY ONLY <2>1, FS_Interval
  <2> QED
    BY <2>2
<1>2. Cardinality(all) = Len(list)
  BY ListCounted
<1>3. all \subseteq at
  OBVIOUS
<1>4. Cardinality(all) <= Cardinality(at)
  BY ONLY <1>1, <1>3, FS_Subset
<1> QED
  BY <1>1, <1>2, <1>4

\* A list of the numbers up to n that has n of them has each of them.
LEMMA FullList ==
    ASSUME NEW list \in Lists, NEW n \in Nat, Range(list) \subseteq 1..n
    PROVE  /\ Len(list) = n => Range(list) = 1..n
           /\ Len(list) < n => \E i \in 1..n : i \notin Range(list)
<1> PICK all : all = Range(list)
  OBVIOUS
<1> PICK at : at = 1..n
  OBVIOUS
<1>1. IsFiniteSet(at) /\ Cardinality(at) = n
  <2>1. n \in Nat
    OBVIOUS
  <2>2. IsFiniteSet(1..n) /\ Cardinality(1..n) = n
    BY ONLY <2>1, FS_Interval
  <2> QED
    BY <2>2
<1>2. Cardinality(all) = Len(list)
  BY ListCounted
<1>3. all \subseteq at
  OBVIOUS
<1>4. Cardinality(all) = Cardinality(at) => all = at
  BY ONLY <1>1, <1>3, FS_Subset
<1>5. Len(list) = n => Range(list) = 1..n
  BY <1>1, <1>2, <1>4
<1>6. ASSUME Len(list) < n PROVE \E i \in 1..n : i \notin Range(list)
  <2>1. all # at
    BY <1>1, <1>2, <1>6, PartsOfList
  <2>2. \E i \in at : i \notin all
    BY ONLY <1>3, <2>1
  <2> QED
    BY <2>2
<1> QED
  BY <1>5, <1>6
=============================================================================
