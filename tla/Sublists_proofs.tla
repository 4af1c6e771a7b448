--------------------------- MODULE Sublists_proofs ---------------------------
(* What the parts of a sequence consist of.                                 *)
EXTENDS Sublists, SequenceTheorems, FiniteSetTheorems, FunctionTheorems, TLAPS

\* The positions of a sequence are finitely many.
LEMMA PositionsAreFinite ==
    ASSUME NEW m \in Nat, NEW I \in SUBSET (1 .. m)
    PROVE  IsFiniteSet(I) /\ Cardinality(I) \in Nat
<1>1. IsFiniteSet(1 .. m)
  BY FS_Interval
<1>2. IsFiniteSet(I)
  BY <1>1, FS_Subset
<1> QED BY <1>2, FS_CardinalityType

\* Nth and Rank count the positions, in their order, and undo each other.
LEMMA RankProperties ==
    ASSUME NEW m \in Nat, NEW I \in SUBSET (1 .. m)
    PROVE  /\ \A i \in I : Rank(I, i) \in 1 .. Cardinality(I) /\ Nth(I, Rank(I, i)) = i
           /\ \A i, k \in I : i < k => Rank(I, i) < Rank(I, k)
           /\ \A n \in 1 .. Cardinality(I) : Nth(I, n) \in I /\ Rank(I, Nth(I, n)) = n
<1> DEFINE below(i) == {j \in I : j < i}
           rank == [i \in I |-> Rank(I, i)]
<1>0. \A i \in I : Rank(I, i) = Cardinality(below(i)) + 1
  BY DEF Rank
<1>1. IsFiniteSet(I) /\ Cardinality(I) \in Nat
  BY PositionsAreFinite
<1>2. \A i \in I : below(i) \in SUBSET (1 .. m) /\ below(i) \in SUBSET I
  OBVIOUS
<1>3. \A i \in I : IsFiniteSet(below(i)) /\ Cardinality(below(i)) \in Nat
  BY <1>2, PositionsAreFinite
<1>4. ASSUME NEW i \in I, NEW T \in SUBSET I, below(i) \subseteq T, i \in T
      PROVE  Cardinality(below(i)) + 1 <= Cardinality(T)
  <2>1. IsFiniteSet(below(i) \cup {i})
        /\ Cardinality(below(i) \cup {i}) = Cardinality(below(i)) + 1
    <3>1. i \notin below(i) /\ IsFiniteSet(below(i))
      BY <1>3
    <3> HIDE DEF below
    <3> QED BY <3>1, FS_AddElement
  <2>2. IsFiniteSet(T) /\ Cardinality(T) \in Nat
    BY <1>1, FS_Subset, FS_CardinalityType
  <2>3. below(i) \cup {i} \in SUBSET T
    BY <1>4
  <2> HIDE DEF below
  <2> QED BY <2>1, <2>2, <2>3, FS_Subset
<1>5. \A i, k \in I : i < k => rank[i] < rank[k]
  <2> SUFFICES ASSUME NEW i \in I, NEW k \in I, i < k PROVE rank[i] < rank[k]
    OBVIOUS
  <2>1. below(k) \in SUBSET I /\ below(i) \subseteq below(k) /\ i \in below(k)
    <3>1. i \in Nat /\ k \in Nat /\ \A j \in below(i) : j \in Nat /\ j \in I /\ j < i
      OBVIOUS
    <3>2. below(k) \in SUBSET I
      OBVIOUS
    <3>3. \A j \in below(i) : j < k
      BY <3>1
    <3>4. below(i) \subseteq below(k)
      BY <3>1, <3>3
    <3>5. i \in below(k)
      OBVIOUS
    <3> QED BY <3>2, <3>4, <3>5
  <2>2. Cardinality(below(i)) + 1 <= Cardinality(below(k))
    BY <2>1, <1>4
  <2>3. Cardinality(below(i)) \in Nat /\ Cardinality(below(k)) \in Nat
    BY <1>3
  <2>4. rank[i] = Cardinality(below(i)) + 1 /\ rank[k] = Cardinality(below(k)) + 1
    BY <1>0
  <2> HIDE DEF below, rank
  <2> QED BY <2>2, <2>3, <2>4
<1>6. rank \in [I -> 1 .. Cardinality(I)]
  <2> SUFFICES ASSUME NEW i \in I PROVE Cardinality(below(i)) + 1 \in 1 .. Cardinality(I)
    BY <1>0
  <2>1. Cardinality(below(i)) + 1 <= Cardinality(I)
    BY <1>4
  <2>2. Cardinality(below(i)) \in Nat
    BY <1>3
  <2> HIDE DEF below
  <2> QED BY <2>1, <2>2, <1>1
<1>7. \A i \in I : rank[i] = Rank(I, i)
  OBVIOUS
<1> HIDE DEF rank
<1>8. \A i, k \in I : rank[i] = rank[k] => i = k
  <2> SUFFICES ASSUME NEW i \in I, NEW k \in I, rank[i] = rank[k], i # k PROVE FALSE
    OBVIOUS
  <2>1. i < k \/ k < i
    <3>1. i \in Nat /\ k \in Nat
      OBVIOUS
    <3> QED BY <3>1
  <2>2. rank[i] \in Nat /\ rank[k] \in Nat
    BY <1>6
  <2> QED BY <2>1, <2>2, <1>5
<1>9. rank \in Surjection(I, 1 .. Cardinality(I))
  <2>1. IsFiniteSet(1 .. Cardinality(I)) /\ Cardinality(1 .. Cardinality(I)) = Cardinality(I)
    BY <1>1, FS_Interval
  <2>2. rank \in Injection(I, 1 .. Cardinality(I))
    BY <1>6, <1>8, Fun_IsInj
  <2> QED BY <2>1, <2>2, <1>1, FS_Injection
<1>10. \A n \in 1 .. Cardinality(I) : Nth(I, n) \in I /\ Rank(I, Nth(I, n)) = n
  <2> SUFFICES ASSUME NEW n \in 1 .. Cardinality(I)
               PROVE  Nth(I, n) \in I /\ Rank(I, Nth(I, n)) = n
    OBVIOUS
  <2>1. PICK i \in I : rank[i] = n
    BY <1>9 DEF Surjection
  <2>2. Rank(I, i) = n
    BY <2>1, <1>7
  <2> QED BY <2>2 DEF Nth
<1>11. \A i, k \in I : i < k => Rank(I, i) < Rank(I, k)
  BY <1>5, <1>7
<1>12. \A i \in I : Rank(I, i) \in 1 .. Cardinality(I) /\ Nth(I, Rank(I, i)) = i
  <2> TAKE i \in I
  <2>1. Rank(I, i) \in 1 .. Cardinality(I)
    BY <1>6, <1>7
  <2>2. Nth(I, Rank(I, i)) \in I /\ Rank(I, Nth(I, Rank(I, i))) = Rank(I, i)
    BY <2>1, <1>10
  <2>3. Nth(I, Rank(I, i)) = i
    BY <2>2, <1>7, <1>8
  <2> QED BY <2>1, <2>3
<1> QED BY <1>10, <1>11, <1>12

\* Nth is onto, and keeps the order of the positions.
LEMMA NthProperties ==
    ASSUME NEW m \in Nat, NEW I \in SUBSET (1 .. m)
    PROVE  /\ \A n \in 1 .. Cardinality(I) : Nth(I, n) \in I
           /\ \A i \in I : \E n \in 1 .. Cardinality(I) : Nth(I, n) = i
           /\ \A n, k \in 1 .. Cardinality(I) : n < k => Nth(I, n) < Nth(I, k)
<1>1. /\ \A i \in I : Rank(I, i) \in 1 .. Cardinality(I) /\ Nth(I, Rank(I, i)) = i
      /\ \A i, k \in I : i < k => Rank(I, i) < Rank(I, k)
      /\ \A n \in 1 .. Cardinality(I) : Nth(I, n) \in I /\ Rank(I, Nth(I, n)) = n
  BY RankProperties
<1>2. ASSUME NEW n \in 1 .. Cardinality(I), NEW k \in 1 .. Cardinality(I), n < k
      PROVE  Nth(I, n) < Nth(I, k)
  <2>1. Nth(I, n) \in I /\ Nth(I, k) \in I
    BY <1>1
  <2>2. Nth(I, n) \in Nat /\ Nth(I, k) \in Nat
    <3>1. \A i \in I : i \in Nat
      OBVIOUS
    <3> QED BY <2>1, <3>1
  <2>3. ~(Nth(I, k) < Nth(I, n))
    <3>1. ASSUME Nth(I, k) < Nth(I, n) PROVE FALSE
      <4>1. Rank(I, Nth(I, k)) < Rank(I, Nth(I, n))
        BY <2>1, <3>1, <1>1
      <4>2. k < n
        BY <4>1, <1>1
      <4>3. n \in Nat /\ k \in Nat
        BY PositionsAreFinite
      <4> QED BY <4>2, <4>3, <1>2
    <3> QED BY <3>1
  <2>4. Nth(I, k) # Nth(I, n)
    <3>1. n # k
      BY <1>2, PositionsAreFinite
    <3> QED BY <3>1, <1>1
  <2>5. \A a, b \in Nat : ~(b < a) /\ b # a => a < b
    OBVIOUS
  <2> QED BY <2>2, <2>3, <2>4, <2>5
<1>3. \A i \in I : \E n \in 1 .. Cardinality(I) : Nth(I, n) = i
  BY <1>1
<1> QED BY <1>1, <1>2, <1>3

\* A part is a sequence of the elements at its positions, in their order.
THEOREM SelectProperties ==
    ASSUME NEW S, NEW s \in Seq(S), NEW I \in SUBSET DOMAIN s
    PROVE  /\ Select(s, I) \in Seq(S)
           /\ Len(Select(s, I)) = Cardinality(I)
           /\ Cardinality(I) \in Nat
           /\ DOMAIN Select(s, I) = 1 .. Cardinality(I)
           /\ \A n \in 1 .. Cardinality(I) :
                  Nth(I, n) \in I /\ Select(s, I)[n] = s[Nth(I, n)]
           /\ ToSet(Select(s, I)) = {s[i] : i \in I}
<1>1. DOMAIN s = 1 .. Len(s) /\ Len(s) \in Nat /\ \A i \in DOMAIN s : s[i] \in S
  OBVIOUS
<1>2. Cardinality(I) \in Nat
  BY <1>1, PositionsAreFinite
<1>3. /\ \A n \in 1 .. Cardinality(I) : Nth(I, n) \in I
      /\ \A i \in I : \E n \in 1 .. Cardinality(I) : Nth(I, n) = i
  BY <1>1, NthProperties
<1>4. /\ Select(s, I) \in [1 .. Cardinality(I) -> S]
      /\ \A n \in 1 .. Cardinality(I) : Select(s, I)[n] = s[Nth(I, n)]
  BY <1>1, <1>3 DEF Select
<1>5. Select(s, I) \in Seq(S) /\ Len(Select(s, I)) = Cardinality(I)
  BY <1>2, <1>4
<1>6. ToSet(Select(s, I)) = {s[i] : i \in I}
  BY <1>3, <1>4 DEF ToSet
<1> QED BY <1>2, <1>3, <1>4, <1>5, <1>6

\* A part takes no position twice.
THEOREM NthInjective ==
    ASSUME NEW m \in Nat, NEW I \in SUBSET (1 .. m)
    PROVE  \A n, k \in 1 .. Cardinality(I) : Nth(I, n) = Nth(I, k) => n = k
<1>1. Cardinality(I) \in Nat
  BY PositionsAreFinite
<1>2. /\ \A n \in 1 .. Cardinality(I) : Nth(I, n) \in I
      /\ \A n, k \in 1 .. Cardinality(I) : n < k => Nth(I, n) < Nth(I, k)
  BY NthProperties
<1> SUFFICES ASSUME NEW n \in 1 .. Cardinality(I), NEW k \in 1 .. Cardinality(I),
                    Nth(I, n) = Nth(I, k), n # k
             PROVE  FALSE
  OBVIOUS
<1>3. Nth(I, n) \in Nat
  <2>1. Nth(I, n) \in I
    BY <1>2
  <2>2. I \subseteq Nat
    OBVIOUS
  <2> QED BY <2>1, <2>2
<1>4. n < k \/ k < n
  BY <1>1
<1> QED BY <1>2, <1>3, <1>4

\* f takes the positions I to the positions J one by one, in their order.
Matches(f, I, a, J, b) ==
    /\ a \in Nat /\ I \in SUBSET (1 .. a)
    /\ b \in Nat /\ J \in SUBSET (1 .. b)
    /\ f \in [I -> J]
    /\ \A j \in J : \E i \in I : f[i] = j
    /\ \A i, k \in I : i < k => f[i] < f[k]

\* Positions that correspond one to one, in their order, are counted alike.
THEOREM NthOfImage ==
    ASSUME NEW a, NEW b, NEW I, NEW J, NEW f, Matches(f, I, a, J, b)
    PROVE  /\ Cardinality(J) = Cardinality(I)
           /\ \A n \in 1 .. Cardinality(I) : Nth(I, n) \in I /\ Nth(J, n) = f[Nth(I, n)]
<1>10. a \in Nat /\ I \in SUBSET (1 .. a) /\ b \in Nat /\ J \in SUBSET (1 .. b)
  BY DEF Matches
<1>0. /\ f \in [I -> J]
      /\ \A j \in J : \E i \in I : f[i] = j
      /\ \A i, k \in I : i < k => f[i] < f[k]
  BY DEF Matches
<1>1. /\ \A i \in I : i \in Nat /\ i \in Int
      /\ \A j \in J : j \in Nat /\ j \in Int
      /\ \A i \in I : f[i] \in J
  BY <1>0, <1>10
<1>2. \A i, k \in I : f[i] < f[k] => i < k
  <2> SUFFICES ASSUME NEW i \in I, NEW k \in I, f[i] < f[k], ~(i < k) PROVE FALSE
    OBVIOUS
  <2>1. i = k \/ k < i
    BY <1>1
  <2>2. f[k] = f[i] \/ f[k] < f[i]
    BY <2>1, <1>0
  <2>3. f[i] \in Nat /\ f[k] \in Nat
    BY <1>1
  <2> QED BY <2>2, <2>3
<1>3. \A i, k \in I : f[i] = f[k] => i = k
  <2> SUFFICES ASSUME NEW i \in I, NEW k \in I, f[i] = f[k], i # k PROVE FALSE
    OBVIOUS
  <2>1. k < i \/ i < k
    BY <1>1
  <2>2. f[k] < f[i] \/ f[i] < f[k]
    BY <2>1, <1>0
  <2>3. f[i] \in Nat /\ f[k] \in Nat
    BY <1>1
  <2> QED BY <2>2, <2>3
<1>4. IsFiniteSet(I)
  BY <1>10, PositionsAreFinite
<1>5. Cardinality(J) = Cardinality(I)
  <2>1. f \in Bijection(I, J)
    BY <1>0, <1>3 DEF Bijection, Injection, Surjection, IsInjective
  <2> QED BY <2>1, <1>4, FS_Bijection DEF ExistsBijection
<1>6. \A i \in I : Rank(J, f[i]) = Rank(I, i)
  <2> SUFFICES ASSUME NEW i \in I
               PROVE  Rank(J, f[i]) = Rank(I, i)
    OBVIOUS
  <2> DEFINE S == {k \in I : k < i}
             T == {j \in J : j < f[i]}
             g == [k \in S |-> f[k]]
  <2>1. \A k \in S : f[k] \in T
    BY <1>0, <1>1
  <2>2. \A j \in T : \E k \in S : f[k] = j
    <3> TAKE j \in T
    <3>1. PICK k \in I : f[k] = j
      BY <1>0
    <3>2. f[k] < f[i]
      BY <3>1
    <3>3. k < i
      BY <3>2, <1>2
    <3> QED BY <3>1, <3>3
  <2>3. S \subseteq I
    OBVIOUS
  <2> HIDE DEF S, T
  <2>4. g \in Bijection(S, T)
    BY <2>1, <2>2, <2>3, <1>0, <1>3 DEF Bijection, Injection, Surjection, IsInjective
  <2>5. IsFiniteSet(S)
    BY <2>3, <1>4, FS_Subset
  <2>6. Cardinality(T) = Cardinality(S)
    BY <2>4, <2>5, FS_Bijection DEF ExistsBijection
  <2> QED BY <2>6 DEF Rank, S, T
<1>7. /\ \A i \in I : Rank(I, i) \in 1 .. Cardinality(I)
      /\ \A n \in 1 .. Cardinality(I) : Nth(I, n) \in I /\ Rank(I, Nth(I, n)) = n
  BY <1>10, RankProperties
<1>8. \A j \in J : Nth(J, Rank(J, j)) = j
  BY <1>10, RankProperties
<1>9. ASSUME NEW n \in 1 .. Cardinality(I)
      PROVE  Nth(I, n) \in I /\ Nth(J, n) = f[Nth(I, n)]
  <2>1. Nth(I, n) \in I /\ Rank(I, Nth(I, n)) = n
    BY <1>7
  <2>2. f[Nth(I, n)] \in J /\ Rank(J, f[Nth(I, n)]) = n
    BY <2>1, <1>1, <1>6
  <2>3. Nth(J, Rank(J, f[Nth(I, n)])) = f[Nth(I, n)]
    BY <2>2, <1>8
  <2> QED BY <2>1, <2>2, <2>3
<1> QED BY <1>5, <1>9

\* Positions of some sequence.
Positions(F) == \E a \in Nat : F \in SUBSET (1 .. a)

\* Where the elements at positions I are among those at positions K.
Within(K, I) == {n \in 1 .. Cardinality(K) : Nth(K, n) \in I}

\* A part of a part is a part of the whole: J picks from K what I picks.
THEOREM NthOfPart ==
    ASSUME NEW K, Positions(K), NEW I, I \subseteq K, NEW J, J = Within(K, I)
    PROVE  /\ Cardinality(J) = Cardinality(I)
           /\ \A n \in 1 .. Cardinality(I) :
                  /\ Nth(I, n) \in I
                  /\ Nth(J, n) \in J
                  /\ Nth(K, Nth(J, n)) = Nth(I, n)
<1>0. PICK a \in Nat : K \in SUBSET (1 .. a)
  BY DEF Positions
<1> DEFINE f == [i \in I |-> Rank(K, i)]
<1>1. /\ \A i \in K : Rank(K, i) \in 1 .. Cardinality(K) /\ Nth(K, Rank(K, i)) = i
      /\ \A i, k \in K : i < k => Rank(K, i) < Rank(K, k)
      /\ \A n \in 1 .. Cardinality(K) : Nth(K, n) \in K /\ Rank(K, Nth(K, n)) = n
  BY <1>0, RankProperties
<1>2. Cardinality(K) \in Nat /\ J \in SUBSET (1 .. Cardinality(K)) /\ I \in SUBSET (1 .. a)
  BY <1>0, PositionsAreFinite DEF Within
<1>3. f \in [I -> J]
  BY <1>1 DEF Within
<1>4. \A j \in J : \E i \in I : f[i] = j
  BY <1>1 DEF Within
<1>5. \A i, k \in I : i < k => f[i] < f[k]
  BY <1>1
<1>6. \A i \in I : f[i] = Rank(K, i)
  OBVIOUS
<1> HIDE DEF f
<1>10. Matches(f, I, a, J, Cardinality(K))
  BY <1>0, <1>2, <1>3, <1>4, <1>5 DEF Matches
<1>7. /\ Cardinality(J) = Cardinality(I)
      /\ \A n \in 1 .. Cardinality(I) : Nth(I, n) \in I /\ Nth(J, n) = f[Nth(I, n)]
  BY <1>10, NthOfImage
<1>8. \A n \in 1 .. Cardinality(I) : f[Nth(I, n)] \in J
  BY <1>3, <1>7
<1>9. \A i \in I : Nth(K, f[i]) = i
  BY <1>1, <1>6
<1> QED BY <1>7, <1>8, <1>9

\* The positions up to and with n.
UpTo(F, n) == {i \in F : i <= n}

\* The first of the positions of a longer list are those of the longer list.
THEOREM NthOfPrefix ==
    ASSUME NEW F, Positions(F), NEW n \in Nat, NEW I, I = UpTo(F, n)
    PROVE  /\ Cardinality(I) \in Nat /\ Cardinality(F) \in Nat
           /\ Cardinality(I) <= Cardinality(F)
           /\ \A k \in 1 .. Cardinality(I) : Nth(F, k) = Nth(I, k)
<1>0. PICK a \in Nat : F \in SUBSET (1 .. a)
  BY DEF Positions
<1>1. I \in SUBSET F /\ I \in SUBSET (1 .. a)
  BY <1>0 DEF UpTo
<1>2. IsFiniteSet(F) /\ Cardinality(F) \in Nat /\ IsFiniteSet(I) /\ Cardinality(I) \in Nat
  BY <1>0, <1>1, PositionsAreFinite
<1>3. Cardinality(I) <= Cardinality(F)
  BY <1>1, <1>2, FS_Subset
<1>4. \A i \in I : Rank(I, i) = Rank(F, i)
  <2> TAKE i \in I
  <2>1. \A j \in F : j \in Nat
    BY <1>0
  <2>2. i \in Nat /\ i <= n
    BY <1>1, <2>1 DEF UpTo
  <2>3. \A j \in F : j < i => j \in I
    BY <2>1, <2>2 DEF UpTo
  <2>4. {j \in I : j < i} = {j \in F : j < i}
    BY <1>1, <2>3
  <2> QED BY <2>4 DEF Rank
<1>5. \A k \in 1 .. Cardinality(I) : Nth(I, k) \in I /\ Rank(I, Nth(I, k)) = k
  BY <1>1, RankProperties
<1>6. \A i \in F : Nth(F, Rank(F, i)) = i
  BY <1>0, RankProperties
<1>7. \A k \in 1 .. Cardinality(I) : Nth(F, k) = Nth(I, k)
  <2> TAKE k \in 1 .. Cardinality(I)
  <2>1. Nth(I, k) \in F /\ Rank(F, Nth(I, k)) = k
    BY <1>1, <1>4, <1>5
  <2> QED BY <2>1, <1>6
<1> QED BY <1>2, <1>3, <1>7

\* As many things as there is room for can each be given a place of its own.
THEOREM InjectionExists ==
    ASSUME NEW S, NEW T, IsFiniteSet(S), IsFiniteSet(T), Cardinality(S) <= Cardinality(T)
    PROVE  Injection(S, T) # {}
<1>1. PICK f : f \in Injection(S, 1 .. Cardinality(S))
  <2>1. ExistsBijection(S, 1 .. Cardinality(S))
    <3>1. ExistsBijection(1 .. Cardinality(S), S)
      BY FS_CardinalityType
    <3> QED BY <3>1, Fun_ExistsBijSymmetric
  <2> QED BY <2>1 DEF ExistsBijection, Bijection
<1>2. PICK g : g \in Injection(1 .. Cardinality(T), T)
  BY FS_CardinalityType DEF ExistsBijection, Bijection
<1>3. 1 .. Cardinality(S) \subseteq 1 .. Cardinality(T)
  <2>1. Cardinality(S) \in Nat /\ Cardinality(T) \in Nat
    BY FS_CardinalityType
  <2> QED BY <2>1
<1>4. /\ f \in [S -> 1 .. Cardinality(S)] /\ \A x, y \in S : f[x] = f[y] => x = y
      /\ g \in [1 .. Cardinality(T) -> T]
      /\ \A x, y \in 1 .. Cardinality(T) : g[x] = g[y] => x = y
  BY <1>1, <1>2 DEF Injection, IsInjective
<1> DEFINE h == [x \in S |-> g[f[x]]]
<1>5. \A x \in S : f[x] \in 1 .. Cardinality(T)
  BY <1>3, <1>4
<1>6. h \in [S -> T] /\ \A x, y \in S : h[x] = h[y] => x = y
  BY <1>4, <1>5
<1> HIDE DEF h
<1> QED BY <1>6, Fun_IsInj

-----------------------------------------------------------------------------
\* A bounded set of numbers that is not empty has a greatest element.
THEOREM MaximumExists ==
    ASSUME NEW N \in Nat, NEW K \in SUBSET (0 .. N), K # {}
    PROVE  \E m \in K : \A k \in K : m >= k
<1> DEFINE above(k) == k .. N
           Q == {T \in SUBSET (0 .. N) : \E k \in K : T = above(k)}
<1>1. IsFiniteSet(0 .. N)
  BY FS_Interval
<1>2. FiniteSubsetsOf(0 .. N) = SUBSET (0 .. N)
  BY <1>1, FS_FiniteSubsetsOfFinite
<1>3. IsWellFoundedOn(StrictSubsetOrdering(0 .. N), SUBSET (0 .. N))
  BY <1>2, FS_StrictSubsetOrderingWellFounded
<1>4. \A k \in K : above(k) \in Q
  OBVIOUS
<1>5. Q \in SUBSET (SUBSET (0 .. N)) /\ Q # {}
  BY <1>4
<1> HIDE DEF Q
<1>6. PICK T \in Q : \A U \in Q : ~ (<<U, T>> \in StrictSubsetOrdering(0 .. N))
  BY <1>3, <1>5, WFMin
<1> USE DEF Q
<1>7. PICK m \in K : T = above(m)
  OBVIOUS
<1>8. \A k \in K : m >= k
  <2> SUFFICES ASSUME NEW k \in K, k > m PROVE FALSE
    OBVIOUS
  <2>1. above(k) \subseteq above(m) /\ m \in above(m) /\ m \notin above(k)
    OBVIOUS
  <2>2. above(k) \in Q /\ above(k) \in SUBSET (0 .. N) /\ above(m) \in SUBSET (0 .. N)
    BY <1>4
  <2>3. <<above(k), T>> \in StrictSubsetOrdering(0 .. N)
    BY <2>1, <2>2, <1>7 DEF StrictSubsetOrdering
  <2> QED BY <2>2, <2>3, <1>6
<1> QED BY <1>8
-----------------------------------------------------------------------------
(* Removing and inserting one element. *)

\* What RemoveAt leaves of a sequence.
LEMMA RemoveAtProperties ==
    ASSUME NEW S, NEW s \in Seq(S), NEW i \in 1 .. Len(s)
    PROVE  /\ RemoveAt(s, i) \in Seq(S)
           /\ Len(RemoveAt(s, i)) = Len(s) - 1
           /\ \A j \in 1 .. Len(s) - 1 :
                RemoveAt(s, i)[j] = IF j < i THEN s[j] ELSE s[j + 1]
<1> DEFINE a == SubSeq(s, 1, i - 1)
           b == SubSeq(s, i + 1, Len(s))
<1>1. Len(s) \in Nat /\ i \in Nat
  OBVIOUS
<1>2. /\ a \in Seq(S) /\ Len(a) = i - 1
      /\ \A j \in 1 .. i - 1 : a[j] = s[j]
  BY <1>1, SubSeqProperties
<1>3. /\ b \in Seq(S) /\ Len(b) = Len(s) - i
      /\ \A j \in 1 .. Len(s) - i : b[j] = s[i + j]
  BY <1>1, SubSeqProperties
<1>4. /\ a \o b \in Seq(S)
      /\ Len(a \o b) = Len(a) + Len(b)
      /\ \A j \in 1 .. Len(a) + Len(b) :
            (a \o b)[j] = IF j <= Len(a) THEN a[j] ELSE b[j - Len(a)]
  <2> HIDE DEF a, b
  <2> QED BY <1>2, <1>3, ConcatProperties
<1> HIDE DEF a, b
<1>5. Len(a) + Len(b) = Len(s) - 1
  BY <1>1, <1>2, <1>3
<1>6. ASSUME NEW j \in 1 .. Len(s) - 1
      PROVE  (a \o b)[j] = IF j < i THEN s[j] ELSE s[j + 1]
  <2>1. CASE j < i
    BY <2>1, <1>1, <1>2, <1>4, <1>5
  <2>2. CASE ~(j < i)
    <3>1. j - Len(a) \in 1 .. Len(s) - i /\ ~(j <= Len(a))
      BY <2>2, <1>1, <1>2
    <3>2. (a \o b)[j] = b[j - Len(a)]
      BY <3>1, <1>4, <1>5
    <3>3. b[j - Len(a)] = s[i + (j - Len(a))]
      BY <3>1, <1>3
    <3>4. i + (j - Len(a)) = j + 1
      BY <1>1, <1>2
    <3> QED BY <2>2, <3>2, <3>3, <3>4, <1>1
  <2> QED BY <2>1, <2>2
<1>7. RemoveAt(s, i) = a \o b
  BY DEF RemoveAt, a, b
<1> QED BY <1>4, <1>5, <1>6, <1>7

\* What InsertAt makes of a sequence.
LEMMA InsertAtProperties ==
    ASSUME NEW S, NEW s \in Seq(S), NEW i \in 1 .. Len(s) + 1, NEW e \in S
    PROVE  /\ InsertAt(s, i, e) \in Seq(S)
           /\ Len(InsertAt(s, i, e)) = Len(s) + 1
           /\ \A j \in 1 .. Len(s) + 1 :
                InsertAt(s, i, e)[j] = IF j < i THEN s[j]
                                       ELSE IF j = i THEN e ELSE s[j - 1]
<1> DEFINE a == SubSeq(s, 1, i - 1)
           b == SubSeq(s, i, Len(s))
           ae == Append(a, e)
<1>1. Len(s) \in Nat /\ i \in Nat
  OBVIOUS
<1>2. /\ a \in Seq(S) /\ Len(a) = i - 1
      /\ \A j \in 1 .. i - 1 : a[j] = s[j]
  BY <1>1, SubSeqProperties
<1>3. /\ b \in Seq(S) /\ Len(b) = Len(s) - i + 1
      /\ \A j \in 1 .. Len(s) - i + 1 : b[j] = s[i + j - 1]
  BY <1>1, SubSeqProperties
<1>4. /\ ae \in Seq(S) /\ Len(ae) = i /\ ae[i] = e
      /\ \A j \in 1 .. i - 1 : ae[j] = s[j]
  <2> HIDE DEF a, b
  <2>1. Len(a) + 1 = i
    BY <1>1, <1>2
  <2>2. /\ ae \in Seq(S) /\ Len(ae) = Len(a) + 1 /\ ae[Len(a) + 1] = e
        /\ \A j \in 1 .. Len(a) : ae[j] = a[j]
    BY <1>2, AppendProperties
  <2> QED BY <1>2, <2>1, <2>2
<1>5. a \o <<e>> = ae
  <2> HIDE DEF a
  <2> QED BY <1>2, AppendIsConcat
<1> HIDE DEF a, b, ae
<1>6. /\ ae \o b \in Seq(S)
      /\ Len(ae \o b) = Len(ae) + Len(b)
      /\ \A j \in 1 .. Len(ae) + Len(b) :
            (ae \o b)[j] = IF j <= Len(ae) THEN ae[j] ELSE b[j - Len(ae)]
  BY <1>3, <1>4, ConcatProperties
<1>7. Len(ae) + Len(b) = Len(s) + 1
  BY <1>1, <1>3, <1>4
<1>8. ASSUME NEW j \in 1 .. Len(s) + 1
      PROVE  (ae \o b)[j] = IF j < i THEN s[j] ELSE IF j = i THEN e ELSE s[j - 1]
  <2>1. CASE j < i
    BY <2>1, <1>1, <1>4, <1>6, <1>7
  <2>2. CASE j = i
    BY <2>2, <1>1, <1>4, <1>6, <1>7
  <2>3. CASE j > i
    <3>1. j - i \in 1 .. Len(s) - i + 1 /\ ~(j <= Len(ae)) /\ i + (j - i) - 1 = j - 1
      BY <2>3, <1>1, <1>4
    <3>2. (ae \o b)[j] = b[j - i]
      BY <3>1, <1>4, <1>6, <1>7
    <3>3. b[j - i] = s[j - 1]
      BY <3>1, <1>3
    <3> QED BY <2>3, <3>2, <3>3, <1>1
  <2>4. j < i \/ j = i \/ j > i
    BY <1>1
  <2> QED BY <2>1, <2>2, <2>3, <2>4, Zenon
<1>9. InsertAt(s, i, e) = ae \o b
  <2>1. InsertAt(s, i, e) = (a \o <<e>>) \o b
    BY DEF InsertAt, a, b
  <2> QED BY <2>1, <1>5, Zenon
<1> QED BY <1>6, <1>7, <1>8, <1>9

=============================================================================
