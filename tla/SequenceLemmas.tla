--------------------------- MODULE SequenceLemmas ---------------------------
(***************************************************************************)
(* What the lists of a process, std::lists of the code and sequences here, *)
(* hold after an element is spliced out of them or appended to them.       *)
(***************************************************************************)
EXTENDS Integers, SequencesExt, SequenceTheorems, FiniteSetTheorems, TLAPS

\* Splicing the kth element out of a list.
LEMMA RemoveAtProperties ==
  ASSUME NEW S, NEW s \in Seq(S), NEW k \in DOMAIN s
  PROVE  /\ RemoveAt(s, k) \in Seq(S)
         /\ Len(RemoveAt(s, k)) = Len(s) - 1
         /\ \A j \in 1..(Len(s) - 1) : RemoveAt(s, k)[j] = IF j < k THEN s[j] ELSE s[j + 1]
<1> DEFINE a == SubSeq(s, 1, k - 1)
           b == SubSeq(s, k + 1, Len(s))
<1>1. Len(s) \in Nat /\ k \in 1..Len(s)
  BY LenProperties
<1>2. a \in Seq(S) /\ Len(a) = k - 1 /\ \A j \in 1..(k - 1) : a[j] = s[j]
  <2>1. 1 \in 1..(Len(s) + 1) /\ k - 1 \in 0..Len(s)
    BY <1>1
  <2> QED  BY <1>1, <2>1, SubSeqProperties
<1>3. b \in Seq(S) /\ Len(b) = Len(s) - k /\ \A j \in 1..(Len(s) - k) : b[j] = s[k + j]
  <2>1. k + 1 \in 1..(Len(s) + 1) /\ Len(s) \in k..Len(s)
    BY <1>1
  <2> QED  BY <1>1, <2>1, SubSeqProperties
<1>4. RemoveAt(s, k) = a \o b
  BY DEF RemoveAt
<1> HIDE DEF a, b
<1>5. a \o b \in Seq(S) /\ Len(a \o b) = Len(s) - 1
  BY <1>1, <1>2, <1>3, ConcatProperties
<1>6. \A j \in 1..(Len(s) - 1) : (a \o b)[j] = IF j < k THEN s[j] ELSE s[j + 1]
  BY <1>1, <1>2, <1>3, ConcatProperties
<1> QED  BY <1>4, <1>5, <1>6

\* Of a list without duplicates it takes that element, and nothing else.
LEMMA RemoveAtMembers ==
  ASSUME NEW S, NEW s \in Seq(S), NEW k \in DOMAIN s, IsInjective(s)
  PROVE  /\ ToSet(RemoveAt(s, k)) = ToSet(s) \ {s[k]}
         /\ IsInjective(RemoveAt(s, k))
<1> DEFINE r == RemoveAt(s, k)
<1>1. Len(s) \in Nat /\ DOMAIN s = 1..Len(s) /\ r \in Seq(S) /\ Len(r) = Len(s) - 1
      /\ \A j \in 1..(Len(s) - 1) : r[j] = IF j < k THEN s[j] ELSE s[j + 1]
  BY LenProperties, RemoveAtProperties
<1>2. DOMAIN r = 1..(Len(s) - 1)
  BY <1>1, LenProperties
<1> HIDE DEF r
<1>3. ASSUME NEW x \in ToSet(r)  PROVE  x \in ToSet(s) \ {s[k]}
  <2>1. PICK j \in 1..(Len(s) - 1) : x = r[j]
    BY <1>2 DEF ToSet
  <2>2. PICK i \in 1..Len(s) : i # k /\ x = s[i]
    BY <1>1, <2>1
  <2> QED  BY <1>1, <2>2 DEF ToSet, IsInjective
<1>4. ASSUME NEW x \in ToSet(s) \ {s[k]}  PROVE  x \in ToSet(r)
  <2>1. PICK i \in 1..Len(s) : i # k /\ x = s[i]
    BY <1>1 DEF ToSet
  <2>2. CASE i < k
    <3>1. i \in 1..(Len(s) - 1) /\ r[i] = s[i]
      BY <1>1, <2>1, <2>2
    <3> QED  BY <1>2, <2>1, <3>1 DEF ToSet
  <2>3. CASE i > k
    <3>1. i - 1 \in 1..(Len(s) - 1) /\ r[i - 1] = s[i]
      BY <1>1, <2>1, <2>3
    <3> QED  BY <1>2, <2>1, <3>1 DEF ToSet
  <2> QED  BY <1>1, <2>1, <2>2, <2>3
<1>5. ASSUME NEW i \in DOMAIN r, NEW j \in DOMAIN r, r[i] = r[j]  PROVE  i = j
  <2> DEFINE Old(h) == IF h < k THEN h ELSE h + 1
  <2>1. i \in 1..(Len(s) - 1) /\ j \in 1..(Len(s) - 1) /\ k \in Int
    BY <1>1, <1>2
  <2>2. /\ Old(i) \in 1..Len(s) /\ r[i] = s[Old(i)]
        /\ Old(j) \in 1..Len(s) /\ r[j] = s[Old(j)]
    BY <1>1, <2>1
  <2>3. Old(i) = Old(j)
    <3> HIDE DEF Old
    <3> QED  BY <1>1, <1>5, <2>2 DEF IsInjective
  <2> QED  BY <2>1, <2>3
<1>6. IsInjective(r)
  BY <1>5 DEF IsInjective
<1> QED  BY <1>3, <1>4, <1>6 DEF r

\* Appending a new element to a list.
LEMMA AppendMembers ==
  ASSUME NEW S, NEW s \in Seq(S), NEW x \in S
  PROVE  /\ Append(s, x) \in Seq(S)
         /\ ToSet(Append(s, x)) = ToSet(s) \cup {x}
         /\ IsInjective(s) /\ x \notin ToSet(s) => IsInjective(Append(s, x))
<1>1. /\ Append(s, x) \in Seq(S) /\ DOMAIN Append(s, x) = 1..(Len(s) + 1)
      /\ \A i \in 1..Len(s) : Append(s, x)[i] = s[i]
      /\ Append(s, x)[Len(s) + 1] = x
      /\ DOMAIN s = 1..Len(s) /\ Len(s) \in Nat
  BY AppendProperties, LenProperties
<1>2. ToSet(Append(s, x)) = ToSet(s) \cup {x}
  BY <1>1 DEF ToSet
<1>3. IsInjective(s) /\ x \notin ToSet(s) => IsInjective(Append(s, x))
  BY <1>1 DEF ToSet, IsInjective
<1> QED  BY <1>1, <1>2, <1>3

\* The elements of a list.
LEMMA MembersAre ==
  ASSUME NEW S, NEW s \in Seq(S)
  PROVE  ToSet(s) \subseteq S /\ \A k \in DOMAIN s : s[k] \in S
BY LenProperties, ElementOfSeq DEF ToSet

\* What is left after the splice keeps its order.
LEMMA RemoveAtOrder ==
  ASSUME NEW S, NEW s \in Seq(S), NEW k \in DOMAIN s
  PROVE  /\ \A i \in DOMAIN RemoveAt(s, k) :
              \E i0 \in DOMAIN s : i0 # k /\ RemoveAt(s, k)[i] = s[i0]
         /\ \A i, j \in DOMAIN RemoveAt(s, k) : i < j =>
              \E i0, j0 \in DOMAIN s : i0 < j0 /\ RemoveAt(s, k)[i] = s[i0] /\ RemoveAt(s, k)[j] = s[j0]
<1> DEFINE r == RemoveAt(s, k)
           Old(h) == IF h < k THEN h ELSE h + 1
<1>1. Len(s) \in Nat /\ DOMAIN s = 1..Len(s) /\ r \in Seq(S) /\ Len(r) = Len(s) - 1
      /\ \A j \in 1..(Len(s) - 1) : r[j] = IF j < k THEN s[j] ELSE s[j + 1]
  BY LenProperties, RemoveAtProperties
<1>2. DOMAIN r = 1..(Len(s) - 1)
  BY <1>1, LenProperties
<1> HIDE DEF r
<1>3. \A h \in DOMAIN r : Old(h) \in DOMAIN s /\ Old(h) # k /\ r[h] = s[Old(h)]
  BY <1>1, <1>2
<1>4. \A i, j \in DOMAIN r : i < j => Old(i) < Old(j)
  BY <1>1, <1>2
<1> HIDE DEF Old
<1> QED  BY <1>3, <1>4 DEF r

\* A sequence that has the elements RemoveAt leaves is its result.
LEMMA IsRemoveAt ==
  ASSUME NEW S, NEW s \in Seq(S), NEW k \in DOMAIN s, NEW r \in Seq(S), Len(r) = Len(s) - 1,
         \A j \in 1..(Len(s) - 1) : r[j] = IF j < k THEN s[j] ELSE s[j + 1]
  PROVE  r = RemoveAt(s, k)
<1>1. /\ RemoveAt(s, k) \in Seq(S) /\ Len(RemoveAt(s, k)) = Len(s) - 1
      /\ \A j \in 1..(Len(s) - 1) : RemoveAt(s, k)[j] = IF j < k THEN s[j] ELSE s[j + 1]
  BY RemoveAtProperties
<1>2. \A j \in 1..Len(r) : r[j] = RemoveAt(s, k)[j]
  BY <1>1
<1> QED  BY <1>1, <1>2, SeqEqual

\* A sequence that has the elements of s and then x is Append's result.
LEMMA IsAppend ==
  ASSUME NEW S, NEW s \in Seq(S), NEW x \in S, NEW r \in Seq(S), Len(r) = Len(s) + 1,
         \A j \in 1..Len(s) : r[j] = s[j], r[Len(s) + 1] = x
  PROVE  r = Append(s, x)
<1>1. /\ Append(s, x) \in Seq(S) /\ Len(Append(s, x)) = Len(s) + 1 /\ Len(s) \in Nat
      /\ \A j \in 1..Len(s) : Append(s, x)[j] = s[j]
      /\ Append(s, x)[Len(s) + 1] = x
  BY AppendProperties, LenProperties
<1>2. \A j \in 1..Len(r) : r[j] = Append(s, x)[j]
  BY <1>1
<1> QED  BY <1>1, <1>2, SeqEqual

\* A function that has an element of M for each position of s.
LEMMA Mapped ==
  ASSUME NEW S, NEW M, NEW s \in Seq(S), NEW g \in [DOMAIN s -> M]
  PROVE  g \in Seq(M) /\ Len(g) = Len(s) /\ DOMAIN g = DOMAIN s
<1>1. Len(s) \in Nat /\ DOMAIN s = 1..Len(s)
  BY LenProperties
<1>2. g \in [1..Len(s) -> M]
  BY <1>1
<1>3. g \in Seq(M)
  BY <1>1, <1>2, SeqDef
<1> QED  BY <1>1, <1>2, <1>3, LenProperties

\* h maps the elements of r as g does those of s.
MapsAs(h, r, g, s) == \A j \in DOMAIN r, i \in DOMAIN s : r[j] = s[i] => h[j] = g[i]

\* What an element stands for is removed with it.
LEMMA MappedRemove ==
  ASSUME NEW S, NEW M, NEW s \in Seq(S), NEW k \in DOMAIN s,
         NEW g \in [DOMAIN s -> M], NEW h \in [DOMAIN RemoveAt(s, k) -> M],
         MapsAs(h, RemoveAt(s, k), g, s)
  PROVE  h = RemoveAt(g, k)
<1> DEFINE r == RemoveAt(s, k)
<1>1. /\ Len(s) \in Nat /\ DOMAIN s = 1..Len(s) /\ k \in 1..Len(s)
      /\ r \in Seq(S) /\ Len(r) = Len(s) - 1 /\ DOMAIN r = 1..(Len(s) - 1)
      /\ \A j \in 1..(Len(s) - 1) : r[j] = IF j < k THEN s[j] ELSE s[j + 1]
  BY LenProperties, RemoveAtProperties
<1>2. g \in Seq(M) /\ Len(g) = Len(s) /\ DOMAIN g = DOMAIN s
  BY Mapped
<1>3. h \in [DOMAIN r -> M] /\ \A j \in DOMAIN r, i \in DOMAIN s : r[j] = s[i] => h[j] = g[i]
  BY DEF MapsAs
<1> HIDE DEF r
<1>4. ASSUME NEW j \in DOMAIN r
      PROVE  h[j] = IF j < k THEN g[j] ELSE g[j + 1]
  <2>1. j \in 1..(Len(s) - 1) /\ j \in DOMAIN s /\ j + 1 \in DOMAIN s
    BY <1>1
  <2>2. CASE j < k
    BY <1>1, <1>3, <2>1, <2>2
  <2>3. CASE ~(j < k)
    BY <1>1, <1>3, <2>1, <2>3
  <2> QED  BY <2>2, <2>3
<1>5. h \in Seq(M) /\ Len(h) = Len(r)
  <2>1. r \in Seq(S) /\ h \in [DOMAIN r -> M]
    BY <1>1, <1>3
  <2> QED  BY <2>1, Mapped
<1>6. /\ k \in DOMAIN g /\ Len(h) = Len(g) - 1
      /\ \A j \in 1..(Len(g) - 1) : h[j] = IF j < k THEN g[j] ELSE g[j + 1]
  BY <1>1, <1>2, <1>4, <1>5
<1> QED  BY <1>2, <1>5, <1>6, IsRemoveAt

\* And added with it.
LEMMA MappedAppend ==
  ASSUME NEW S, NEW M, NEW s \in Seq(S), NEW x \in S,
         NEW g \in [DOMAIN s -> M], NEW h \in [DOMAIN Append(s, x) -> M],
         \A j \in DOMAIN s : h[j] = g[j]
  PROVE  h = Append(g, h[Len(s) + 1])
<1>1. /\ Len(s) \in Nat /\ DOMAIN s = 1..Len(s) /\ Append(s, x) \in Seq(S)
      /\ DOMAIN Append(s, x) = 1..(Len(s) + 1) /\ Len(Append(s, x)) = Len(s) + 1
  BY LenProperties, AppendProperties
<1>2. g \in Seq(M) /\ Len(g) = Len(s)
  BY Mapped
<1>3. h \in Seq(M) /\ Len(h) = Len(Append(s, x))
  BY <1>1, Mapped
<1>4. h[Len(s) + 1] \in M
  BY <1>1
<1> QED  BY <1>1, <1>2, <1>3, <1>4, IsAppend

\* Taking the first element out of a list.
LEMMA TailMembers ==
  ASSUME NEW S, NEW s \in Seq(S), s # <<>>
  PROVE  /\ Head(s) \in ToSet(s) /\ Head(s) \in S
         /\ Tail(s) \in Seq(S)
         /\ ToSet(s) = ToSet(Tail(s)) \cup {Head(s)}
         /\ IsInjective(s) => IsInjective(Tail(s)) /\ Head(s) \notin ToSet(Tail(s))
<1>1. /\ Len(s) \in Nat /\ DOMAIN s = 1..Len(s) /\ Len(s) > 0
      /\ Head(s) = s[1] /\ Head(s) \in S
      /\ Tail(s) \in Seq(S) /\ DOMAIN Tail(s) = 1..(Len(s) - 1)
      /\ \A i \in 1..(Len(s) - 1) : Tail(s)[i] = s[i + 1]
  <2>1. Len(s) \in Nat /\ DOMAIN s = 1..Len(s) /\ Len(s) > 0
    BY LenProperties, EmptySeq
  <2>2. /\ Head(s) = s[1] /\ Head(s) \in S /\ Tail(s) \in Seq(S) /\ Len(Tail(s)) = Len(s) - 1
        /\ \A i \in 1..(Len(s) - 1) : Tail(s)[i] = s[i + 1]
    BY <2>1, HeadTailProperties
  <2> QED  BY <2>1, <2>2, LenProperties
<1>2. \A i \in 1..Len(s) : i = 1 \/ (i - 1 \in 1..(Len(s) - 1) /\ (i - 1) + 1 = i)
  BY <1>1
<1>3. ToSet(s) \subseteq ToSet(Tail(s)) \cup {Head(s)}
  <2> SUFFICES ASSUME NEW i \in 1..Len(s)  PROVE  s[i] \in ToSet(Tail(s)) \cup {Head(s)}
    BY <1>1 DEF ToSet
  <2>1. CASE i = 1
    BY <1>1, <2>1
  <2>2. CASE i # 1
    <3>1. i - 1 \in DOMAIN Tail(s) /\ Tail(s)[i - 1] = s[i]
      BY <1>1, <1>2, <2>2
    <3> QED  BY <3>1 DEF ToSet
  <2> QED  BY <2>1, <2>2
<1>4. ToSet(Tail(s)) \cup {Head(s)} \subseteq ToSet(s)
  BY <1>1 DEF ToSet
<1>5. IsInjective(s) => IsInjective(Tail(s)) /\ Head(s) \notin ToSet(Tail(s))
  BY <1>1 DEF IsInjective, ToSet
<1> QED  BY <1>1, <1>3, <1>4, <1>5

\* The last element of a list.
LEMMA LastMember ==
  ASSUME NEW S, NEW s \in Seq(S), s # <<>>
  PROVE  Last(s) \in ToSet(s) /\ Last(s) \in S
<1>1. Len(s) \in Nat /\ DOMAIN s = 1..Len(s) /\ Len(s) > 0
  BY LenProperties, EmptySeq
<1> QED  BY <1>1, ElementOfSeq DEF Last, ToSet

\* A list without duplicates has as many elements as places.
LEMMA MembersCount ==
  ASSUME NEW S, NEW s \in Seq(S), IsInjective(s)
  PROVE  IsFiniteSet(ToSet(s)) /\ Cardinality(ToSet(s)) = Len(s)
<1>1. Len(s) \in Nat /\ DOMAIN s = 1..Len(s)
  BY LenProperties
<1>2. s \in [1..Len(s) -> ToSet(s)]
  BY <1>1 DEF ToSet
<1>3. s \in Surjection(1..Len(s), ToSet(s)) /\ s \in Injection(1..Len(s), ToSet(s))
  BY <1>1, <1>2 DEF Surjection, Injection, IsInjective, ToSet
<1>4. IsFiniteSet(1..Len(s)) /\ Cardinality(1..Len(s)) = Len(s)
  BY <1>1, FS_Interval
<1> QED  BY <1>3, <1>4, FS_Surjection

\* r is in the order of the keys.
InOrderOf(key, r) == \A i, j \in DOMAIN r : i < j => key[r[i]] < key[r[j]]

\* A list whose elements have different keys can be put in their order: an element goes to
\* the place that is the number of elements whose key is not above its own.
LEMMA Sortable ==
  ASSUME NEW S, NEW s \in Seq(S), IsInjective(s), NEW key,
         \A c \in ToSet(s) : key[c] \in Int,
         \A c, d \in ToSet(s) : key[c] = key[d] => c = d
  PROVE  \E r \in [DOMAIN s -> ToSet(s)] : InOrderOf(key, r)
<1> DEFINE T == ToSet(s)
           n == Len(s)
           Below(c) == {d \in T : key[d] <= key[c]}
           g == [c \in T |-> Cardinality(Below(c))]
           r == [i \in 1..n |-> CHOOSE c \in T : g[c] = i]
<1>1. n \in Nat /\ DOMAIN s = 1..n /\ IsFiniteSet(T) /\ Cardinality(T) = n
  BY MembersCount, LenProperties
<1>2. \A c \in T : key[c] \in Int
  OBVIOUS
<1>3. \A c, d \in T : key[c] = key[d] => c = d
  OBVIOUS
<1> HIDE DEF T
<1>4. ASSUME NEW c \in T  PROVE  IsFiniteSet(Below(c)) /\ Cardinality(Below(c)) \in 1..n
  <2>1. IsFiniteSet(Below(c)) /\ Cardinality(Below(c)) <= n
    <3>1. Below(c) \in SUBSET T
      OBVIOUS
    <3> QED  BY <1>1, <3>1, FS_Subset
  <2>2. c \in Below(c)
    BY <1>2
  <2>3. Cardinality(Below(c)) \in Nat /\ Cardinality(Below(c)) # 0
    BY <2>1, <2>2, FS_CardinalityType, FS_EmptySet
  <2> QED  BY <1>1, <2>1, <2>3
<1>5. ASSUME NEW c \in T, NEW d \in T, key[c] < key[d]  PROVE  Cardinality(Below(c)) < Cardinality(Below(d))
  <2>1. key[c] \in Int /\ key[d] \in Int
    BY <1>2
  <2>2. Below(c) \in SUBSET Below(d) /\ d \in Below(d) /\ d \notin Below(c)
    BY <1>2, <1>5
  <2>3. Cardinality(Below(c)) <= Cardinality(Below(d)) /\ Cardinality(Below(c)) # Cardinality(Below(d))
    BY <1>4, <2>2, FS_Subset
  <2> HIDE DEF Below
  <2>4. Cardinality(Below(c)) \in 1..n /\ Cardinality(Below(d)) \in 1..n
    BY <1>4
  <2> QED  BY <1>1, <2>3, <2>4
<1>6. g \in Injection(T, 1..n)
  <2>1. g \in [T -> 1..n]
    BY <1>4
  <2>2. ASSUME NEW c \in T, NEW d \in T, g[c] = g[d]  PROVE  c = d
    <3> HIDE DEF Below
    <3>1. Cardinality(Below(c)) = Cardinality(Below(d)) /\ Cardinality(Below(c)) \in Int
      BY <1>1, <1>4, <2>2
    <3>2. key[c] \in Int /\ key[d] \in Int /\ ~(key[c] < key[d]) /\ ~(key[d] < key[c])
      BY <1>2, <1>5, <3>1
    <3> QED  BY <1>3, <3>2
  <2> QED  BY <2>1, <2>2 DEF Injection, IsInjective
<1>7. g \in Surjection(T, 1..n)
  <2> HIDE DEF n, g
  <2>1. IsFiniteSet(1..n) /\ Cardinality(1..n) = n
    BY <1>1, FS_Interval
  <2> QED  BY <1>1, <1>6, <2>1, FS_Injection
<1>8. \A i \in 1..n : r[i] \in T /\ g[r[i]] = i
  <2> HIDE DEF g
  <2> QED  BY <1>7 DEF Surjection
<1>9. ASSUME NEW i \in 1..n, NEW j \in 1..n, i < j  PROVE  key[r[i]] < key[r[j]]
  <2> HIDE DEF Below
  <2>1. PICK c \in T, d \in T : c = r[i] /\ d = r[j]
    BY <1>8
  <2>2. Cardinality(Below(c)) = i /\ Cardinality(Below(d)) = j
    BY <1>8, <2>1
  <2>3. key[c] \in Int /\ key[d] \in Int /\ ~(key[d] < key[c]) /\ c # d
    BY <1>2, <1>5, <1>9, <2>2, <1>1
  <2>4. key[c] < key[d]
    BY <1>3, <2>3
  <2> QED  BY <2>1, <2>4
<1>10. r \in [DOMAIN s -> ToSet(s)]
  BY <1>1, <1>8 DEF T
<1>11. InOrderOf(key, r)
  <2>1. DOMAIN r = 1..n
    OBVIOUS
  <2> HIDE DEF r
  <2> QED  BY <1>9, <2>1 DEF InOrderOf
<1> HIDE DEF r
<1> QED  BY <1>10, <1>11

\* A list in order has the elements of the one it was made from.
LEMMA SortedMembers ==
  ASSUME NEW S, NEW s \in Seq(S), IsInjective(s), NEW key,
         \A c \in ToSet(s) : key[c] \in Int,
         NEW r \in [DOMAIN s -> ToSet(s)], InOrderOf(key, r)
  PROVE  r \in Seq(S) /\ IsInjective(r) /\ ToSet(r) = ToSet(s) /\ Len(r) = Len(s)
<1>1. Len(s) \in Nat /\ DOMAIN s = 1..Len(s) /\ IsFiniteSet(ToSet(s)) /\ Cardinality(ToSet(s)) = Len(s)
  BY MembersCount, LenProperties
<1>2. r \in Seq(ToSet(s)) /\ Len(r) = Len(s) /\ DOMAIN r = 1..Len(s)
  BY <1>1, Mapped
<1>3. r \in Seq(S)
  BY <1>1, <1>2, MembersAre, SeqDef
<1>4. IsInjective(r)
  <2> SUFFICES ASSUME NEW i \in 1..Len(s), NEW j \in 1..Len(s), r[i] = r[j]  PROVE  i = j
    BY <1>2 DEF IsInjective
  <2>1. r[i] \in ToSet(s) /\ key[r[i]] \in Int
    BY <1>1
  <2>2. ~(i < j) /\ ~(j < i)
    BY <1>2, <2>1 DEF InOrderOf
  <2> QED  BY <1>1, <2>2
<1>5. IsFiniteSet(ToSet(r)) /\ Cardinality(ToSet(r)) = Len(s)
  BY <1>2, <1>3, <1>4, MembersCount
<1>6. ToSet(r) \in SUBSET ToSet(s)
  BY <1>1, <1>2 DEF ToSet
<1>7. ToSet(r) = ToSet(s)
  BY <1>1, <1>5, <1>6, FS_Subset
<1> QED  BY <1>2, <1>3, <1>4, <1>7

=============================================================================
