---------------------------- MODULE LayoutsProofs ----------------------------
(***************************************************************************)
(* Proofs about Layouts, for any number of processes, any types, and a     *)
(* pool of any length: types, the soundness of the pool, and the sharing   *)
(* of committed layouts.                                                   *)
(***************************************************************************)
EXTENDS Layouts, SequenceTheorems, FiniteSetTheorems, WellFoundedInduction, TLAPS

-----------------------------------------------------------------------------
(* Walking along a list. The theorems of induction take a predicate as a   *)
(* parameter, which no prover here can instantiate; that every set of      *)
(* natural numbers has a least one says the same of sets.                  *)

LessThan == {ss \in Nat \X Nat : ss[1] < ss[2]}

LEMMA LessThanWellFounded == IsWellFoundedOn(LessThan, Nat)
  BY NatLessThanWellFounded DEF OpToRel, LessThan

LEMMA LeastNumber ==
  ASSUME NEW T \in SUBSET Nat, T # {}
  PROVE  \E m \in T : \A k \in T : m <= k
<1>1. PICK m \in T : \A k \in T : <<k, m>> \notin LessThan
  BY LessThanWellFounded, WFMin
<1>2. \A k \in T : ~(k < m)
  BY <1>1 DEF LessThan
<1> QED  BY <1>2

\* f follows the links of list n for k steps.
Behind(m, a) == IF a \in Units THEN m[a].dis ELSE Null
Walks(f, p, m, n, k) == f = [i \in 0..k |-> IF i = 0 THEN p.first[n] ELSE Behind(m, f[i - 1])]

LEMMA WalkExists ==
  ASSUME NEW p, NEW m, NEW n, NEW k \in Nat
  PROVE  \E f : Walks(f, p, m, n, k)
<1> DEFINE T == {j \in Nat : ~ \E f : Walks(f, p, m, n, j)}
<1>1. SUFFICES ASSUME T # {} PROVE FALSE
  OBVIOUS
<1>2. PICK j \in T : \A i \in T : j <= i
  BY <1>1, LeastNumber
<1>3. CASE j = 0
  <2>1. Walks([i \in 0..0 |-> p.first[n]], p, m, n, 0)
    BY DEF Walks
  <2> QED  BY <1>2, <1>3, <2>1
<1>4. CASE j # 0
  <2>1. j - 1 \in Nat /\ j - 1 \notin T
    BY <1>2, <1>4
  <2>2. PICK f : Walks(f, p, m, n, j - 1)
    BY <2>1
  <2> DEFINE g == [i \in 0..j |-> IF i = j THEN Behind(m, f[j - 1]) ELSE f[i]]
  <2>3. \A i \in 0..(j - 1) : f[i] = IF i = 0 THEN p.first[n] ELSE Behind(m, f[i - 1])
    BY <2>2 DEF Walks
  <2>4. \A i \in 0..j : g[i] = IF i = 0 THEN p.first[n] ELSE Behind(m, g[i - 1])
    <3> SUFFICES ASSUME NEW i \in 0..j PROVE g[i] = IF i = 0 THEN p.first[n] ELSE Behind(m, g[i - 1])
      OBVIOUS
    <3>1. i # 0 => i - 1 \in 0..j /\ i - 1 # j /\ g[i - 1] = f[i - 1]
      BY <1>2
    <3>2. CASE i = j
      BY <3>1, <3>2, <1>4
    <3>3. CASE i # j
      <4>1. i \in 0..(j - 1)
        BY <3>3, <1>2
      <4> QED  BY <4>1, <3>3, <3>1, <2>3
    <3> QED  BY <3>2, <3>3
  <2>5. g = [i \in 0..j |-> IF i = 0 THEN p.first[n] ELSE Behind(m, g[i - 1])]
    <3>1. g = [i \in 0..j |-> g[i]]
      OBVIOUS
    <3> HIDE DEF g
    <3> QED  BY <3>1, <2>4
  <2>6. Walks(g, p, m, n, j)
    BY <2>5 DEF Walks
  <2> QED  BY <2>6, <1>2
<1> QED  BY <1>3, <1>4

\* The same of a function on any domain.
Follows(f, p, m, n, c) == f[0] = p.first[n] /\ \A i \in 1..c : f[i] = Behind(m, f[i - 1])

LEMMA FollowsUnique ==
  ASSUME NEW p, NEW m, NEW n, NEW c \in Nat, NEW f, NEW g,
         Follows(f, p, m, n, c), Follows(g, p, m, n, c)
  PROVE  \A i \in 0..c : f[i] = g[i]
<1> DEFINE T == {j \in 0..c : f[j] # g[j]}
<1>1. SUFFICES ASSUME T # {} PROVE FALSE
  OBVIOUS
<1>2. PICK j \in T : \A i \in T : j <= i
  <2>1. T \in SUBSET Nat
    OBVIOUS
  <2> HIDE DEF T
  <2> QED  BY <1>1, <2>1, LeastNumber
<1>3. j # 0
  BY DEF Follows
<1>4. j \in 1..c /\ j - 1 \in 0..c /\ j - 1 \notin T
  BY <1>2, <1>3
<1>5. f[j - 1] = g[j - 1]
  BY <1>4
<1> QED  BY <1>2, <1>4, <1>5 DEF Follows

LEMMA WalkFollows ==
  ASSUME NEW p, NEW m, NEW n, NEW k \in Nat, NEW f, Walks(f, p, m, n, k)
  PROVE  Follows(f, p, m, n, k)
BY DEF Walks, Follows

LEMMA NthIsWalk ==
  ASSUME NEW p, NEW m, NEW n, NEW k \in Nat
  PROVE  \E f : Walks(f, p, m, n, k) /\ Nth(p, m, n, k) = f[k]
<1> DEFINE F == CHOOSE f : Walks(f, p, m, n, k)
<1>1. Walks(F, p, m, n, k)
  BY WalkExists
<1>2. Nth(p, m, n, k) = F[k]
  BY DEF Nth, Walks, Behind
<1> QED  BY <1>1, <1>2

\* The definition of Nth as its readers think of it.
LEMMA NthStep ==
  ASSUME NEW p, NEW m, NEW n
  PROVE  /\ Nth(p, m, n, 0) = p.first[n]
         /\ \A k \in Nat \ {0} : Nth(p, m, n, k) = Behind(m, Nth(p, m, n, k - 1))
<1>1. Nth(p, m, n, 0) = p.first[n]
  <2>1. PICK f : Walks(f, p, m, n, 0) /\ Nth(p, m, n, 0) = f[0]
    BY NthIsWalk, 0 \in Nat
  <2> QED  BY <2>1 DEF Walks
<1>2. ASSUME NEW k \in Nat \ {0} PROVE Nth(p, m, n, k) = Behind(m, Nth(p, m, n, k - 1))
  <2>1. k - 1 \in Nat
    OBVIOUS
  <2>2. PICK f : Walks(f, p, m, n, k - 1) /\ Nth(p, m, n, k - 1) = f[k - 1]
    BY <2>1, NthIsWalk
  <2>3. PICK g : Walks(g, p, m, n, k) /\ Nth(p, m, n, k) = g[k]
    BY NthIsWalk
  <2>4. Follows(f, p, m, n, k - 1)
    BY <2>1, <2>2, WalkFollows
  <2>5. Follows(g, p, m, n, k)
    BY <2>3, WalkFollows
  <2>6. g[k] = Behind(m, g[k - 1]) /\ Follows(g, p, m, n, k - 1)
    BY <2>5 DEF Follows
  <2>7. \A i \in 0..(k - 1) : f[i] = g[i]
    BY <2>1, <2>4, <2>6, FollowsUnique
  <2>8. f[k - 1] = g[k - 1]
    BY <2>7
  <2> QED  BY <2>2, <2>3, <2>6, <2>8
<1> QED  BY <1>1, <1>2

LEMMA NthNext ==
  ASSUME NEW p, NEW m, NEW n, NEW k \in Nat \ {0}
  PROVE  Nth(p, m, n, k) = Behind(m, Nth(p, m, n, k - 1))
BY NthStep

\* Whatever starts where the list does and follows its links is the list.
LEMMA NthIs ==
  ASSUME NEW p, NEW m, NEW n, NEW c \in Nat, NEW g, Follows(g, p, m, n, c)
  PROVE  \A i \in 0..c : Nth(p, m, n, i) = g[i]
<1> DEFINE f == [i \in 0..c |-> Nth(p, m, n, i)]
<1>1. Follows(f, p, m, n, c)
  <2>1. f[0] = p.first[n]
    BY NthStep
  <2>2. ASSUME NEW i \in 1..c PROVE f[i] = Behind(m, f[i - 1])
    <3>1. i - 1 \in 0..c /\ i \in 0..c /\ i \in Nat \ {0}
      OBVIOUS
    <3>2. Nth(p, m, n, i) = Behind(m, Nth(p, m, n, i - 1))
      BY <3>1, NthStep
    <3> QED  BY <3>1, <3>2
  <2> QED  BY <2>1, <2>2 DEF Follows
<1>2. \A i \in 0..c : f[i] = Nth(p, m, n, i)
  OBVIOUS
<1> HIDE DEF f
<1>3. \A i \in 0..c : f[i] = g[i]
  BY <1>1, FollowsUnique
<1> QED  BY <1>2, <1>3

-----------------------------------------------------------------------------
(* The inductive invariant                                                 *)

\* The types of the pool and of the blocks in use.
Pools ==
  [begin: 1..(PoolUnits + 1), space: Nat, first: [1..ListSize -> Int], count: [1..ListSize -> Nat]]
Memories == [Units -> [dis: Int, len: Nat]]

PoolTypeOK ==
  /\ pool \in Pools /\ pool.begin + pool.space = PoolUnits + 1
  /\ memory \in Memories
  /\ live \subseteq [at: Units, units: Nat \ {0}]

\* The links of a list lead through as many different blocks as it counts, and end.
Linear(p, m, n) ==
  /\ \A k \in 0..(p.count[n] - 1) : Nth(p, m, n, k) \in Units
  /\ \A i, j \in 0..(p.count[n] - 1) : Nth(p, m, n, i) = Nth(p, m, n, j) => i = j
  /\ Nth(p, m, n, p.count[n]) = Null

Lists(p, m) == \A n \in 1..ListSize : Linear(p, m, n)

FreeBlocks(p, m) == UNION {ListBlocks(p, m, n) : n \in 1..ListSize}

\* Blocks in lists and blocks in use lie side by side from the first unit to the one before e.
Tiling(F, L, e) ==
  /\ \A b, c \in L \cup F : b = c \/ Covered(b) \cap Covered(c) = {}
  /\ UNION {Covered(b) : b \in L \cup F} = 1..(e - 1)
  /\ L \cap F = {}

PoolInv == PoolTypeOK /\ Lists(pool, memory) /\ Tiling(FreeBlocks(pool, memory), live, pool.begin)

\* Cookies are blocks in use, and each is in one place: in a request, with the spare ones of
\* one process, or about to be given back.
Posted(r) ==
  r = [at |-> r.at, owner |-> r.owner, host |-> r.host, shape |-> r.shape, type |-> r.type,
       iovec |-> r.iovec, outcome |-> r.outcome]

CookieInv ==
  /\ \A r \in requests : Posted(r) /\ r.owner \in Procs /\ r.at \in Units /\ CookieBlock(r.at) \in live
  /\ spare \in [Procs -> SUBSET Units] /\ surplus \in [Procs -> SUBSET Units]
  /\ \A p \in Procs : \A a \in spare[p] \cup surplus[p] : CookieBlock(a) \in live
  /\ \A r, s \in requests : r.at = s.at => r = s
  /\ \A r \in requests : \A p \in Procs : r.at \notin spare[p] \cup surplus[p]
  /\ \A p, q \in Procs : p # q => (spare[p] \cup surplus[p]) \cap (spare[q] \cup surplus[q]) = {}
  /\ \A p \in Procs : spare[p] \cap surplus[p] = {}

Cookies == {r.at : r \in requests} \cup UNION {spare[p] \cup surplus[p] : p \in Procs}

\* The array of umpi_iovec at address a of memory m. Invariants are stated with what they
\* depend on as parameters where the steps are compared.
StoredIn(m, a) ==
  IF m[a].dis = SCATTERED
  THEN [i \in 1..(m[a].len + 2) |-> m[a + i - 1]]
  ELSE <<m[a]>>

\* A layout has a block of its own.
SettledIn(m, blocks, cookies, a) ==
  /\ a \in Units /\ IsLayout(StoredIn(m, a))
  /\ Block(a, Len(StoredIn(m, a))) \in blocks
  /\ a \notin cookies

\* A pointer to a layout is to the one in list c that its type has.
PointsIn(m, c, at, t) ==
  at # Null => \E i \in DOMAIN c : c[i] = at /\ StoredIn(m, at) = t.layout

ListInv ==
  /\ committed \in Seq(Units)
  /\ \A i \in DOMAIN committed : SettledIn(memory, live, Cookies, committed[i])
  /\ \A i, j \in DOMAIN committed :
       i # j => StoredIn(memory, committed[i]) # StoredIn(memory, committed[j])

\* Who holds the mutex has stored a layout that is not in the list.
LockInv ==
  /\ lock \in Procs \cup {Nobody}
  /\ lock # Nobody =>
       /\ handle[lock] # NoType /\ handle[lock].at = Null
       /\ SettledIn(memory, live, Cookies, fresh)
       /\ StoredIn(memory, fresh) = handle[lock].type.layout
       /\ \A i \in DOMAIN committed : StoredIn(memory, committed[i]) # StoredIn(memory, fresh)

HandleInv ==
  /\ job \in Jobs /\ made \in Nat
  /\ DOMAIN handle = Procs
  /\ \A p \in Procs : handle[p] # NoType =>
       /\ handle[p] = [type |-> handle[p].type, at |-> handle[p].at]
       /\ IsLayout(handle[p].type.layout)
       /\ PointsIn(memory, committed, handle[p].at, handle[p].type)

RequestInv == \A r \in requests : PointsIn(memory, committed, r.iovec, r.type)

LayoutsInv == PoolInv /\ CookieInv /\ ListInv /\ LockInv /\ HandleInv /\ RequestInv

-----------------------------------------------------------------------------
(* The pool                                                                *)

\* A block moves from a list to those in use, or back, or is cut from the space.
LEMMA TileTaken ==
  ASSUME NEW F, NEW L, NEW e, NEW x \in F, Tiling(F, L, e)
  PROVE  Tiling(F \ {x}, L \cup {x}, e)
<1>1. (L \cup {x}) \cup (F \ {x}) = L \cup F
  OBVIOUS
<1>2. (L \cup {x}) \cap (F \ {x}) = {}
  BY DEF Tiling
<1> QED  BY <1>1, <1>2 DEF Tiling

LEMMA TileGiven ==
  ASSUME NEW F, NEW L, NEW e, NEW x \in L, Tiling(F, L, e)
  PROVE  Tiling(F \cup {x}, L \ {x}, e)
<1>1. (L \ {x}) \cup (F \cup {x}) = L \cup F
  OBVIOUS
<1>2. (L \ {x}) \cap (F \cup {x}) = {}
  BY DEF Tiling
<1> QED  BY <1>1, <1>2 DEF Tiling

LEMMA TileCovers ==
  ASSUME NEW F, NEW L, NEW e, Tiling(F, L, e), NEW b \in L \cup F
  PROVE  Covered(b) \subseteq 1..(e - 1)
BY DEF Tiling

LEMMA TileCut ==
  ASSUME NEW F, NEW L, NEW e \in Nat \ {0}, NEW n \in Nat \ {0}, Tiling(F, L, e)
  PROVE  Tiling(F, L \cup {Block(e, n)}, e + n) /\ Block(e, n) \notin L \cup F
<1> DEFINE x == Block(e, n)
           B == L \cup F
<1>1. Covered(x) = e..(e + n - 1)
  BY DEF Covered, Block
<1>2. \A b \in B : Covered(b) \subseteq 1..(e - 1)
  BY TileCovers
<1>3. \A b \in B : Covered(b) \cap Covered(x) = {}
  <2>1. (1..(e - 1)) \cap Covered(x) = {}
    BY <1>1
  <2> QED  BY <1>2, <2>1
<1>4. x \notin B
  <2>1. e \in Covered(x)
    BY <1>1
  <2> QED  BY <1>3, <2>1
<1>5. (L \cup {x}) \cup F = B \cup {x}
  OBVIOUS
<1>6. UNION {Covered(b) : b \in B \cup {x}} = 1..((e + n) - 1)
  <2>1. UNION {Covered(b) : b \in B} = 1..(e - 1)
    BY DEF Tiling
  <2>2. UNION {Covered(b) : b \in B \cup {x}} = (UNION {Covered(b) : b \in B}) \cup Covered(x)
    <3> HIDE DEF x, B
    <3> QED  OBVIOUS
  <2>3. (1..(e - 1)) \cup (e..(e + n - 1)) = 1..((e + n) - 1)
    OBVIOUS
  <2> QED  BY <2>1, <2>2, <2>3, <1>1
<1>7. \A b, c \in B : b = c \/ Covered(b) \cap Covered(c) = {}
  BY DEF Tiling
<1>8. L \cap F = {}
  BY DEF Tiling
<1> HIDE DEF x
<1>9. \A b, c \in B \cup {x} : b = c \/ Covered(b) \cap Covered(c) = {}
  BY <1>3, <1>7
<1>10. (L \cup {x}) \cap F = {}
  BY <1>4, <1>8
<1> QED  BY <1>4, <1>5, <1>6, <1>9, <1>10 DEF Tiling, x

LEMMA BlockFields ==
  ASSUME NEW a \in Int, NEW n \in Nat \ {0}
  PROVE  /\ Block(a, n).at = a /\ Block(a, n).units = n
         /\ Covered(Block(a, n)) = a..(a + n - 1) /\ a \in Covered(Block(a, n))
BY DEF Block, Covered

LEMMA SameBlock ==
  ASSUME NEW a, NEW b, NEW m, NEW n, Block(a, m) = Block(b, n)
  PROVE  a = b /\ m = n
<1>1. Block(a, m).at = Block(b, n).at /\ Block(a, m).units = Block(b, n).units
  OBVIOUS
<1> QED  BY <1>1 DEF Block

LEMMA CountType ==
  ASSUME NEW p \in Pools, NEW n \in 1..ListSize
  PROVE  p.count[n] \in Nat /\ p.first[n] \in Int
BY DEF Pools

\* The first block of a list.
LEMMA FirstListed ==
  ASSUME NEW p \in Pools, NEW m, NEW n \in 1..ListSize, p.count[n] > 0
  PROVE  Nth(p, m, n, 0) = p.first[n] /\ Block(p.first[n], n) \in ListBlocks(p, m, n)
<1>1. p.count[n] \in Nat /\ 0 \in 0..(p.count[n] - 1)
  BY CountType
<1>2. Nth(p, m, n, 0) = p.first[n]
  BY NthStep
<1> QED  BY <1>1, <1>2 DEF ListBlocks

\* A list that keeps its blocks and the links in them.
LEMMA ListKept ==
  ASSUME NEW p \in Pools, NEW m, NEW q \in Pools, NEW l, NEW n \in 1..ListSize,
         q.first[n] = p.first[n], q.count[n] = p.count[n], Linear(p, m, n),
         \A k \in 0..(p.count[n] - 1) : l[Nth(p, m, n, k)].dis = m[Nth(p, m, n, k)].dis
  PROVE  Linear(q, l, n) /\ ListBlocks(q, l, n) = ListBlocks(p, m, n)
<1> DEFINE c == p.count[n]
           g == [k \in 0..c |-> Nth(p, m, n, k)]
<1>1. c \in Nat
  BY CountType
<1>2. Follows(g, q, l, n, c)
  <2>1. g[0] = q.first[n]
    BY <1>1, NthStep
  <2>2. ASSUME NEW k \in 1..c PROVE g[k] = Behind(l, g[k - 1])
    <3>1. k - 1 \in 0..c /\ k \in 0..c /\ k \in Nat \ {0} /\ k - 1 \in 0..(c - 1)
      BY <1>1
    <3>2. Nth(p, m, n, k) = Behind(m, Nth(p, m, n, k - 1))
      BY <3>1, NthNext
    <3>3. Nth(p, m, n, k - 1) \in Units
      BY <3>1 DEF Linear
    <3>4. l[Nth(p, m, n, k - 1)].dis = m[Nth(p, m, n, k - 1)].dis
      BY <3>1
    <3> QED  BY <3>1, <3>2, <3>3, <3>4 DEF Behind
  <2> QED  BY <2>1, <2>2 DEF Follows
<1>3. \A k \in 0..c : Nth(q, l, n, k) = Nth(p, m, n, k)
  <2>1. \A k \in 0..c : g[k] = Nth(p, m, n, k)
    OBVIOUS
  <2> HIDE DEF g
  <2> QED  BY <1>1, <1>2, <2>1, NthIs
<1>4. c \in 0..c /\ \A k \in 0..(c - 1) : k \in 0..c
  BY <1>1
<1> HIDE DEF c
<1>5. Linear(q, l, n)
  BY <1>3, <1>4 DEF Linear, c
<1>6. ListBlocks(q, l, n) = ListBlocks(p, m, n)
  BY <1>3, <1>4 DEF ListBlocks, c
<1> QED  BY <1>5, <1>6

\* A list whose first block is taken: memory_pool::pop.
LEMMA ListPopped ==
  ASSUME NEW p \in Pools, NEW m, NEW q \in Pools, NEW l, NEW n \in 1..ListSize,
         p.count[n] > 0, q.first[n] = m[p.first[n]].dis, q.count[n] = p.count[n] - 1,
         Linear(p, m, n),
         \A k \in 1..(p.count[n] - 1) : l[Nth(p, m, n, k)].dis = m[Nth(p, m, n, k)].dis
  PROVE  /\ Linear(q, l, n)
         /\ ListBlocks(q, l, n) = ListBlocks(p, m, n) \ {Block(p.first[n], n)}
<1> DEFINE c == p.count[n]
           g == [k \in 0..(c - 1) |-> Nth(p, m, n, k + 1)]
<1>1. c \in Nat \ {0} /\ c - 1 \in Nat
  BY CountType
<1>2. Follows(g, q, l, n, c - 1)
  <2>1. g[0] = q.first[n]
    <3>1. 0 \in 0..(c - 1) /\ 0 + 1 = 1 /\ 1 \in Nat \ {0} /\ 1 - 1 = 0
      BY <1>1
    <3>2. Nth(p, m, n, 1) = Behind(m, Nth(p, m, n, 0)) /\ Nth(p, m, n, 0) = p.first[n]
      BY <3>1, NthStep
    <3>3. Nth(p, m, n, 0) \in Units
      BY <3>1 DEF Linear
    <3> QED  BY <3>1, <3>2, <3>3 DEF Behind
  <2>2. ASSUME NEW k \in 1..(c - 1) PROVE g[k] = Behind(l, g[k - 1])
    <3>1. /\ k - 1 \in 0..(c - 1) /\ k \in 0..(c - 1) /\ k + 1 \in Nat \ {0}
          /\ (k - 1) + 1 = k /\ (k + 1) - 1 = k /\ k \in 1..(c - 1)
      BY <1>1
    <3>2. Nth(p, m, n, k + 1) = Behind(m, Nth(p, m, n, k))
      <4>1. Nth(p, m, n, k + 1) = Behind(m, Nth(p, m, n, (k + 1) - 1))
        BY <3>1, NthNext
      <4> QED  BY <4>1, <3>1
    <3>3. Nth(p, m, n, k) \in Units
      BY <3>1 DEF Linear
    <3>4. l[Nth(p, m, n, k)].dis = m[Nth(p, m, n, k)].dis
      BY <3>1
    <3>5. g[k] = Nth(p, m, n, k + 1) /\ g[k - 1] = Nth(p, m, n, k)
      BY <3>1
    <3> QED  BY <3>2, <3>3, <3>4, <3>5 DEF Behind
  <2> QED  BY <2>1, <2>2 DEF Follows
<1>3. \A k \in 0..(c - 1) : Nth(q, l, n, k) = Nth(p, m, n, k + 1)
  <2>1. \A k \in 0..(c - 1) : g[k] = Nth(p, m, n, k + 1)
    OBVIOUS
  <2> HIDE DEF g
  <2> QED  BY <1>1, <1>2, <2>1, NthIs
<1>4. /\ \A k \in 0..(c - 1) : Nth(p, m, n, k) \in Units
      /\ \A i, j \in 0..(c - 1) : Nth(p, m, n, i) = Nth(p, m, n, j) => i = j
      /\ Nth(p, m, n, c) = Null
  BY DEF Linear
<1>5. Nth(p, m, n, 0) = p.first[n]
  BY NthStep
<1>6. q.count[n] = c - 1
  OBVIOUS
<1> HIDE DEF c, g
<1>7. Linear(q, l, n)
  <2>1. \A k \in 0..((c - 1) - 1) : k \in 0..(c - 1) /\ k + 1 \in 0..(c - 1)
    BY <1>1
  <2>2. \A i, j \in 0..((c - 1) - 1) : i + 1 = j + 1 => i = j
    OBVIOUS
  <2>3. Nth(q, l, n, c - 1) = Null
    <3>1. c - 1 \in 0..(c - 1) /\ (c - 1) + 1 = c
      BY <1>1
    <3> QED  BY <1>3, <1>4, <3>1
  <2>4. \A k \in 0..((c - 1) - 1) : Nth(q, l, n, k) \in Units
    BY <1>3, <1>4, <2>1
  <2>5. \A i, j \in 0..((c - 1) - 1) : Nth(q, l, n, i) = Nth(q, l, n, j) => i = j
    BY <1>3, <1>4, <2>1, <2>2
  <2> QED  BY <1>6, <2>3, <2>4, <2>5 DEF Linear
<1>8. ListBlocks(q, l, n) = {Block(Nth(p, m, n, k + 1), n) : k \in 0..((c - 1) - 1)}
  <2>1. \A k \in 0..((c - 1) - 1) : k \in 0..(c - 1)
    BY <1>1
  <2> QED  BY <1>3, <1>6, <2>1 DEF ListBlocks
<1>9. ListBlocks(p, m, n) = {Block(Nth(p, m, n, k), n) : k \in 0..(c - 1)}
  BY DEF ListBlocks, c
<1>10. \A k \in 0..((c - 1) - 1) : k + 1 \in 0..(c - 1) /\ k + 1 # 0
  BY <1>1
<1>11. \A k \in 0..(c - 1) : k # 0 => k - 1 \in 0..((c - 1) - 1) /\ (k - 1) + 1 = k
  BY <1>1
<1>12. 0 \in 0..(c - 1)
  BY <1>1
<1>13. \A k \in 0..(c - 1) : Block(Nth(p, m, n, k), n) = Block(p.first[n], n) => k = 0
  BY <1>4, <1>5, <1>12, SameBlock
<1>14. ASSUME NEW b \in ListBlocks(q, l, n)
       PROVE  b \in ListBlocks(p, m, n) \ {Block(p.first[n], n)}
  <2>1. PICK k \in 0..((c - 1) - 1) : b = Block(Nth(p, m, n, k + 1), n)
    BY <1>8
  <2>2. k + 1 \in 0..(c - 1) /\ k + 1 # 0
    BY <1>10
  <2> QED  BY <1>9, <1>13, <2>1, <2>2
<1>15. ASSUME NEW b \in ListBlocks(p, m, n) \ {Block(p.first[n], n)}
       PROVE  b \in ListBlocks(q, l, n)
  <2>1. PICK k \in 0..(c - 1) : b = Block(Nth(p, m, n, k), n)
    BY <1>9
  <2>2. k # 0
    BY <1>5, <2>1
  <2>3. k - 1 \in 0..((c - 1) - 1) /\ (k - 1) + 1 = k
    BY <1>11, <2>2
  <2>4. b = Block(Nth(p, m, n, (k - 1) + 1), n)
    BY <2>1, <2>3
  <2> QED  BY <1>8, <2>3, <2>4
<1> QED  BY <1>7, <1>14, <1>15

\* A list that a block is put in front of: memory_pool::push.
LEMMA ListPushed ==
  ASSUME NEW p \in Pools, NEW m, NEW q \in Pools, NEW l, NEW n \in 1..ListSize, NEW a \in Units,
         q.first[n] = a, q.count[n] = p.count[n] + 1, l[a].dis = p.first[n],
         Linear(p, m, n),
         \A k \in 0..(p.count[n] - 1) :
           /\ l[Nth(p, m, n, k)].dis = m[Nth(p, m, n, k)].dis
           /\ Nth(p, m, n, k) # a
  PROVE  /\ Linear(q, l, n)
         /\ ListBlocks(q, l, n) = ListBlocks(p, m, n) \cup {Block(a, n)}
<1> DEFINE c == p.count[n]
           g == [k \in 0..(c + 1) |-> IF k = 0 THEN a ELSE Nth(p, m, n, k - 1)]
<1>1. c \in Nat /\ c + 1 \in Nat
  BY CountType
<1>2. Follows(g, q, l, n, c + 1)
  <2>1. g[0] = q.first[n]
    BY <1>1
  <2>2. ASSUME NEW k \in 1..(c + 1) PROVE g[k] = Behind(l, g[k - 1])
    <3>1. k \in 0..(c + 1) /\ k # 0 /\ k - 1 \in 0..(c + 1)
      BY <1>1
    <3>2. CASE k = 1
      <4>1. g[k] = p.first[n] /\ g[k - 1] = a
        <5>1. Nth(p, m, n, 0) = p.first[n]
          BY NthStep
        <5> QED  BY <3>1, <3>2, <5>1
      <4> QED  BY <4>1 DEF Behind
    <3>3. CASE k # 1
      <4>1. /\ k - 1 \in Nat \ {0} /\ k - 2 \in 0..(c - 1) /\ (k - 1) - 1 = k - 2
            /\ k - 1 # 0
        BY <1>1, <3>3
      <4>2. g[k] = Nth(p, m, n, k - 1) /\ g[k - 1] = Nth(p, m, n, k - 2)
        BY <3>1, <4>1
      <4>3. Nth(p, m, n, k - 1) = Behind(m, Nth(p, m, n, k - 2))
        BY <4>1, NthStep
      <4>4. Nth(p, m, n, k - 2) \in Units
        BY <4>1 DEF Linear
      <4>5. l[Nth(p, m, n, k - 2)].dis = m[Nth(p, m, n, k - 2)].dis
        BY <4>1
      <4> QED  BY <4>2, <4>3, <4>4, <4>5 DEF Behind
    <3> QED  BY <3>2, <3>3
  <2> QED  BY <2>1, <2>2 DEF Follows
<1>3. /\ Nth(q, l, n, 0) = a
      /\ \A k \in 1..(c + 1) : Nth(q, l, n, k) = Nth(p, m, n, k - 1)
  <2>1. g[0] = a /\ \A k \in 1..(c + 1) : g[k] = Nth(p, m, n, k - 1)
    BY <1>1
  <2>2. 0 \in 0..(c + 1) /\ \A k \in 1..(c + 1) : k \in 0..(c + 1)
    BY <1>1
  <2> HIDE DEF g
  <2>3. \A k \in 0..(c + 1) : Nth(q, l, n, k) = g[k]
    BY <1>1, <1>2, NthIs
  <2> QED  BY <2>1, <2>2, <2>3
<1>4. /\ \A k \in 0..(c - 1) : Nth(p, m, n, k) \in Units /\ Nth(p, m, n, k) # a
      /\ \A i, j \in 0..(c - 1) : Nth(p, m, n, i) = Nth(p, m, n, j) => i = j
      /\ Nth(p, m, n, c) = Null
  BY DEF Linear
<1>5. q.count[n] = c + 1
  OBVIOUS
<1> HIDE DEF c, g
<1>6. \A k \in 0..((c + 1) - 1) : k # 0 => k \in 1..(c + 1) /\ k - 1 \in 0..(c - 1)
  BY <1>1
<1>7. \A k \in 0..((c + 1) - 1) : Nth(q, l, n, k) = IF k = 0 THEN a ELSE Nth(p, m, n, k - 1)
  BY <1>3, <1>6
<1>8. Linear(q, l, n)
  <2>1. \A k \in 0..((c + 1) - 1) : Nth(q, l, n, k) \in Units
    BY <1>4, <1>6, <1>7
  <2>2. ASSUME NEW i \in 0..((c + 1) - 1), NEW j \in 0..((c + 1) - 1),
               Nth(q, l, n, i) = Nth(q, l, n, j)
        PROVE  i = j
    <3>1. CASE i = 0 \/ j = 0
      BY <1>4, <1>6, <1>7, <2>2, <3>1
    <3>2. CASE i # 0 /\ j # 0
      <4>1. i - 1 = j - 1
        BY <1>4, <1>6, <1>7, <2>2, <3>2
      <4> QED  BY <4>1
    <3> QED  BY <3>1, <3>2
  <2>3. Nth(q, l, n, c + 1) = Null
    <3>1. c + 1 \in 1..(c + 1) /\ (c + 1) - 1 = c
      BY <1>1
    <3> QED  BY <1>3, <1>4, <3>1
  <2> QED  BY <1>5, <2>1, <2>2, <2>3 DEF Linear
<1>9. ListBlocks(q, l, n) = {Block(Nth(q, l, n, k), n) : k \in 0..((c + 1) - 1)}
  BY <1>5 DEF ListBlocks
<1>10. ListBlocks(p, m, n) = {Block(Nth(p, m, n, k), n) : k \in 0..(c - 1)}
  BY DEF ListBlocks, c
<1>11. \A k \in 0..(c - 1) : k + 1 \in 0..((c + 1) - 1) /\ k + 1 # 0 /\ (k + 1) - 1 = k
  BY <1>1
<1>12. 0 \in 0..((c + 1) - 1)
  BY <1>1
<1>13. ASSUME NEW b \in ListBlocks(q, l, n)
       PROVE  b \in ListBlocks(p, m, n) \cup {Block(a, n)}
  <2>1. PICK k \in 0..((c + 1) - 1) : b = Block(Nth(q, l, n, k), n)
    BY <1>9
  <2>2. CASE k = 0
    BY <1>7, <2>1, <2>2
  <2>3. CASE k # 0
    <3>1. Nth(q, l, n, k) = Nth(p, m, n, k - 1) /\ k - 1 \in 0..(c - 1)
      BY <1>6, <1>7, <2>3
    <3> QED  BY <1>10, <2>1, <3>1
  <2> QED  BY <2>2, <2>3
<1>14. ASSUME NEW b \in ListBlocks(p, m, n) PROVE b \in ListBlocks(q, l, n)
  <2>1. PICK k \in 0..(c - 1) : b = Block(Nth(p, m, n, k), n)
    BY <1>10
  <2>2. Nth(q, l, n, k + 1) = Nth(p, m, n, k)
    <3>1. Nth(q, l, n, k + 1) = Nth(p, m, n, (k + 1) - 1)
      BY <1>7, <1>11
    <3> QED  BY <3>1, <1>11
  <2> QED  BY <1>9, <1>11, <2>1, <2>2
<1>15. Block(a, n) \in ListBlocks(q, l, n)
  BY <1>7, <1>9, <1>12
<1> QED  BY <1>8, <1>13, <1>14, <1>15

\* What memory_pool::alloc and dealloc do to the fields of the pool.
LEMMA AllocatedFromList ==
  ASSUME NEW p \in Pools, NEW m, NEW n \in 1..ListSize, p.count[n] > 0, m[p.first[n]].dis \in Int
  PROVE  /\ Allocated(p, m, n) \in Pools
         /\ Allocated(p, m, n).begin = p.begin /\ Allocated(p, m, n).space = p.space
         /\ Allocated(p, m, n).first[n] = m[p.first[n]].dis
         /\ Allocated(p, m, n).count[n] = p.count[n] - 1
         /\ \A k \in 1..ListSize \ {n} :
              /\ Allocated(p, m, n).first[k] = p.first[k]
              /\ Allocated(p, m, n).count[k] = p.count[k]
<1>1. p.count[n] \in Nat /\ p.count[n] - 1 \in Nat
  BY CountType
<1>2. Listed(p, n)
  <2>1. n <= ListSize
    BY PoolAssumption
  <2> QED  BY <2>1 DEF Listed
<1>3. p = [begin |-> p.begin, space |-> p.space, first |-> p.first, count |-> p.count]
  BY DEF Pools
<1>4. Allocated(p, m, n) =
        [begin |-> p.begin, space |-> p.space,
         first |-> [p.first EXCEPT ![n] = m[p.first[n]].dis],
         count |-> [p.count EXCEPT ![n] = p.count[n] - 1]]
  BY <1>2, <1>3 DEF Allocated, BehindFirst
<1>5. p.first \in [1..ListSize -> Int] /\ p.count \in [1..ListSize -> Nat]
  BY DEF Pools
<1>6. /\ [p.first EXCEPT ![n] = m[p.first[n]].dis] \in [1..ListSize -> Int]
      /\ [p.count EXCEPT ![n] = p.count[n] - 1] \in [1..ListSize -> Nat]
  BY <1>1, <1>5
<1>7. Allocated(p, m, n) \in Pools
  BY <1>4, <1>6 DEF Pools
<1>8. /\ Allocated(p, m, n).first = [p.first EXCEPT ![n] = m[p.first[n]].dis]
      /\ Allocated(p, m, n).count = [p.count EXCEPT ![n] = p.count[n] - 1]
      /\ Allocated(p, m, n).begin = p.begin /\ Allocated(p, m, n).space = p.space
  BY <1>4
<1>9. /\ Allocated(p, m, n).first[n] = m[p.first[n]].dis
      /\ Allocated(p, m, n).count[n] = p.count[n] - 1
  BY <1>5, <1>8
<1>10. ASSUME NEW k \in 1..ListSize \ {n}
       PROVE  Allocated(p, m, n).first[k] = p.first[k] /\ Allocated(p, m, n).count[k] = p.count[k]
  BY <1>5, <1>8
<1> QED  BY <1>7, <1>8, <1>9, <1>10

LEMMA AllocatedFromSpace ==
  ASSUME NEW p \in Pools, NEW m, NEW n \in Nat \ {0}, ~Listed(p, n), n <= p.space,
         p.begin + p.space = PoolUnits + 1
  PROVE  /\ Allocated(p, m, n) \in Pools
         /\ Allocated(p, m, n).begin = p.begin + n
         /\ Allocated(p, m, n).begin + Allocated(p, m, n).space = PoolUnits + 1
         /\ Allocated(p, m, n).first = p.first
         /\ Allocated(p, m, n).count = p.count
<1>1. p = [begin |-> p.begin, space |-> p.space, first |-> p.first, count |-> p.count]
  BY DEF Pools
<1>2. Allocated(p, m, n) =
        [begin |-> p.begin + n, space |-> p.space - n, first |-> p.first, count |-> p.count]
  BY <1>1 DEF Allocated
<1>3. p.begin \in 1..(PoolUnits + 1) /\ p.space \in Nat
  BY DEF Pools
<1>4. p.begin + n \in 1..(PoolUnits + 1) /\ p.space - n \in Nat
      /\ (p.begin + n) + (p.space - n) = PoolUnits + 1
  BY <1>3, PoolAssumption
<1>5. p.first \in [1..ListSize -> Int] /\ p.count \in [1..ListSize -> Nat]
  BY DEF Pools
<1> QED  BY <1>2, <1>4, <1>5 DEF Pools

LEMMA DeallocatedFields ==
  ASSUME NEW p \in Pools, NEW a \in Units, NEW n \in 1..ListSize
  PROVE  /\ Deallocated(p, a, n) \in Pools
         /\ Deallocated(p, a, n).begin = p.begin /\ Deallocated(p, a, n).space = p.space
         /\ Deallocated(p, a, n).first[n] = a
         /\ Deallocated(p, a, n).count[n] = p.count[n] + 1
         /\ \A k \in 1..ListSize \ {n} :
              /\ Deallocated(p, a, n).first[k] = p.first[k]
              /\ Deallocated(p, a, n).count[k] = p.count[k]
<1>1. p.count[n] \in Nat /\ p.count[n] + 1 \in Nat /\ a \in Int
  BY CountType DEF Units
<1>2. p = [begin |-> p.begin, space |-> p.space, first |-> p.first, count |-> p.count]
  BY DEF Pools
<1>3. Deallocated(p, a, n) =
        [begin |-> p.begin, space |-> p.space,
         first |-> [p.first EXCEPT ![n] = a], count |-> [p.count EXCEPT ![n] = p.count[n] + 1]]
  <2>1. Deallocated(p, a, n) = [[p EXCEPT !.first[n] = a] EXCEPT !.count[n] = p.count[n] + 1]
    BY <1>2 DEF Deallocated
  <2>2. [p EXCEPT !.first[n] = a] = [begin |-> p.begin, space |-> p.space,
                                     first |-> [p.first EXCEPT ![n] = a], count |-> p.count]
    BY <1>2
  <2> QED  BY <2>1, <2>2
<1>4. p.first \in [1..ListSize -> Int] /\ p.count \in [1..ListSize -> Nat]
  BY DEF Pools
<1>5. /\ [p.first EXCEPT ![n] = a] \in [1..ListSize -> Int]
      /\ [p.count EXCEPT ![n] = p.count[n] + 1] \in [1..ListSize -> Nat]
  BY <1>1, <1>4
<1>6. Deallocated(p, a, n) \in Pools
  BY <1>3, <1>5 DEF Pools
<1>7. /\ Deallocated(p, a, n).first = [p.first EXCEPT ![n] = a]
      /\ Deallocated(p, a, n).count = [p.count EXCEPT ![n] = p.count[n] + 1]
      /\ Deallocated(p, a, n).begin = p.begin /\ Deallocated(p, a, n).space = p.space
  BY <1>3
<1>8. Deallocated(p, a, n).first[n] = a /\ Deallocated(p, a, n).count[n] = p.count[n] + 1
  BY <1>4, <1>7
<1>9. ASSUME NEW k \in 1..ListSize \ {n}
      PROVE  Deallocated(p, a, n).first[k] = p.first[k] /\ Deallocated(p, a, n).count[k] = p.count[k]
  BY <1>4, <1>7
<1> QED  BY <1>6, <1>7, <1>8, <1>9

\* A list and its blocks in the tiling: they lie in the pool, and apart from all other blocks.
LEMMA ListedIsFree ==
  ASSUME NEW p, NEW m, NEW n \in 1..ListSize, NEW k \in 0..(p.count[n] - 1)
  PROVE  Block(Nth(p, m, n, k), n) \in FreeBlocks(p, m)
<1>1. Block(Nth(p, m, n, k), n) \in ListBlocks(p, m, n)
  BY DEF ListBlocks
<1> QED  BY <1>1 DEF FreeBlocks

LEMMA FreeIsListed ==
  ASSUME NEW p, NEW m, NEW b \in FreeBlocks(p, m)
  PROVE  \E n \in 1..ListSize : b \in ListBlocks(p, m, n)
BY DEF FreeBlocks

LEMMA ApartFromListed ==
  ASSUME NEW p, NEW m, NEW L, NEW e, Tiling(FreeBlocks(p, m), L, e), Lists(p, m),
         NEW n \in 1..ListSize, NEW k \in 0..(p.count[n] - 1),
         NEW b \in L \cup FreeBlocks(p, m), b # Block(Nth(p, m, n, k), n)
  PROVE  Nth(p, m, n, k) \notin Covered(b)
<1>1. Nth(p, m, n, k) \in Int
  BY DEF Lists, Linear, Units
<1>2. Nth(p, m, n, k) \in Covered(Block(Nth(p, m, n, k), n))
  BY <1>1, BlockFields
<1>3. Block(Nth(p, m, n, k), n) \in FreeBlocks(p, m)
  BY ListedIsFree
<1> QED  BY <1>2, <1>3 DEF Tiling

\* Lists whose blocks a write leaves alone.
LEMMA ListsKept ==
  ASSUME NEW p \in Pools, NEW m, NEW q \in Pools, NEW l, Lists(p, m),
         q.first = p.first, q.count = p.count,
         \A n \in 1..ListSize : \A k \in 0..(p.count[n] - 1) :
           l[Nth(p, m, n, k)].dis = m[Nth(p, m, n, k)].dis
  PROVE  Lists(q, l) /\ FreeBlocks(q, l) = FreeBlocks(p, m)
<1>1. ASSUME NEW n \in 1..ListSize
      PROVE  Linear(q, l, n) /\ ListBlocks(q, l, n) = ListBlocks(p, m, n)
  <2>1. Linear(p, m, n) /\ q.first[n] = p.first[n] /\ q.count[n] = p.count[n]
    BY DEF Lists
  <2>2. \A k \in 0..(p.count[n] - 1) : l[Nth(p, m, n, k)].dis = m[Nth(p, m, n, k)].dis
    OBVIOUS
  <2> QED  BY <2>1, <2>2, ListKept
<1> QED  BY <1>1 DEF Lists, FreeBlocks

SameOutside(l, m, x) == \A u \in Units : u \notin Covered(x) => l[u] = m[u]

SameButFor(q, p, n) ==
  \A k \in 1..ListSize \ {n} : q.first[k] = p.first[k] /\ q.count[k] = p.count[k]

\* No block of another size lies where x does.
Elsewhere(p, m, x) ==
  \A k \in 1..ListSize \ {x.units} : \A j \in 0..(p.count[k] - 1) : Nth(p, m, k, j) \notin Covered(x)

LEMMA OtherSizesElsewhere ==
  ASSUME NEW p, NEW m, NEW L, NEW e, Lists(p, m), Tiling(FreeBlocks(p, m), L, e),
         NEW x \in L \cup FreeBlocks(p, m)
  PROVE  Elsewhere(p, m, x)
<1> SUFFICES ASSUME NEW k \in 1..ListSize \ {x.units}, NEW j \in 0..(p.count[k] - 1)
             PROVE  Nth(p, m, k, j) \notin Covered(x)
  BY DEF Elsewhere
<1>1. x # Block(Nth(p, m, k, j), k)
  BY DEF Block
<1> QED  BY <1>1, ApartFromListed

LEMMA OtherListsKept ==
  ASSUME NEW p \in Pools, NEW m, NEW q \in Pools, NEW l, NEW x, Lists(p, m),
         Elsewhere(p, m, x), SameOutside(l, m, x), SameButFor(q, p, x.units)
  PROVE  \A k \in 1..ListSize \ {x.units} :
           Linear(q, l, k) /\ ListBlocks(q, l, k) = ListBlocks(p, m, k)
<1> SUFFICES ASSUME NEW k \in 1..ListSize \ {x.units}
             PROVE  Linear(q, l, k) /\ ListBlocks(q, l, k) = ListBlocks(p, m, k)
  OBVIOUS
<1>1. Linear(p, m, k)
  BY DEF Lists
<1>2. ASSUME NEW j \in 0..(p.count[k] - 1)
      PROVE  l[Nth(p, m, k, j)].dis = m[Nth(p, m, k, j)].dis
  <2>1. Nth(p, m, k, j) \notin Covered(x)
    BY DEF Elsewhere
  <2>2. Nth(p, m, k, j) \in Units
    BY <1>1 DEF Linear
  <2> QED  BY <2>1, <2>2 DEF SameOutside
<1>3. q.first[k] = p.first[k] /\ q.count[k] = p.count[k]
  BY DEF SameButFor
<1> QED  BY <1>1, <1>2, <1>3, ListKept

\* The blocks of all lists, when one list changes.
LEMMA OneListChanged ==
  ASSUME NEW p, NEW m, NEW q, NEW l, NEW n \in 1..ListSize,
         \A k \in 1..ListSize \ {n} : ListBlocks(q, l, k) = ListBlocks(p, m, k)
  PROVE  \A b : /\ b \in FreeBlocks(q, l) =>
                    b \in ListBlocks(q, l, n) \/ (b \in FreeBlocks(p, m) /\ b.units # n)
                /\ b \in FreeBlocks(p, m) =>
                    b \in ListBlocks(p, m, n) \/ (b \in FreeBlocks(q, l) /\ b.units # n)
<1>1. ASSUME NEW k \in 1..ListSize, NEW b \in ListBlocks(p, m, k) PROVE b.units = k
  BY DEF ListBlocks, Block
<1>2. ASSUME NEW k \in 1..ListSize, NEW b \in ListBlocks(q, l, k) PROVE b.units = k
  BY DEF ListBlocks, Block
<1>3. \A b : b \in FreeBlocks(p, m) <=> \E k \in 1..ListSize : b \in ListBlocks(p, m, k)
  BY DEF FreeBlocks
<1>4. \A b : b \in FreeBlocks(q, l) <=> \E k \in 1..ListSize : b \in ListBlocks(q, l, k)
  BY DEF FreeBlocks
<1> QED  BY <1>1, <1>2, <1>3, <1>4

LEMMA InOneList ==
  ASSUME NEW p, NEW m, NEW n \in 1..ListSize, NEW b
  PROVE  /\ b \in ListBlocks(p, m, n) => b \in FreeBlocks(p, m) /\ b.units = n
         /\ b \in FreeBlocks(p, m) /\ b.units = n => b \in ListBlocks(p, m, n)
<1>1. ASSUME NEW k \in 1..ListSize, NEW c \in ListBlocks(p, m, k) PROVE c.units = k
  BY DEF ListBlocks, Block
<1>2. \A c : c \in FreeBlocks(p, m) <=> \E k \in 1..ListSize : c \in ListBlocks(p, m, k)
  BY DEF FreeBlocks
<1> QED  BY <1>1, <1>2

\* What an allocation promises to its caller and to everybody else.
Granted(words) ==
  LET n == Len(words)
      a == Address(pool, n)
  IN
  /\ a \in Units /\ Block(a, n) \notin live
  /\ live' = live \cup {Block(a, n)}
  /\ \A i \in 1..n : memory'[a + i - 1] = words[i]
  /\ \A b \in live : \A u \in Covered(b) : u \in Units /\ memory'[u] = memory[u]

LEMMA AllocatesFromList ==
  ASSUME PoolInv, NEW words \in Seq([dis: Int, len: Nat]), words # <<>>, Allocates(words),
         Listed(pool, Len(words))
  PROVE  PoolInv' /\ Granted(words)
<1> DEFINE n == Len(words)
           a == Address(pool, n)
           x == Block(a, n)
           F == FreeBlocks(pool, memory)
<1>1. n \in Nat \ {0}
  OBVIOUS
<1>2. pool \in Pools /\ pool.begin + pool.space = PoolUnits + 1 /\ memory \in Memories
      /\ live \subseteq [at: Units, units: Nat \ {0}] /\ pool.begin \in 1..(PoolUnits + 1)
  BY DEF PoolInv, PoolTypeOK, Pools
<1>3. Lists(pool, memory) /\ Tiling(F, live, pool.begin)
  BY DEF PoolInv
<1>4. n \in 1..ListSize /\ pool.count[n] > 0 /\ a = pool.first[n]
  BY <1>1, PoolAssumption DEF Listed, Address
<1>5. Linear(pool, memory, n) /\ pool.count[n] \in Nat /\ 0 \in 0..(pool.count[n] - 1)
  BY <1>2, <1>3, <1>4, CountType DEF Lists
<1>6. Nth(pool, memory, n, 0) = a /\ x \in ListBlocks(pool, memory, n)
  BY <1>2, <1>4, FirstListed
<1>7. a \in Units /\ a \in Int
  BY <1>5, <1>6 DEF Linear, Units
<1>8. x \in F /\ x.units = n /\ Covered(x) = a..(a + n - 1)
  BY <1>1, <1>4, <1>6, <1>7, InOneList, BlockFields
<1>9. /\ pool' = Allocated(pool, memory, n) /\ live' = live \cup {x}
      /\ memory' = [u \in Units |-> IF u \in a..(a + n - 1) THEN words[u - a + 1] ELSE memory[u]]
  BY DEF Allocates
<1>10. Covered(x) \subseteq Units
  <2>1. Covered(x) \subseteq 1..(pool.begin - 1)
    BY <1>3, <1>8, TileCovers
  <2>2. 1..(pool.begin - 1) \subseteq Units
    BY <1>2, PoolAssumption DEF Units
  <2> QED  BY <2>1, <2>2
<1>11. \A i \in 1..n : a + i - 1 \in a..(a + n - 1) /\ (a + i - 1) - a + 1 = i
  BY <1>1, <1>7
<1>12. /\ \A u \in a..(a + n - 1) : u - a + 1 \in 1..n
       /\ \A j \in 1..n : words[j] \in [dis: Int, len: Nat]
  <2>1. \A u \in a..(a + n - 1) : u - a + 1 \in 1..n
    BY <1>1, <1>7
  <2>2. \A j \in 1..n : words[j] \in [dis: Int, len: Nat]
    BY ElementOfSeq
  <2> QED  BY <2>1, <2>2
<1> HIDE DEF n, a, x, F
<1>13. \A u \in Units : u \notin Covered(x) => memory'[u] = memory[u]
  BY <1>8, <1>9
<1>14. \A i \in 1..n : memory'[a + i - 1] = words[i]
  <2> SUFFICES ASSUME NEW i \in 1..n PROVE memory'[a + i - 1] = words[i]
    OBVIOUS
  <2>1. a + i - 1 \in a..(a + n - 1) /\ a + i - 1 \in Units
    BY <1>8, <1>10, <1>11
  <2>2. memory'[a + i - 1] = words[(a + i - 1) - a + 1]
    BY <1>9, <2>1
  <2> QED  BY <1>11, <2>2
<1>15. memory' \in Memories
  <2>2. \A u \in a..(a + n - 1) : words[u - a + 1] \in [dis: Int, len: Nat]
    BY <1>12
  <2>3. \A u \in Units : memory[u] \in [dis: Int, len: Nat]
    BY <1>2 DEF Memories
  <2> QED  BY <1>9, <2>2, <2>3 DEF Memories
<1>16. memory[a].dis \in Int
  BY <1>2, <1>7 DEF Memories
<1>17. memory[pool.first[n]].dis \in Int
  BY <1>4, <1>16
<1>18. /\ pool' \in Pools /\ pool'.begin = pool.begin /\ pool'.space = pool.space
       /\ pool'.first[n] = memory[pool.first[n]].dis /\ pool'.count[n] = pool.count[n] - 1
       /\ \A k \in 1..ListSize \ {n} :
            pool'.first[k] = pool.first[k] /\ pool'.count[k] = pool.count[k]
  BY <1>2, <1>4, <1>9, <1>17, AllocatedFromList
<1>19. Linear(pool', memory', n) /\ ListBlocks(pool', memory', n) = ListBlocks(pool, memory, n) \ {x}
  <2>1. ASSUME NEW k \in 1..(pool.count[n] - 1)
        PROVE  memory'[Nth(pool, memory, n, k)].dis = memory[Nth(pool, memory, n, k)].dis
    <3>1. k \in 0..(pool.count[n] - 1) /\ k # 0
      BY <1>5
    <3>2. Nth(pool, memory, n, k) # a /\ Nth(pool, memory, n, k) \in Units
      BY <1>5, <1>6, <3>1 DEF Linear
    <3>3. x # Block(Nth(pool, memory, n, k), n)
      BY <3>2, SameBlock DEF x
    <3>4. Nth(pool, memory, n, k) \notin Covered(x)
      BY <1>3, <1>4, <1>8, <3>1, <3>3, ApartFromListed DEF F
    <3> QED  BY <1>13, <3>2, <3>4
  <2>2. /\ Linear(pool', memory', n)
        /\ ListBlocks(pool', memory', n) = ListBlocks(pool, memory, n) \ {Block(pool.first[n], n)}
    BY <1>2, <1>4, <1>5, <1>18, <2>1, ListPopped
  <2> QED  BY <1>4, <2>2 DEF x
<1>20. \A k \in 1..ListSize \ {n} :
         Linear(pool', memory', k) /\ ListBlocks(pool', memory', k) = ListBlocks(pool, memory, k)
  <2>1. SameOutside(memory', memory, x) /\ SameButFor(pool', pool, x.units)
    BY <1>8, <1>13, <1>18 DEF SameOutside, SameButFor
  <2>2. Elsewhere(pool, memory, x)
    BY <1>3, <1>8, OtherSizesElsewhere DEF F
  <2>3. pool \in Pools /\ pool' \in Pools
    BY <1>2, <1>18
  <2>4. \A k \in 1..ListSize \ {x.units} :
          Linear(pool', memory', k) /\ ListBlocks(pool', memory', k) = ListBlocks(pool, memory, k)
    BY <1>3, <2>1, <2>2, <2>3, OtherListsKept
  <2> QED  BY <1>8, <2>4
<1>21. Lists(pool', memory')
  BY <1>19, <1>20 DEF Lists
<1>22. FreeBlocks(pool', memory') = F \ {x}
  <2>1. \A b : /\ b \in FreeBlocks(pool', memory') =>
                    b \in ListBlocks(pool', memory', n) \/ (b \in F /\ b.units # n)
               /\ b \in F =>
                    b \in ListBlocks(pool, memory, n) \/ (b \in FreeBlocks(pool', memory') /\ b.units # n)
    BY <1>4, <1>20, OneListChanged DEF F
  <2>2. \A b : /\ b \in ListBlocks(pool, memory, n) => b \in F
               /\ b \in ListBlocks(pool', memory', n) => b \in FreeBlocks(pool', memory')
    BY <1>4, InOneList DEF F
  <2>3. x \notin ListBlocks(pool', memory', n) /\ x.units = n
    BY <1>8, <1>19
  <2>4. ASSUME NEW b \in FreeBlocks(pool', memory') PROVE b \in F \ {x}
    BY <1>19, <2>1, <2>2, <2>3
  <2>5. ASSUME NEW b \in F \ {x} PROVE b \in FreeBlocks(pool', memory')
    BY <1>19, <2>1, <2>2
  <2> QED  BY <2>4, <2>5
<1>23. Tiling(FreeBlocks(pool', memory'), live', pool'.begin)
  BY <1>3, <1>8, <1>9, <1>18, <1>22, TileTaken
<1>24. live' \subseteq [at: Units, units: Nat \ {0}]
  BY <1>1, <1>2, <1>7, <1>9 DEF x, Block
<1>25. PoolInv'
  BY <1>2, <1>15, <1>18, <1>21, <1>23, <1>24 DEF PoolInv, PoolTypeOK
<1>26. x \notin live
  BY <1>3, <1>8 DEF Tiling
<1>27. ASSUME NEW b \in live, NEW u \in Covered(b) PROVE u \in Units /\ memory'[u] = memory[u]
  <2>1. Covered(b) \subseteq 1..(pool.begin - 1)
    BY <1>3, TileCovers
  <2>2. 1..(pool.begin - 1) \subseteq Units
    BY <1>2, PoolAssumption DEF Units
  <2>3. u \notin Covered(x)
    BY <1>3, <1>8, <1>26 DEF Tiling
  <2> QED  BY <1>13, <2>1, <2>2, <2>3
<1> QED  BY <1>7, <1>9, <1>14, <1>25, <1>26, <1>27 DEF Granted, n, a, x

LEMMA AllocatesFromSpace ==
  ASSUME PoolInv, NEW words \in Seq([dis: Int, len: Nat]), words # <<>>, Allocates(words),
         ~Listed(pool, Len(words))
  PROVE  PoolInv' /\ Granted(words)
<1> DEFINE n == Len(words)
           a == Address(pool, n)
           x == Block(a, n)
           F == FreeBlocks(pool, memory)
<1>1. n \in Nat \ {0} /\ \A j \in 1..n : words[j] \in [dis: Int, len: Nat]
  <2>1. n \in Nat \ {0}
    OBVIOUS
  <2>2. \A j \in 1..n : words[j] \in [dis: Int, len: Nat]
    BY ElementOfSeq
  <2> QED  BY <2>1, <2>2
<1>2. pool \in Pools /\ pool.begin + pool.space = PoolUnits + 1 /\ memory \in Memories
      /\ live \subseteq [at: Units, units: Nat \ {0}]
      /\ pool.begin \in 1..(PoolUnits + 1) /\ pool.space \in Nat
  BY DEF PoolInv, PoolTypeOK, Pools
<1>3. Lists(pool, memory) /\ Tiling(F, live, pool.begin)
  BY DEF PoolInv
<1>4. n <= pool.space /\ a = pool.begin
  BY DEF Allocates, CanAlloc, Address
<1>5. a \in Int /\ a \in Nat \ {0} /\ a \in Units /\ a..(a + n - 1) \subseteq Units
  <2>1. n \in Nat \ {0} /\ a \in 1..(PoolUnits + 1) /\ a + n <= PoolUnits + 1 /\ PoolUnits \in Nat
    BY <1>1, <1>2, <1>4, PoolAssumption
  <2> HIDE DEF n, a
  <2>2. a \in 1..PoolUnits /\ a..(a + n - 1) \subseteq 1..PoolUnits
    BY <2>1
  <2> QED  BY <2>1, <2>2 DEF Units
<1>6. x.units = n /\ Covered(x) = a..(a + n - 1)
  BY <1>1, <1>5, BlockFields
<1>7. /\ pool' = Allocated(pool, memory, n) /\ live' = live \cup {x}
      /\ memory' = [u \in Units |-> IF u \in a..(a + n - 1) THEN words[u - a + 1] ELSE memory[u]]
  BY DEF Allocates
<1>8. /\ \A i \in 1..n : a + i - 1 \in a..(a + n - 1) /\ (a + i - 1) - a + 1 = i
      /\ \A u \in a..(a + n - 1) : u - a + 1 \in 1..n
  <2>1. n \in Int /\ a \in Int
    BY <1>1, <1>5
  <2> HIDE DEF n, a
  <2> QED  BY <2>1
<1>9. ~Listed(pool, n)
  OBVIOUS
<1> HIDE DEF n, a, x, F
<1>10. \A u \in Units : u \notin Covered(x) => memory'[u] = memory[u]
  BY <1>6, <1>7
<1>11. \A i \in 1..n : memory'[a + i - 1] = words[i]
  <2> SUFFICES ASSUME NEW i \in 1..n PROVE memory'[a + i - 1] = words[i]
    OBVIOUS
  <2>1. a + i - 1 \in a..(a + n - 1) /\ a + i - 1 \in Units
    BY <1>5, <1>8
  <2>2. memory'[a + i - 1] = words[(a + i - 1) - a + 1]
    BY <1>7, <2>1
  <2> QED  BY <1>8, <2>2
<1>12. memory' \in Memories
  <2>1. \A u \in a..(a + n - 1) : words[u - a + 1] \in [dis: Int, len: Nat]
    BY <1>1, <1>8
  <2>2. \A u \in Units : memory[u] \in [dis: Int, len: Nat]
    BY <1>2 DEF Memories
  <2> QED  BY <1>7, <2>1, <2>2 DEF Memories
<1>13. /\ pool' \in Pools /\ pool'.begin = pool.begin + n
       /\ pool'.begin + pool'.space = PoolUnits + 1
       /\ pool'.first = pool.first /\ pool'.count = pool.count
  BY <1>1, <1>2, <1>4, <1>7, <1>9, AllocatedFromSpace
<1>14. ASSUME NEW b \in live \cup F, NEW u \in Covered(b)
       PROVE  u \in Units /\ memory'[u] = memory[u]
  <2>1. u \in 1..(pool.begin - 1)
    BY <1>3, TileCovers
  <2>2. u \in Units /\ u \notin Covered(x)
    BY <1>1, <1>2, <1>4, <1>6, <2>1, PoolAssumption DEF Units
  <2> QED  BY <1>10, <2>2
<1>15. Lists(pool', memory') /\ FreeBlocks(pool', memory') = F
  <2>1. ASSUME NEW k \in 1..ListSize, NEW j \in 0..(pool.count[k] - 1)
        PROVE  memory'[Nth(pool, memory, k, j)].dis = memory[Nth(pool, memory, k, j)].dis
    <3>1. Block(Nth(pool, memory, k, j), k) \in F
      BY ListedIsFree DEF F
    <3>2. Nth(pool, memory, k, j) \in Int
      BY <1>3 DEF Lists, Linear, Units
    <3>3. k \in Nat \ {0}
      BY PoolAssumption
    <3>4. Nth(pool, memory, k, j) \in Covered(Block(Nth(pool, memory, k, j), k))
      BY <3>2, <3>3, BlockFields
    <3> QED  BY <1>14, <3>1, <3>4
  <2>2. Lists(pool', memory') /\ FreeBlocks(pool', memory') = FreeBlocks(pool, memory)
    <3>1. pool \in Pools /\ pool' \in Pools /\ pool'.first = pool.first /\ pool'.count = pool.count
          /\ Lists(pool, memory)
      BY <1>2, <1>3, <1>13
    <3> QED  BY <2>1, <3>1, ListsKept
  <2> QED  BY <2>2 DEF F
<1>16. Tiling(F, live \cup {x}, pool.begin + n) /\ x \notin live
  <2>1. pool.begin \in Nat \ {0} /\ x = Block(pool.begin, n)
    <3>1. pool.begin \in Nat \ {0}
      BY <1>4, <1>5
    <3>2. x = Block(pool.begin, n)
      BY <1>4 DEF x
    <3> QED  BY <3>1, <3>2
  <2> QED  BY <1>1, <1>3, <2>1, TileCut
<1>17. Tiling(FreeBlocks(pool', memory'), live', pool'.begin)
  BY <1>7, <1>13, <1>15, <1>16
<1>18. live' \subseteq [at: Units, units: Nat \ {0}]
  BY <1>1, <1>2, <1>5, <1>7 DEF x, Block
<1>19. PoolInv'
  BY <1>12, <1>13, <1>15, <1>17, <1>18 DEF PoolInv, PoolTypeOK
<1> QED  BY <1>5, <1>7, <1>11, <1>14, <1>16, <1>19 DEF Granted, n, a, x

LEMMA AllocatesSound ==
  ASSUME PoolInv, NEW words \in Seq([dis: Int, len: Nat]), words # <<>>, Allocates(words)
  PROVE  PoolInv' /\ Granted(words)
BY AllocatesFromList, AllocatesFromSpace

\* A block that is given back, and by whom it was held is all that matters: every other
\* block in use keeps what is in it.
GivesBack(a, n) ==
  /\ pool'   = Deallocated(pool, a, n)
  /\ memory' = Linked(pool, memory, a, n)
  /\ live'   = live \ {Block(a, n)}

LEMMA GivesBackSound ==
  ASSUME PoolInv, NEW n \in 1..ListSize, NEW a \in Units, Block(a, n) \in live, GivesBack(a, n)
  PROVE  /\ PoolInv'
         /\ \A b \in live \ {Block(a, n)} : \A u \in Covered(b) : u \in Units /\ memory'[u] = memory[u]
<1> DEFINE x == Block(a, n)
           F == FreeBlocks(pool, memory)
<1>1. n \in Nat \ {0} /\ a \in Int
  BY PoolAssumption DEF Units
<1>2. pool \in Pools /\ pool.begin + pool.space = PoolUnits + 1 /\ memory \in Memories
      /\ live \subseteq [at: Units, units: Nat \ {0}] /\ pool.begin \in 1..(PoolUnits + 1)
  BY DEF PoolInv, PoolTypeOK, Pools
<1>3. Lists(pool, memory) /\ Tiling(F, live, pool.begin)
  BY DEF PoolInv
<1>4. Linear(pool, memory, n) /\ pool.first[n] \in Int /\ pool.count[n] \in Nat
  BY <1>2, <1>3, CountType DEF Lists
<1>5. x.units = n /\ a \in Covered(x) /\ x \in live /\ x \notin F
  BY <1>1, <1>3, BlockFields DEF Tiling
<1>6. /\ pool' = Deallocated(pool, a, n) /\ live' = live \ {x}
      /\ memory' = [memory EXCEPT ![a].dis = pool.first[n]]
  BY DEF GivesBack, Linked
<1> HIDE DEF x, F
<1>7. memory' \in Memories /\ memory'[a].dis = pool.first[n]
      /\ \A u \in Units \ {a} : memory'[u] = memory[u]
  <2>1. memory[a] \in [dis: Int, len: Nat]
    BY <1>2 DEF Memories
  <2>2. [memory[a] EXCEPT !.dis = pool.first[n]] \in [dis: Int, len: Nat]
        /\ [memory[a] EXCEPT !.dis = pool.first[n]].dis = pool.first[n]
    BY <1>4, <2>1
  <2>3. PICK w : w = [memory[a] EXCEPT !.dis = pool.first[n]]
    OBVIOUS
  <2>4. memory' = [memory EXCEPT ![a] = w]
    BY <1>6, <2>3
  <2> QED  BY <1>2, <2>2, <2>3, <2>4 DEF Memories
<1>8. /\ pool' \in Pools /\ pool'.begin = pool.begin /\ pool'.space = pool.space
      /\ pool'.first[n] = a /\ pool'.count[n] = pool.count[n] + 1
      /\ SameButFor(pool', pool, n)
  BY <1>2, <1>6, DeallocatedFields DEF SameButFor
<1>9. SameOutside(memory', memory, x)
  BY <1>5, <1>7 DEF SameOutside
<1>10. Linear(pool', memory', n) /\ ListBlocks(pool', memory', n) = ListBlocks(pool, memory, n) \cup {x}
  <2>1. ASSUME NEW k \in 0..(pool.count[n] - 1)
        PROVE  /\ memory'[Nth(pool, memory, n, k)].dis = memory[Nth(pool, memory, n, k)].dis
               /\ Nth(pool, memory, n, k) # a
    <3>1. Nth(pool, memory, n, k) \in Units
      BY <1>4 DEF Linear
    <3>2. Block(Nth(pool, memory, n, k), n) \in F
      BY ListedIsFree DEF F
    <3>3. Nth(pool, memory, n, k) # a
      BY <1>5, <3>2 DEF x
    <3> QED  BY <1>7, <3>1, <3>3
  <2> QED  BY <1>2, <1>4, <1>7, <1>8, <2>1, ListPushed DEF x
<1>11. \A k \in 1..ListSize \ {n} :
         Linear(pool', memory', k) /\ ListBlocks(pool', memory', k) = ListBlocks(pool, memory, k)
  <2>1. SameButFor(pool', pool, x.units)
    BY <1>5, <1>8
  <2>2. Elsewhere(pool, memory, x)
    BY <1>3, <1>5, OtherSizesElsewhere DEF F
  <2>3. pool \in Pools /\ pool' \in Pools
    BY <1>2, <1>8
  <2>4. \A k \in 1..ListSize \ {x.units} :
          Linear(pool', memory', k) /\ ListBlocks(pool', memory', k) = ListBlocks(pool, memory, k)
    BY <1>3, <1>9, <2>1, <2>2, <2>3, OtherListsKept
  <2> QED  BY <1>5, <2>4
<1>12. Lists(pool', memory')
  BY <1>10, <1>11 DEF Lists
<1>13. FreeBlocks(pool', memory') = F \cup {x}
  <2>1. \A b : /\ b \in FreeBlocks(pool', memory') =>
                    b \in ListBlocks(pool', memory', n) \/ (b \in F /\ b.units # n)
               /\ b \in F =>
                    b \in ListBlocks(pool, memory, n) \/ (b \in FreeBlocks(pool', memory') /\ b.units # n)
    BY <1>11, OneListChanged DEF F
  <2>2. \A b : /\ b \in ListBlocks(pool, memory, n) => b \in F
               /\ b \in ListBlocks(pool', memory', n) => b \in FreeBlocks(pool', memory')
    BY InOneList DEF F
  <2>3. ASSUME NEW b \in FreeBlocks(pool', memory') PROVE b \in F \cup {x}
    BY <1>10, <2>1, <2>2
  <2>4. ASSUME NEW b \in F \cup {x} PROVE b \in FreeBlocks(pool', memory')
    BY <1>10, <2>1, <2>2
  <2> QED  BY <2>3, <2>4
<1>14. Tiling(FreeBlocks(pool', memory'), live', pool'.begin)
  <2>1. Tiling(F \cup {x}, live \ {x}, pool.begin)
    BY <1>3, <1>5, TileGiven
  <2> QED  BY <1>6, <1>8, <1>13, <2>1
<1>15. live' \subseteq [at: Units, units: Nat \ {0}]
  BY <1>2, <1>6
<1>16. PoolInv'
  BY <1>2, <1>7, <1>8, <1>12, <1>14, <1>15 DEF PoolInv, PoolTypeOK
<1>17. ASSUME NEW b \in live \ {x}, NEW u \in Covered(b) PROVE u \in Units /\ memory'[u] = memory[u]
  <2>1. Covered(b) \subseteq 1..(pool.begin - 1)
    BY <1>3, TileCovers
  <2>2. 1..(pool.begin - 1) \subseteq Units
    BY <1>2, PoolAssumption DEF Units
  <2>3. u \notin Covered(x)
    BY <1>3, <1>5 DEF Tiling
  <2> QED  BY <1>9, <2>1, <2>2, <2>3 DEF SameOutside
<1> QED  BY <1>16, <1>17 DEF x

\* Nothing in use begins where an allocated block does.
LEMMA GrantedApart ==
  ASSUME PoolInv, PoolInv', NEW words, words \in Seq([dis: Int, len: Nat]), words # <<>>, Granted(words)
  PROVE  \A b \in live : b.at # Address(pool, Len(words))
<1> DEFINE n == Len(words)
           a == Address(pool, n)
<1> SUFFICES ASSUME NEW b \in live, b.at = a PROVE FALSE
  OBVIOUS
<1>1. n \in Nat \ {0}
  OBVIOUS
<1>2. a \in Units /\ a \in Int /\ Block(a, n) \in live' /\ Block(a, n) \notin live /\ b \in live'
  BY DEF Granted, Units
<1>3. b.units \in Nat \ {0} /\ b = [at |-> b.at, units |-> b.units]
  BY DEF PoolInv, PoolTypeOK
<1> HIDE DEF n, a
<1>4. a \in Covered(b)
  <2>1. Covered(b) = a..(a + b.units - 1)
    BY DEF Covered
  <2> QED  BY <1>2, <1>3, <2>1
<1>5. a \in Covered(Block(a, n))
  BY <1>1, <1>2, BlockFields
<1>6. \A c, d \in live' : c = d \/ Covered(c) \cap Covered(d) = {}
  BY DEF PoolInv, Tiling
<1> QED  BY <1>2, <1>4, <1>5, <1>6

\* What the links and the tiling say of the pool is that it is sound.
LEMMA PoolInvSound ==
  ASSUME PoolInv
  PROVE  PoolSound
<1>1. pool \in Pools /\ Lists(pool, memory) /\ Tiling(FreeBlocks(pool, memory), live, pool.begin)
  BY DEF PoolInv, PoolTypeOK
<1>2. ASSUME NEW n \in 1..ListSize
      PROVE  /\ Cardinality(ListBlocks(pool, memory, n)) = pool.count[n]
             /\ Nth(pool, memory, n, pool.count[n]) = Null
  <2> DEFINE c == pool.count[n]
             S == 0..(c - 1)
             T == ListBlocks(pool, memory, n)
             g == [k \in S |-> Block(Nth(pool, memory, n, k), n)]
  <2>1. c \in Nat /\ Linear(pool, memory, n)
    BY <1>1, CountType DEF Lists
  <2>2. T = {g[k] : k \in S}
    BY DEF ListBlocks
  <2>3. \A i, j \in S : g[i] = g[j] => i = j
    <3>1. \A i, j \in S : Nth(pool, memory, n, i) = Nth(pool, memory, n, j) => i = j
      BY <2>1 DEF Linear
    <3> QED  BY <3>1, SameBlock
  <2>4. IsFiniteSet(S) /\ Cardinality(S) = c
    <3>1. 0 \in Int /\ c - 1 \in Int /\ (IF 0 > c - 1 THEN 0 ELSE (c - 1) - 0 + 1) = c
      BY <2>1
    <3> HIDE DEF c
    <3> QED  BY <3>1, FS_Interval
  <2>5. DOMAIN g = S /\ g = [k \in S |-> g[k]]
    OBVIOUS
  <2> HIDE DEF g, T, S
  <2>6. g \in Surjection(S, T) /\ g \in Injection(S, T)
    <3>1. g \in [S -> T]
      BY <2>2, <2>5
    <3>2. \A t \in T : \E k \in S : g[k] = t
      BY <2>2
    <3>3. g \in Surjection(S, T)
      BY <3>1, <3>2 DEF Surjection
    <3>4. g \in Injection(S, T)
      BY <2>3, <3>1 DEF Injection, IsInjective
    <3> QED  BY <3>3, <3>4
  <2>7. Cardinality(T) = Cardinality(S)
    BY <2>4, <2>6, FS_Surjection
  <2> QED  BY <2>1, <2>4, <2>7 DEF Linear, T
<1>3. ListsIntact(pool, memory)
  BY <1>2 DEF ListsIntact
<1>4. Tiled(pool, memory, live)
  BY <1>1 DEF Tiled, Tiling, Blocks, FreeBlocks
<1> QED  BY <1>3, <1>4 DEF PoolSound

-----------------------------------------------------------------------------
(* Layouts in the pool                                                     *)

\* A layout says how long it is, so that it is found as it was stored.
LEMMA StoredAsWritten ==
  ASSUME NEW m, NEW a \in Int, NEW v, IsLayout(v), \A i \in 1..Len(v) : m[a + i - 1] = v[i]
  PROVE  StoredIn(m, a) = v
<1>1. v \in Seq([dis: Int, len: Nat]) /\ v # <<>> /\ Len(v) \in Nat \ {0}
  BY DEF IsLayout
<1>2. v[1] \in [dis: Int, len: Nat]
  <2>1. 1 \in 1..Len(v)
    BY <1>1
  <2> QED  BY <1>1, <2>1, ElementOfSeq
<1>3. m[a] = v[1]
  <2>1. 1 \in 1..Len(v) /\ a + 1 - 1 = a
    BY <1>1
  <2>2. m[a + 1 - 1] = v[1]
    BY <2>1
  <2> QED  BY <2>1, <2>2
<1>4. v = [i \in 1..Len(v) |-> v[i]]
  BY <1>1
<1>5. CASE v[1].dis = SCATTERED
  <2>1. Len(v) = v[1].len + 2
    BY <1>5 DEF IsLayout, Scattered
  <2>2. StoredIn(m, a) = [i \in 1..Len(v) |-> m[a + i - 1]]
    BY <1>3, <1>5, <2>1 DEF StoredIn
  <2> QED  BY <1>4, <2>2
<1>6. CASE v[1].dis # SCATTERED
  <2>1. Len(v) = 1
    BY <1>6 DEF IsLayout, Scattered
  <2>2. v = <<v[1]>>
    BY <1>1, <2>1
  <2> QED  BY <1>3, <1>6, <2>2 DEF StoredIn
<1> QED  BY <1>5, <1>6

\* What is stored at an address depends only on the block there.
LEMMA StoredElsewhere ==
  ASSUME NEW m \in Memories, NEW l, NEW a \in Units, IsLayout(StoredIn(m, a)),
         \A u \in Covered(Block(a, Len(StoredIn(m, a)))) : l[u] = m[u]
  PROVE  StoredIn(l, a) = StoredIn(m, a)
<1> DEFINE v == StoredIn(m, a)
<1>1. v \in Seq([dis: Int, len: Nat]) /\ v # <<>> /\ Len(v) \in Nat \ {0}
  BY DEF IsLayout
<1>2. a \in Int /\ m[a] \in [dis: Int, len: Nat]
  BY DEF Units, Memories
<1>3. \A i \in 1..Len(v) : v[i] = m[a + i - 1]
  <2>1. CASE m[a].dis = SCATTERED
    <3>1. v = [i \in 1..(m[a].len + 2) |-> m[a + i - 1]]
      BY <2>1 DEF StoredIn
    <3>2. Len(v) = m[a].len + 2
      BY <1>2, <3>1
    <3> QED  BY <3>1, <3>2
  <2>2. CASE m[a].dis # SCATTERED
    <3>1. v = <<m[a]>>
      BY <2>2 DEF StoredIn
    <3>2. \A i \in 1..1 : i = 1 /\ a + i - 1 = a
      BY <1>2
    <3> QED  BY <3>1, <3>2
  <2> QED  BY <2>1, <2>2
<1>4. \A i \in 1..Len(v) : a + i - 1 \in Covered(Block(a, Len(v)))
  <2>1. Covered(Block(a, Len(v))) = a..(a + Len(v) - 1)
    BY <1>1, <1>2, BlockFields
  <2> HIDE DEF v
  <2> QED  BY <1>1, <1>2, <2>1
<1>5. IsLayout(v) /\ \A i \in 1..Len(v) : l[a + i - 1] = v[i]
  BY <1>3, <1>4
<1> HIDE DEF v
<1>6. StoredIn(l, a) = v
  BY <1>2, <1>5, StoredAsWritten
<1> QED  BY <1>6 DEF v

LEMMA StoredIsStoredIn ==
  ASSUME NEW a
  PROVE  Stored(a) = StoredIn(memory, a) /\ Stored(a)' = StoredIn(memory', a)
BY DEF Stored, StoredIn

\* A step that leaves the blocks of layouts as they are.
SettledKept ==
  \A a : SettledIn(memory, live, Cookies, a) =>
         /\ SettledIn(memory', live', Cookies', a)
         /\ StoredIn(memory', a) = StoredIn(memory, a)

LEMMA BlocksKept ==
  ASSUME PoolInv,
         ASSUME NEW a, SettledIn(memory, live, Cookies, a)
         PROVE  /\ a \notin Cookies' /\ Block(a, Len(StoredIn(memory, a))) \in live'
                /\ \A u \in Covered(Block(a, Len(StoredIn(memory, a)))) : memory'[u] = memory[u]
  PROVE  SettledKept
<1> SUFFICES ASSUME NEW a, SettledIn(memory, live, Cookies, a)
             PROVE  /\ SettledIn(memory', live', Cookies', a)
                    /\ StoredIn(memory', a) = StoredIn(memory, a)
  BY DEF SettledKept
<1>1. a \in Units /\ IsLayout(StoredIn(memory, a))
  BY DEF SettledIn
<1>2. memory \in Memories
  BY DEF PoolInv, PoolTypeOK
<1>3. /\ a \notin Cookies' /\ Block(a, Len(StoredIn(memory, a))) \in live'
      /\ \A u \in Covered(Block(a, Len(StoredIn(memory, a)))) : memory'[u] = memory[u]
  OBVIOUS
<1>4. StoredIn(memory', a) = StoredIn(memory, a)
  BY <1>1, <1>2, <1>3, StoredElsewhere
<1> QED  BY <1>1, <1>3, <1>4 DEF SettledIn

LEMMA KeptQuietly ==
  ASSUME PoolInv, UNCHANGED poolVars, Cookies' \subseteq Cookies
  PROVE  SettledKept
BY BlocksKept DEF SettledIn, poolVars

LEMMA KeptByAllocation ==
  ASSUME PoolInv, PoolInv', NEW words, words \in Seq([dis: Int, len: Nat]), words # <<>>,
         Granted(words), Cookies' \subseteq Cookies \cup {Address(pool, Len(words))}
  PROVE  SettledKept
<1>1. ASSUME NEW a, SettledIn(memory, live, Cookies, a)
      PROVE  /\ a \notin Cookies' /\ Block(a, Len(StoredIn(memory, a))) \in live'
             /\ \A u \in Covered(Block(a, Len(StoredIn(memory, a)))) : memory'[u] = memory[u]
  <2>1. Block(a, Len(StoredIn(memory, a))) \in live /\ a \notin Cookies
    BY <1>1 DEF SettledIn
  <2>2. Block(a, Len(StoredIn(memory, a))).at = a
    BY DEF Block
  <2>3. a # Address(pool, Len(words))
    BY <2>1, <2>2, GrantedApart
  <2>4. live \subseteq live' /\ \A b \in live : \A u \in Covered(b) : memory'[u] = memory[u]
    BY DEF Granted
  <2> QED  BY <2>1, <2>3, <2>4
<1> QED  BY <1>1, BlocksKept

LEMMA KeptByGivingBack ==
  ASSUME PoolInv, NEW a \in Units, a \in Cookies, CookieBlock(a) \in live, GivesBack(a, CookieUnits),
         Cookies' \subseteq Cookies
  PROVE  SettledKept
<1>1. ASSUME NEW c, SettledIn(memory, live, Cookies, c)
      PROVE  /\ c \notin Cookies' /\ Block(c, Len(StoredIn(memory, c))) \in live'
             /\ \A u \in Covered(Block(c, Len(StoredIn(memory, c)))) : memory'[u] = memory[u]
  <2>1. Block(c, Len(StoredIn(memory, c))) \in live /\ c \notin Cookies
    BY <1>1 DEF SettledIn
  <2>2. Block(c, Len(StoredIn(memory, c))) # Block(a, CookieUnits)
    BY <2>1, SameBlock
  <2>3. live' = live \ {Block(a, CookieUnits)}
    BY DEF GivesBack
  <2>4. \A b \in live \ {Block(a, CookieUnits)} : \A u \in Covered(b) : memory'[u] = memory[u]
    BY CookieAssumption, GivesBackSound DEF CookieBlock
  <2> QED  BY <2>1, <2>2, <2>3, <2>4
<1> QED  BY <1>1, BlocksKept

LEMMA PointsKept ==
  ASSUME ListInv, SettledKept, NEW c, NEW at, NEW t, PointsIn(memory, committed, at, t),
         \A i \in DOMAIN committed : \E j \in DOMAIN c : c[j] = committed[i]
  PROVE  PointsIn(memory', c, at, t)
<1> SUFFICES ASSUME at # Null
             PROVE  \E j \in DOMAIN c : c[j] = at /\ StoredIn(memory', at) = t.layout
  BY DEF PointsIn
<1>1. PICK i \in DOMAIN committed : committed[i] = at /\ StoredIn(memory, at) = t.layout
  BY DEF PointsIn
<1>2. StoredIn(memory', at) = StoredIn(memory, at)
  BY <1>1 DEF ListInv, SettledKept
<1> QED  BY <1>1, <1>2

\* The lists and pointers, when nobody touches a list or a datatype.
LEMMA ListsSteady ==
  ASSUME ListInv, LockInv, HandleInv, SettledKept, UNCHANGED <<job, typeVars>>
  PROVE  ListInv' /\ LockInv' /\ HandleInv'
<1>1. /\ job' = job /\ lock' = lock /\ fresh' = fresh /\ committed' = committed
      /\ handle' = handle /\ made' = made
  BY DEF typeVars
<1>2. \A i \in DOMAIN committed :
        /\ SettledIn(memory', live', Cookies', committed[i])
        /\ StoredIn(memory', committed[i]) = StoredIn(memory, committed[i])
  BY DEF ListInv, SettledKept
<1>3. ListInv'
  BY <1>1, <1>2 DEF ListInv
<1>4. LockInv'
  <2>1. lock # Nobody => /\ SettledIn(memory', live', Cookies', fresh)
                        /\ StoredIn(memory', fresh) = StoredIn(memory, fresh)
    BY DEF LockInv, SettledKept
  <2> QED  BY <1>1, <1>2, <2>1 DEF LockInv
<1>5. HandleInv'
  <2>1. ASSUME NEW p \in Procs, handle[p] # NoType
        PROVE  PointsIn(memory', committed, handle[p].at, handle[p].type)
    <3>1. PointsIn(memory, committed, handle[p].at, handle[p].type)
      BY <2>1 DEF HandleInv
    <3> QED  BY <3>1, PointsKept
  <2> QED  BY <1>1, <2>1 DEF HandleInv
<1> QED  BY <1>3, <1>4, <1>5

\* The requests, when none is posted.
LEMMA RequestsSteady ==
  ASSUME ListInv, RequestInv, SettledKept,
         \A i \in DOMAIN committed : \E j \in DOMAIN committed' : committed'[j] = committed[i],
         \A s \in requests' : \E r \in requests : s.iovec = r.iovec /\ s.type = r.type
  PROVE  RequestInv'
<1> SUFFICES ASSUME NEW s \in requests' PROVE PointsIn(memory', committed', s.iovec, s.type)
  BY DEF RequestInv
<1>1. PICK r \in requests : s.iovec = r.iovec /\ s.type = r.type
  OBVIOUS
<1>2. PointsIn(memory, committed, r.iovec, r.type)
  BY DEF RequestInv
<1>3. PointsIn(memory', committed', r.iovec, r.type)
  BY <1>2, PointsKept
<1> QED  BY <1>1, <1>3

\* Cookies, when none changes hands.
LEMMA CookiesSteady ==
  ASSUME CookieInv, UNCHANGED <<requests, spare, surplus>>, live \subseteq live'
  PROVE  CookieInv' /\ Cookies' = Cookies
BY DEF CookieInv, CookieBlock, Posted, Cookies

LEMMA CookieTypes ==
  ASSUME CookieInv, NEW a \in Cookies
  PROVE  a \in Units /\ CookieBlock(a) \in live
BY DEF CookieInv, Cookies

-----------------------------------------------------------------------------
(* The actions                                                             *)

LEMMA InitLayouts == Init => LayoutsInv
<1> SUFFICES ASSUME Init PROVE LayoutsInv
  OBVIOUS
<1>1. pool \in Pools /\ pool.begin = 1 /\ pool.begin + pool.space = PoolUnits + 1
      /\ \A n \in 1..ListSize : pool.first[n] = Null /\ pool.count[n] = 0
  <2>1. [n \in 1..ListSize |-> Null] \in [1..ListSize -> Int] /\ [n \in 1..ListSize |-> 0] \in [1..ListSize -> Nat]
    BY DEF Null
  <2>2. 1 \in 1..(PoolUnits + 1) /\ PoolUnits \in Nat /\ 1 + PoolUnits = PoolUnits + 1
    BY PoolAssumption
  <2> QED  BY <2>1, <2>2 DEF Init, EmptyPool, Pools
<1>2. memory \in Memories /\ live = {}
  BY DEF Init, Memories, Iovec
<1>3. ASSUME NEW n \in 1..ListSize
      PROVE  Linear(pool, memory, n) /\ ListBlocks(pool, memory, n) = {}
  <2>1. pool.count[n] = 0 /\ 0..(0 - 1) = {}
    BY <1>1
  <2>2. Nth(pool, memory, n, 0) = Null
    BY <1>1, NthStep
  <2> QED  BY <2>1, <2>2 DEF Linear, ListBlocks
<1>4. FreeBlocks(pool, memory) = {}
  BY <1>3 DEF FreeBlocks
<1>5. Tiling({}, {}, 1)
  <2>1. UNION {Covered(b) : b \in {}} = {} /\ 1..(1 - 1) = {}
    OBVIOUS
  <2> QED  BY <2>1 DEF Tiling
<1>6. PoolInv
  <2>1. PoolTypeOK
    BY <1>1, <1>2 DEF PoolTypeOK
  <2>2. Lists(pool, memory)
    BY <1>3 DEF Lists
  <2> QED  BY <1>1, <1>2, <1>4, <1>5, <2>1, <2>2 DEF PoolInv
<1>7. CookieInv
  BY DEF Init, CookieInv
<1>8. ListInv
  BY DEF Init, ListInv
<1>9. LockInv
  BY DEF Init, LockInv
<1>10. HandleInv
  BY DEF Init, HandleInv
<1>11. RequestInv
  BY DEF Init, RequestInv
<1> QED  BY <1>6, <1>7, <1>8, <1>9, <1>10, <1>11 DEF LayoutsInv

\* A step that touches neither the pool nor the cookies nor the list.
LEMMA CalmStep ==
  ASSUME LayoutsInv, UNCHANGED <<poolVars, requests, spare, surplus>>
  PROVE  PoolInv' /\ CookieInv' /\ SettledKept
<1>1. PoolInv /\ CookieInv /\ pool' = pool /\ memory' = memory /\ live' = live
  BY DEF LayoutsInv, poolVars
<1>2. PoolInv'
  BY <1>1 DEF PoolInv, PoolTypeOK
<1>3. CookieInv' /\ Cookies' = Cookies
  BY <1>1, CookiesSteady
<1>4. SettledKept
  BY <1>1, <1>3, KeptQuietly
<1> QED  BY <1>2, <1>3, <1>4

LEMMA CalmLayouts ==
  ASSUME LayoutsInv, UNCHANGED <<job, poolVars, typeVars, requests, spare, surplus>>
  PROVE  LayoutsInv'
<1>1. PoolInv' /\ CookieInv' /\ SettledKept
  BY CalmStep
<1>2. ListInv /\ LockInv /\ HandleInv /\ RequestInv
  BY DEF LayoutsInv
<1>3. ListInv' /\ LockInv' /\ HandleInv'
  BY <1>1, <1>2, ListsSteady
<1>4. committed' = committed /\ requests' = requests
  BY DEF typeVars
<1>5. RequestInv'
  BY <1>1, <1>2, <1>4, RequestsSteady
<1> QED  BY <1>1, <1>3, <1>5 DEF LayoutsInv

\* Who changes a datatype while others commit is not the one who holds the mutex.
LEMMA HandleChanged ==
  ASSUME LayoutsInv, UNCHANGED <<job, poolVars, lock, fresh, committed, requests, spare, surplus>>,
         NEW p \in Procs, lock # p, NEW h, handle' = [handle EXCEPT ![p] = h], made' \in Nat,
         h # NoType =>
           /\ h = [type |-> h.type, at |-> h.at] /\ IsLayout(h.type.layout)
           /\ PointsIn(memory, committed, h.at, h.type)
  PROVE  LayoutsInv'
<1>1. PoolInv' /\ CookieInv' /\ SettledKept
  BY CalmStep
<1>2. ListInv /\ LockInv /\ HandleInv /\ RequestInv
  BY DEF LayoutsInv
<1>3. memory' = memory /\ live' = live /\ Cookies' = Cookies
  BY DEF poolVars, Cookies
<1>4. DOMAIN handle = Procs
  BY <1>2 DEF HandleInv
<1>5. handle'[p] = h /\ \A q \in Procs \ {p} : handle'[q] = handle[q]
  BY <1>4
<1>6. ListInv'
  BY <1>2, <1>3 DEF ListInv
<1>7. LockInv'
  <2>1. lock # Nobody => lock \in Procs /\ handle'[lock] = handle[lock]
    BY <1>2, <1>5 DEF LockInv
  <2> QED  BY <1>2, <1>3, <2>1 DEF LockInv
<1>8. HandleInv'
  <2>1. ASSUME NEW q \in Procs, handle'[q] # NoType
        PROVE  /\ handle'[q] = [type |-> handle'[q].type, at |-> handle'[q].at]
               /\ IsLayout(handle'[q].type.layout)
               /\ PointsIn(memory, committed, handle'[q].at, handle'[q].type)
    <3>1. CASE q = p
      BY <1>5, <2>1, <3>1
    <3>2. CASE q # p
      BY <1>2, <1>5, <2>1, <3>2 DEF HandleInv
    <3> QED  BY <3>1, <3>2
  <2>2. DOMAIN handle' = Procs /\ job' \in Jobs
    BY <1>2, <1>4 DEF HandleInv
  <2> QED  BY <1>3, <2>1, <2>2 DEF HandleInv
<1>9. RequestInv'
  BY <1>2, <1>3 DEF RequestInv
<1> QED  BY <1>1, <1>6, <1>7, <1>8, <1>9 DEF LayoutsInv

LEMMA CreateLayouts == ASSUME LayoutsInv, NEW p \in Procs, Create(p) PROVE LayoutsInv'
<1> DEFINE h == [type |-> job.types[made + 1], at |-> Null]
<1>1. made \in Nat /\ job \in Jobs
  BY DEF LayoutsInv, HandleInv
<1>2. /\ made < Len(job.types) /\ lock # p /\ handle' = [handle EXCEPT ![p] = h] /\ made' = made + 1
      /\ UNCHANGED <<job, poolVars, lock, fresh, committed, requests, spare, surplus>>
  BY DEF Create, Idle
<1>3. IsLayout(h.type.layout)
  <2>1. job.types \in Seq(ToSet(job.types)) /\ \A t \in ToSet(job.types) : IsLayout(t.layout)
    BY <1>1, JobsAssumption
  <2>2. made + 1 \in 1..Len(job.types)
    BY <1>1, <1>2, <2>1
  <2>3. job.types[made + 1] \in ToSet(job.types)
    BY <2>1, <2>2, ElementOfSeq
  <2> QED  BY <2>1, <2>3
<1>4. PointsIn(memory, committed, h.at, h.type)
  BY DEF PointsIn
<1>5. h = [type |-> h.type, at |-> h.at] /\ made' \in Nat
  BY <1>1, <1>2
<1> HIDE DEF h
<1> QED  BY <1>2, <1>3, <1>4, <1>5, HandleChanged

LEMMA FreeLayouts == ASSUME LayoutsInv, NEW p \in Procs, Free(p) PROVE LayoutsInv'
<1>1. made' \in Nat
  BY DEF Free, LayoutsInv, HandleInv
<1> QED  BY <1>1, HandleChanged DEF Free, Idle

LEMMA CommitFindsLayouts == ASSUME LayoutsInv, NEW p \in Procs, CommitFinds(p) PROVE LayoutsInv'
<1>1. PICK i \in Found(p) : handle' = [handle EXCEPT ![p].at = committed[i]]
  BY DEF CommitFinds
<1>2. /\ lock # p /\ handle[p] # NoType
      /\ UNCHANGED <<job, poolVars, lock, fresh, committed, made, requests, spare, surplus>>
  BY DEF CommitFinds, Idle, Uncommitted
<1>3. HandleInv
  BY DEF LayoutsInv
<1>4. i \in DOMAIN committed /\ StoredIn(memory, committed[i]) = handle[p].type.layout
  BY <1>1 DEF Found, Same, Stored, StoredIn
<1>5. PICK t : t = handle[p].type /\ handle[p] = [type |-> t, at |-> handle[p].at] /\ IsLayout(t.layout)
  BY <1>2, <1>3 DEF HandleInv
<1>6. PICK h : h = [type |-> t, at |-> committed[i]]
  OBVIOUS
<1>7. h = [type |-> h.type, at |-> h.at] /\ h.type = t /\ h.at = committed[i]
  BY <1>6
<1>8. [handle[p] EXCEPT !.at = committed[i]] = h
  BY <1>5, <1>6
<1>9. handle' = [handle EXCEPT ![p] = h]
  BY <1>1, <1>8
<1>10. PointsIn(memory, committed, h.at, h.type)
  BY <1>4, <1>5, <1>7 DEF PointsIn
<1>11. made' \in Nat
  BY <1>2, <1>3 DEF HandleInv
<1> QED  BY <1>2, <1>5, <1>7, <1>9, <1>10, <1>11, HandleChanged

\* Layouts that are settled stay so when a block is allocated, and the pointers to them too.
LEMMA ListStays ==
  ASSUME ListInv, SettledKept
  PROVE  \A i \in DOMAIN committed :
           /\ committed[i] \in Units
           /\ SettledIn(memory', live', Cookies', committed[i])
           /\ StoredIn(memory', committed[i]) = StoredIn(memory, committed[i])
<1> SUFFICES ASSUME NEW i \in DOMAIN committed
             PROVE  /\ committed[i] \in Units
                    /\ SettledIn(memory', live', Cookies', committed[i])
                    /\ StoredIn(memory', committed[i]) = StoredIn(memory, committed[i])
  OBVIOUS
<1>1. SettledIn(memory, live, Cookies, committed[i])
  BY DEF ListInv
<1> QED  BY <1>1 DEF SettledKept, SettledIn

LEMMA CommitStoresLayouts == ASSUME LayoutsInv, NEW p \in Procs, CommitStores(p) PROVE LayoutsInv'
<1>1. PoolInv /\ CookieInv /\ ListInv /\ LockInv /\ HandleInv /\ RequestInv
  BY DEF LayoutsInv
<1>2. PICK w : w = handle[p].type.layout
  OBVIOUS
<1>3. handle[p] # NoType /\ handle[p].at = Null /\ Found(p) = {}
  BY DEF CommitStores, Uncommitted
<1>4. IsLayout(w) /\ w \in Seq([dis: Int, len: Nat]) /\ w # <<>>
  BY <1>1, <1>2, <1>3 DEF HandleInv, IsLayout
<1>5. PICK a : a = Address(pool, Len(w))
  OBVIOUS
<1>6. /\ Allocates(w) /\ lock' = p /\ fresh' = a
      /\ UNCHANGED <<job, committed, handle, made, requests, spare, surplus>>
  BY <1>2, <1>5 DEF CommitStores, Allocates
<1>7. PoolInv' /\ Granted(w)
  BY <1>1, <1>4, <1>6, AllocatesSound
<1>8. /\ a \in Units /\ live' = live \cup {Block(a, Len(w))}
      /\ \A i \in 1..Len(w) : memory'[a + i - 1] = w[i]
  BY <1>5, <1>7 DEF Granted
<1>9. CookieInv' /\ Cookies' = Cookies
  BY <1>1, <1>6, <1>8, CookiesSteady
<1>10. SettledKept
  BY <1>1, <1>4, <1>7, <1>9, KeptByAllocation
<1>11. a \notin Cookies
  <2>1. \A b \in live : b.at # a
    BY <1>1, <1>4, <1>5, <1>7, GrantedApart
  <2>2. ASSUME a \in Cookies PROVE FALSE
    <3>1. CookieBlock(a) \in live
      BY <1>1, <2>2, CookieTypes
    <3>2. CookieBlock(a).at = a
      BY DEF CookieBlock, Block
    <3> QED  BY <2>1, <3>1, <3>2
  <2> QED  BY <2>2
<1>12. StoredIn(memory', a) = w
  <2>1. a \in Int
    BY <1>8 DEF Units
  <2> QED  BY <1>4, <1>8, <2>1, StoredAsWritten
<1>13. SettledIn(memory', live', Cookies', a)
  BY <1>4, <1>8, <1>9, <1>11, <1>12 DEF SettledIn
<1>14. \A i \in DOMAIN committed :
         /\ SettledIn(memory', live', Cookies', committed[i])
         /\ StoredIn(memory', committed[i]) = StoredIn(memory, committed[i])
  BY <1>1, <1>10, ListStays
<1>15. ListInv'
  BY <1>1, <1>6, <1>14 DEF ListInv
<1>16. LockInv'
  <2>1. \A i \in DOMAIN committed : StoredIn(memory, committed[i]) # w
    BY <1>2, <1>3 DEF Found, Same, Stored, StoredIn
  <2>2. \A i \in DOMAIN committed : StoredIn(memory', committed[i]) # StoredIn(memory', a)
    BY <1>12, <1>14, <2>1
  <2> QED  BY <1>2, <1>3, <1>6, <1>12, <1>13, <2>2 DEF LockInv
<1>17. HandleInv'
  <2>1. ASSUME NEW q \in Procs, handle[q] # NoType
        PROVE  PointsIn(memory', committed, handle[q].at, handle[q].type)
    <3>1. PointsIn(memory, committed, handle[q].at, handle[q].type)
      BY <1>1, <2>1 DEF HandleInv
    <3> QED  BY <1>1, <1>10, <3>1, PointsKept
  <2> QED  BY <1>1, <1>6, <2>1 DEF HandleInv
<1>18. RequestInv'
  BY <1>1, <1>6, <1>10, RequestsSteady
<1> QED  BY <1>7, <1>9, <1>15, <1>16, <1>17, <1>18 DEF LayoutsInv

LEMMA WordsTypes ==
  ASSUME NEW n \in Nat \ {0}
  PROVE  Words(n) \in Seq([dis: Int, len: Nat]) /\ Words(n) # <<>> /\ Len(Words(n)) = n
<1>1. Iovec(-1, 0) \in [dis: Int, len: Nat]
  BY DEF Iovec
<1>2. Words(n) = [i \in 1..n |-> Iovec(-1, 0)]
  BY DEF Words
<1> QED  BY <1>1, <1>2

LEMMA CommitLinksLayouts == ASSUME LayoutsInv, NEW p \in Procs, CommitLinks(p) PROVE LayoutsInv'
<1>1. PoolInv /\ CookieInv /\ ListInv /\ LockInv /\ HandleInv /\ RequestInv
  BY DEF LayoutsInv
<1>2. PICK a : a = fresh
  OBVIOUS
<1>3. PICK w : w = Words(NodeUnits)
  OBVIOUS
<1>4. w \in Seq([dis: Int, len: Nat]) /\ w # <<>>
  BY <1>3, CookieAssumption, WordsTypes
<1>5. /\ lock = p /\ Allocates(w) /\ committed' = <<a>> \o committed
      /\ handle' = [handle EXCEPT ![p].at = a] /\ lock' = Nobody
      /\ UNCHANGED <<job, made, requests, spare, surplus>>
  BY <1>2, <1>3 DEF CommitLinks, Allocates
<1>6. PoolInv' /\ Granted(w)
  BY <1>1, <1>4, <1>5, AllocatesSound
<1>7. CookieInv' /\ Cookies' = Cookies
  BY <1>1, <1>5, <1>6, CookiesSteady DEF Granted
<1>8. SettledKept
  BY <1>1, <1>4, <1>6, <1>7, KeptByAllocation
<1>9. /\ handle[p] # NoType /\ SettledIn(memory, live, Cookies, a)
      /\ StoredIn(memory, a) = handle[p].type.layout
      /\ \A i \in DOMAIN committed : StoredIn(memory, committed[i]) # StoredIn(memory, a)
  BY <1>1, <1>2, <1>5, ProcsAssumption DEF LockInv
<1>10. SettledIn(memory', live', Cookies', a) /\ StoredIn(memory', a) = StoredIn(memory, a) /\ a \in Units
  BY <1>8, <1>9 DEF SettledKept, SettledIn
<1>11. \A i \in DOMAIN committed :
         /\ committed[i] \in Units
         /\ SettledIn(memory', live', Cookies', committed[i])
         /\ StoredIn(memory', committed[i]) = StoredIn(memory, committed[i])
  BY <1>1, <1>8, ListStays
<1>12. /\ committed' \in Seq(Units) /\ 1 \in DOMAIN committed' /\ committed'[1] = a
       /\ \A i \in DOMAIN committed : i + 1 \in DOMAIN committed' /\ committed'[i + 1] = committed[i]
       /\ \A i \in DOMAIN committed' : i # 1 => i - 1 \in DOMAIN committed /\ committed'[i] = committed[i - 1]
  <2>1. committed \in Seq(Units) /\ <<a>> \in Seq(Units)
    BY <1>1, <1>10 DEF ListInv
  <2>2. /\ committed' \in Seq(Units) /\ Len(committed') = Len(committed) + 1
        /\ \A i \in 1..(Len(committed) + 1) : committed'[i] = IF i <= 1 THEN a ELSE committed[i - 1]
    BY <1>5, <2>1
  <2>3. DOMAIN committed = 1..Len(committed) /\ DOMAIN committed' = 1..(Len(committed) + 1) /\ Len(committed) \in Nat
    BY <2>1, <2>2
  <2> QED  BY <2>2, <2>3
<1>13. ListInv'
  <2>1. ASSUME NEW i \in DOMAIN committed' PROVE SettledIn(memory', live', Cookies', committed'[i])
    BY <1>10, <1>11, <1>12
  <2>2. ASSUME NEW i \in DOMAIN committed', NEW j \in DOMAIN committed', i # j
        PROVE  StoredIn(memory', committed'[i]) # StoredIn(memory', committed'[j])
    <3>1. CASE i = 1
      <4>1. j - 1 \in DOMAIN committed /\ committed'[j] = committed[j - 1] /\ committed'[i] = a
        BY <1>12, <2>2, <3>1
      <4> QED  BY <1>9, <1>10, <1>11, <4>1
    <3>2. CASE j = 1
      <4>1. i - 1 \in DOMAIN committed /\ committed'[i] = committed[i - 1] /\ committed'[j] = a
        BY <1>12, <2>2, <3>2
      <4> QED  BY <1>9, <1>10, <1>11, <4>1
    <3>3. CASE i # 1 /\ j # 1
      <4>1. PICK k, l : k = i - 1 /\ l = j - 1
        OBVIOUS
      <4>2. k \in DOMAIN committed /\ committed'[i] = committed[k]
            /\ l \in DOMAIN committed /\ committed'[j] = committed[l]
        BY <1>12, <3>3, <4>1
      <4>3. k # l
        <5>1. i \in Int /\ j \in Int
          BY <1>12
        <5> QED  BY <2>2, <4>1, <5>1
      <4>4. StoredIn(memory, committed[k]) # StoredIn(memory, committed[l])
        BY <1>1, <4>2, <4>3 DEF ListInv
      <4> QED  BY <1>11, <4>2, <4>4
    <3> QED  BY <3>1, <3>2, <3>3
  <2> QED  BY <1>12, <2>1, <2>2 DEF ListInv
<1>14. LockInv'
  BY <1>5 DEF LockInv
<1>15. \A i \in DOMAIN committed : \E j \in DOMAIN committed' : committed'[j] = committed[i]
  BY <1>12
<1>16. HandleInv'
  <2>1. DOMAIN handle = Procs
    BY <1>1 DEF HandleInv
  <2>2. PICK t : t = handle[p].type /\ handle[p] = [type |-> t, at |-> handle[p].at] /\ IsLayout(t.layout)
    BY <1>1, <1>9 DEF HandleInv
  <2>3. [handle[p] EXCEPT !.at = a] = [type |-> t, at |-> a]
    BY <2>2
  <2>4. handle'[p] = [type |-> t, at |-> a] /\ \A q \in Procs \ {p} : handle'[q] = handle[q]
    BY <1>5, <2>1, <2>3
  <2>5. ASSUME NEW q \in Procs, handle'[q] # NoType
        PROVE  /\ handle'[q] = [type |-> handle'[q].type, at |-> handle'[q].at]
               /\ IsLayout(handle'[q].type.layout)
               /\ PointsIn(memory', committed', handle'[q].at, handle'[q].type)
    <3>1. CASE q = p
      <4>1. handle'[q].type = t /\ handle'[q].at = a
        BY <2>4, <3>1
      <4>2. PointsIn(memory', committed', a, t)
        BY <1>9, <1>10, <1>12, <2>2 DEF PointsIn
      <4> QED  BY <2>2, <2>4, <3>1, <4>1, <4>2
    <3>2. CASE q # p
      <4>1. handle'[q] = handle[q] /\ handle[q] # NoType
        BY <2>4, <2>5, <3>2
      <4>2. /\ handle[q] = [type |-> handle[q].type, at |-> handle[q].at]
            /\ IsLayout(handle[q].type.layout)
            /\ PointsIn(memory, committed, handle[q].at, handle[q].type)
        BY <1>1, <4>1 DEF HandleInv
      <4>3. PointsIn(memory', committed', handle[q].at, handle[q].type)
        BY <1>1, <1>8, <1>15, <4>2, PointsKept
      <4> QED  BY <4>1, <4>2, <4>3
    <3> QED  BY <3>1, <3>2
  <2>6. DOMAIN handle' = Procs /\ job' \in Jobs /\ made' \in Nat
    BY <1>1, <1>5, <2>1 DEF HandleInv
  <2> QED  BY <2>5, <2>6 DEF HandleInv
<1>17. RequestInv'
  BY <1>1, <1>5, <1>8, <1>15, RequestsSteady
<1> QED  BY <1>6, <1>7, <1>13, <1>14, <1>16, <1>17 DEF LayoutsInv

\* A request that is posted points where the datatype of its process does.
LEMMA UsablePoints ==
  ASSUME HandleInv, NEW p \in Procs, NEW h \in Usable(p)
  PROVE  PointsIn(memory, committed, h.at, h.type)
<1>1. CASE h \in {[type |-> b, at |-> Null] : b \in job.basics}
  <2>1. h.at = Null
    BY <1>1
  <2> QED  BY <2>1 DEF PointsIn
<1>2. CASE handle[p] # NoType /\ h = handle[p]
  BY <1>2 DEF HandleInv
<1> QED  BY <1>1, <1>2 DEF Usable

\* The cookie of the request comes from the spare ones of its host p or from the pool.
LEMMA PostedCookie ==
  ASSUME CookieInv, NEW p \in Procs, NEW at \in Units, NEW r, r.at = at, r.owner \in Procs, Posted(r),
         \A s \in requests : s.at # at,
         \A q \in Procs : at \notin surplus[q] /\ (q # p => at \notin spare[q]),
         requests' = requests \cup {r}, spare' = [spare EXCEPT ![p] = @ \ {at}], surplus' = surplus,
         live \subseteq live', CookieBlock(at) \in live'
  PROVE  CookieInv' /\ Cookies' \subseteq Cookies \cup {at}
<1>1. spare \in [Procs -> SUBSET Units] /\ surplus \in [Procs -> SUBSET Units]
  BY DEF CookieInv
<1>2. spare'[p] = spare[p] \ {at} /\ \A q \in Procs \ {p} : spare'[q] = spare[q]
  BY <1>1
<1>3. spare' \in [Procs -> SUBSET Units] /\ surplus' \in [Procs -> SUBSET Units]
  BY <1>1
<1>4. \A q \in Procs : /\ spare'[q] \subseteq spare[q] /\ surplus'[q] = surplus[q]
                       /\ at \notin spare'[q] \cup surplus'[q]
  BY <1>2
<1>5. \A s \in requests : /\ Posted(s) /\ s.owner \in Procs /\ s.at \in Units /\ CookieBlock(s.at) \in live
                          /\ \A q \in Procs : s.at \notin spare[q] \cup surplus[q]
  BY DEF CookieInv
<1>6. \A s \in requests' : Posted(s) /\ s.owner \in Procs /\ s.at \in Units /\ CookieBlock(s.at) \in live'
  BY <1>5
<1>7. \A q \in Procs : \A a \in spare'[q] \cup surplus'[q] : CookieBlock(a) \in live'
  BY <1>4 DEF CookieInv
<1>8. \A s, t \in requests' : s.at = t.at => s = t
  BY DEF CookieInv
<1>9. \A s \in requests' : \A q \in Procs : s.at \notin spare'[q] \cup surplus'[q]
  BY <1>4, <1>5
<1>10. \A q, s \in Procs : q # s => (spare'[q] \cup surplus'[q]) \cap (spare'[s] \cup surplus'[s]) = {}
  <2>1. ASSUME NEW q \in Procs, NEW s \in Procs, q # s
        PROVE  (spare'[q] \cup surplus'[q]) \cap (spare'[s] \cup surplus'[s]) = {}
    <3>1. (spare[q] \cup surplus[q]) \cap (spare[s] \cup surplus[s]) = {}
      BY <2>1 DEF CookieInv
    <3> QED  BY <1>4, <3>1
  <2> QED  BY <2>1
<1>11. \A q \in Procs : spare'[q] \cap surplus'[q] = {}
  BY <1>4 DEF CookieInv
<1>12. CookieInv'
  BY <1>3, <1>6, <1>7, <1>8, <1>9, <1>10, <1>11 DEF CookieInv, CookieBlock, Posted
<1>13. Cookies' \subseteq Cookies \cup {at}
  <2>1. ASSUME NEW c \in Cookies' PROVE c \in Cookies \cup {at}
    <3>1. CASE \E s \in requests' : c = s.at
      BY <3>1 DEF Cookies
    <3>2. CASE \E q \in Procs : c \in spare'[q] \cup surplus'[q]
      BY <1>4, <3>2 DEF Cookies
    <3> QED  BY <2>1, <3>1, <3>2 DEF Cookies
  <2> QED  BY <2>1
<1> QED  BY <1>12, <1>13

\* A step that changes the requests, and what may change with them.
LEMMA RequestsChanged ==
  ASSUME LayoutsInv, UNCHANGED <<job, typeVars>>, PoolInv', CookieInv', SettledKept,
         \A s \in requests' :
           \/ \E r \in requests : s.iovec = r.iovec /\ s.type = r.type
           \/ PointsIn(memory, committed, s.iovec, s.type)
  PROVE  LayoutsInv'
<1>1. ListInv /\ LockInv /\ HandleInv /\ RequestInv
  BY DEF LayoutsInv
<1>2. ListInv' /\ LockInv' /\ HandleInv'
  BY <1>1, ListsSteady
<1>3. committed' = committed
  BY DEF typeVars
<1>4. ASSUME NEW s \in requests' PROVE PointsIn(memory', committed', s.iovec, s.type)
  <2>1. PointsIn(memory, committed, s.iovec, s.type)
    BY <1>1 DEF RequestInv
  <2> QED  BY <1>1, <1>3, <2>1, PointsKept
<1>5. RequestInv'
  BY <1>4 DEF RequestInv
<1> QED  BY <1>2, <1>5 DEF LayoutsInv

LEMMA PostLayouts == ASSUME LayoutsInv, NEW p \in Procs, Post(p) PROVE LayoutsInv'
<1>1. PoolInv /\ CookieInv /\ HandleInv
  BY DEF LayoutsInv
<1>2. PICK new : new = Address(pool, CookieUnits)
  OBVIOUS
<1>3. PICK host \in Hosts(p) :
        /\ \E h \in Usable(p) :
             \E at \in IF spare[host] # {} THEN spare[host] ELSE {new} :
               /\ requests' = requests \cup
                    {[at |-> at, owner |-> p, host |-> host, shape |-> NextShape, type |-> h.type,
                      iovec |-> h.at, outcome |-> NoOutcome]}
               /\ spare' = [spare EXCEPT ![host] = @ \ {at}]
        /\ IF spare[host] # {} THEN UNCHANGED poolVars ELSE Allocates(Words(CookieUnits))
  BY <1>2 DEF Post
<1>4. PICK h \in Usable(p), at \in IF spare[host] # {} THEN spare[host] ELSE {new} :
        /\ requests' = requests \cup
             {[at |-> at, owner |-> p, host |-> host, shape |-> NextShape, type |-> h.type,
               iovec |-> h.at, outcome |-> NoOutcome]}
        /\ spare' = [spare EXCEPT ![host] = @ \ {at}]
  BY <1>3
<1>5. PICK r : r = [at |-> at, owner |-> p, host |-> host, shape |-> NextShape, type |-> h.type,
                    iovec |-> h.at, outcome |-> NoOutcome]
  OBVIOUS
<1>6. r.at = at /\ r.owner \in Procs /\ r.iovec = h.at /\ r.type = h.type /\ Posted(r)
  BY <1>5 DEF Posted
<1>7. requests' = requests \cup {r} /\ surplus' = surplus /\ UNCHANGED <<job, typeVars>>
  BY <1>4, <1>5 DEF Post
<1>8. host \in Procs
  BY <1>3 DEF Hosts
<1>9. PointsIn(memory, committed, r.iovec, r.type)
  BY <1>1, <1>6, UsablePoints
<1>10. PoolInv' /\ CookieInv' /\ SettledKept
  <2>1. CASE spare[host] # {}
    <3>1. at \in spare[host] /\ UNCHANGED poolVars
      BY <1>3, <1>4, <2>1
    <3>2. at \in Cookies
      BY <1>8, <3>1 DEF Cookies
    <3>3. at \in Units /\ CookieBlock(at) \in live
      BY <1>1, <3>2, CookieTypes
    <3>4. \A s \in requests : s.at # at
      BY <1>1, <1>8, <3>1 DEF CookieInv
    <3>5. \A q \in Procs : at \notin surplus[q] /\ (q # host => at \notin spare[q])
      <4>1. ASSUME NEW q \in Procs, q # host PROVE at \notin spare[q] \cup surplus[q]
        BY <1>1, <1>8, <3>1, <4>1 DEF CookieInv
      <4>2. at \notin surplus[host]
        BY <1>1, <1>8, <3>1 DEF CookieInv
      <4> QED  BY <4>1, <4>2
    <3>6. live' = live /\ pool' = pool /\ memory' = memory
      BY <3>1 DEF poolVars
    <3>7. CookieInv' /\ Cookies' \subseteq Cookies \cup {at}
      BY <1>1, <1>4, <1>6, <1>7, <1>8, <3>3, <3>4, <3>5, <3>6, PostedCookie
    <3>8. PoolInv'
      BY <1>1, <3>6 DEF PoolInv, PoolTypeOK
    <3>9. SettledKept
      BY <1>1, <3>1, <3>2, <3>7, KeptQuietly
    <3> QED  BY <3>7, <3>8, <3>9
  <2>2. CASE spare[host] = {}
    <3>1. PICK w : w = Words(CookieUnits)
      OBVIOUS
    <3>2. w \in Seq([dis: Int, len: Nat]) /\ w # <<>> /\ Len(w) = CookieUnits
      BY <3>1, CookieAssumption, WordsTypes
    <3>3. at = Address(pool, Len(w)) /\ Allocates(w)
      BY <1>2, <1>3, <1>4, <2>2, <3>1, <3>2 DEF Allocates
    <3>4. PoolInv' /\ Granted(w)
      BY <1>1, <3>2, <3>3, AllocatesSound
    <3>5. at \in Units /\ live' = live \cup {CookieBlock(at)}
      BY <3>2, <3>3, <3>4 DEF Granted, CookieBlock
    <3>6. at \notin Cookies
      <4>1. \A b \in live : b.at # at
        BY <1>1, <3>2, <3>3, <3>4, GrantedApart
      <4>2. ASSUME at \in Cookies PROVE FALSE
        <5>1. CookieBlock(at) \in live
          BY <1>1, <4>2, CookieTypes
        <5>2. CookieBlock(at).at = at
          BY DEF CookieBlock, Block
        <5> QED  BY <4>1, <5>1, <5>2
      <4> QED  BY <4>2
    <3>7. \A s \in requests : s.at # at
      BY <3>6 DEF Cookies
    <3>8. \A q \in Procs : at \notin surplus[q] /\ at \notin spare[q]
      BY <3>6 DEF Cookies
    <3>9. CookieInv' /\ Cookies' \subseteq Cookies \cup {at}
      BY <1>1, <1>4, <1>6, <1>7, <1>8, <3>5, <3>7, <3>8, PostedCookie
    <3>10. SettledKept
      BY <1>1, <3>2, <3>3, <3>4, <3>9, KeptByAllocation
    <3> QED  BY <3>4, <3>9, <3>10
  <2> QED  BY <2>1, <2>2
<1> QED  BY <1>7, <1>9, <1>10, RequestsChanged

LEMMA MoveLayouts ==
  ASSUME LayoutsInv, NEW q \in Procs, NEW r \in requests, Move(q, r) PROVE LayoutsInv'
<1>1. PoolInv /\ CookieInv
  BY DEF LayoutsInv
<1>2. PICK o : requests' = (requests \ {r}) \cup {[r EXCEPT !.outcome = o]}
  BY DEF Move
<1>3. UNCHANGED <<job, poolVars, typeVars, spare, surplus>>
  BY DEF Move
<1>4. PICK s : s = [at |-> r.at, owner |-> r.owner, host |-> r.host, shape |-> r.shape, type |-> r.type,
                    iovec |-> r.iovec, outcome |-> o]
  OBVIOUS
<1>5. Posted(r)
  BY <1>1 DEF CookieInv
<1>6. [r EXCEPT !.outcome = o] = s
  <2>1. PICK a, b, c, d, e, f, g :
          r = [at |-> a, owner |-> b, host |-> c, shape |-> d, type |-> e, iovec |-> f, outcome |-> g]
    BY <1>5 DEF Posted
  <2> QED  BY <1>4, <2>1
<1>7. requests' = (requests \ {r}) \cup {s}
  BY <1>2, <1>6
<1>8. s.at = r.at /\ s.owner = r.owner /\ s.type = r.type /\ s.iovec = r.iovec /\ Posted(s)
  BY <1>4 DEF Posted
<1>9. spare' = spare /\ surplus' = surplus /\ live' = live /\ pool' = pool /\ memory' = memory
  BY <1>3 DEF poolVars
<1>10. \A t \in requests' : \E u \in requests : t.at = u.at /\ t.owner = u.owner /\ Posted(t)
  BY <1>1, <1>7, <1>8 DEF CookieInv
<1>11. \A t, u \in requests' : t.at = u.at => t = u
  <2>1. \A t \in requests \ {r} : t.at # s.at
    BY <1>1, <1>8 DEF CookieInv
  <2>2. \A t, u \in requests \ {r} : t.at = u.at => t = u
    BY <1>1 DEF CookieInv
  <2> QED  BY <1>7, <2>1, <2>2
<1>12. \A u \in requests : /\ u.owner \in Procs /\ u.at \in Units /\ CookieBlock(u.at) \in live
                           /\ \A p \in Procs : u.at \notin spare[p] \cup surplus[p]
  BY <1>1 DEF CookieInv
<1>13. \A t \in requests' : /\ Posted(t) /\ t.owner \in Procs /\ t.at \in Units /\ CookieBlock(t.at) \in live
                            /\ \A p \in Procs : t.at \notin spare[p] \cup surplus[p]
  BY <1>10, <1>12
<1>14. CookieInv'
  BY <1>1, <1>9, <1>11, <1>13 DEF CookieInv, CookieBlock, Posted
<1>15. Cookies' \subseteq Cookies
  BY <1>9, <1>10 DEF Cookies
<1>16. PoolInv'
  BY <1>1, <1>9 DEF PoolInv, PoolTypeOK
<1>17. SettledKept
  BY <1>1, <1>3, <1>15, KeptQuietly
<1>18. \A t \in requests' : \E u \in requests : t.iovec = u.iovec /\ t.type = u.type
  BY <1>7, <1>8
<1> QED  BY <1>3, <1>14, <1>16, <1>17, <1>18, RequestsChanged

LEMMA FinishLayouts ==
  ASSUME LayoutsInv, NEW p \in Procs, Finish(p) PROVE LayoutsInv'
<1>1. PoolInv /\ CookieInv
  BY DEF LayoutsInv
<1>2. PICK unused \in SUBSET requests :
        /\ requests' = requests \ unused
        /\ \E K \in SUBSET (spare[p] \cup {r.at : r \in unused}) :
             /\ spare'   = [spare EXCEPT ![p] = K]
             /\ surplus' = [surplus EXCEPT ![p] = (spare[p] \cup {r.at : r \in unused}) \ K]
  BY DEF Finish, Done
<1>3. PICK back : back = {r.at : r \in unused}
  OBVIOUS
<1>4. PICK kept : kept = spare[p] \cup back
  OBVIOUS
<1>5. PICK K \in SUBSET kept : spare' = [spare EXCEPT ![p] = K] /\ surplus' = [surplus EXCEPT ![p] = kept \ K]
  BY <1>2, <1>3, <1>4
<1>6. surplus[p] = {} /\ UNCHANGED <<job, poolVars, typeVars>>
  BY DEF Finish, Idle
<1>7. spare \in [Procs -> SUBSET Units] /\ surplus \in [Procs -> SUBSET Units]
  BY <1>1 DEF CookieInv
<1>8. \A a \in back : /\ a \in Units /\ CookieBlock(a) \in live /\ a \in Cookies
                     /\ \A q \in Procs : a \notin spare[q] \cup surplus[q]
  <2>1. \A r \in requests : /\ r.at \in Units /\ CookieBlock(r.at) \in live
                            /\ \A q \in Procs : r.at \notin spare[q] \cup surplus[q]
    BY <1>1 DEF CookieInv
  <2>2. \A a \in back : \E r \in requests : a = r.at
    BY <1>2, <1>3
  <2> QED  BY <2>1, <2>2 DEF Cookies
<1>9. /\ spare'[p] = K /\ surplus'[p] = kept \ K
      /\ \A q \in Procs \ {p} : spare'[q] = spare[q] /\ surplus'[q] = surplus[q]
  BY <1>5, <1>7
<1>10. spare' \in [Procs -> SUBSET Units] /\ surplus' \in [Procs -> SUBSET Units]
  <2>1. kept \subseteq Units
    BY <1>4, <1>7, <1>8
  <2>2. K \in SUBSET Units /\ kept \ K \in SUBSET Units
    BY <2>1
  <2> QED  BY <1>5, <1>7, <2>2
<1>11. live' = live /\ pool' = pool /\ memory' = memory
  BY <1>6 DEF poolVars
<1>12. spare'[p] \cup surplus'[p] = spare[p] \cup surplus[p] \cup back
  BY <1>4, <1>6, <1>9
<1>13. \A q \in Procs \ {p} : spare'[q] \cup surplus'[q] = spare[q] \cup surplus[q]
  BY <1>9
<1>14. \A q \in Procs : \A a \in spare'[q] \cup surplus'[q] : CookieBlock(a) \in live'
  <2>1. \A q \in Procs : \A a \in spare[q] \cup surplus[q] : CookieBlock(a) \in live
    BY <1>1 DEF CookieInv
  <2> QED  BY <1>8, <1>11, <1>12, <1>13, <2>1
<1>15. \A s \in requests' : s \in requests /\ s.at \notin back
  <2>1. ASSUME NEW s \in requests' PROVE s \in requests /\ s.at \notin back
    <3>1. s \in requests /\ s \notin unused
      BY <1>2, <2>1
    <3>2. \A r \in unused : r.at # s.at
      BY <1>1, <1>2, <3>1 DEF CookieInv
    <3> QED  BY <1>3, <3>1, <3>2
  <2> QED  BY <2>1
<1>16. \A s \in requests' : Posted(s) /\ s.owner \in Procs /\ s.at \in Units /\ CookieBlock(s.at) \in live'
  BY <1>1, <1>11, <1>15 DEF CookieInv
<1>17. \A s \in requests' : \A q \in Procs : s.at \notin spare'[q] \cup surplus'[q]
  <2>1. \A s \in requests' : \A q \in Procs : s.at \notin spare[q] \cup surplus[q]
    BY <1>1, <1>15 DEF CookieInv
  <2> QED  BY <1>12, <1>13, <1>15, <2>1
<1>18. \A q, s \in Procs : q # s => (spare'[q] \cup surplus'[q]) \cap (spare'[s] \cup surplus'[s]) = {}
  <2>1. ASSUME NEW q \in Procs, NEW s \in Procs, q # s
        PROVE  (spare'[q] \cup surplus'[q]) \cap (spare'[s] \cup surplus'[s]) = {}
    <3>1. (spare[q] \cup surplus[q]) \cap (spare[s] \cup surplus[s]) = {}
      BY <1>1, <2>1 DEF CookieInv
    <3>2. back \cap (spare[q] \cup surplus[q]) = {} /\ back \cap (spare[s] \cup surplus[s]) = {}
      BY <1>8
    <3>3. CASE q = p
      BY <1>12, <1>13, <2>1, <3>1, <3>2, <3>3
    <3>4. CASE s = p
      BY <1>12, <1>13, <2>1, <3>1, <3>2, <3>4
    <3>5. CASE q # p /\ s # p
      BY <1>13, <3>1, <3>5
    <3> QED  BY <3>3, <3>4, <3>5
  <2> QED  BY <2>1
<1>19. \A q \in Procs : spare'[q] \cap surplus'[q] = {}
  <2>1. spare'[p] \cap surplus'[p] = {}
    BY <1>9
  <2>2. \A q \in Procs \ {p} : spare'[q] \cap surplus'[q] = {}
    BY <1>1, <1>9 DEF CookieInv
  <2> QED  BY <2>1, <2>2
<1>20. \A s, t \in requests' : s.at = t.at => s = t
  BY <1>1, <1>15 DEF CookieInv
<1>21. CookieInv'
  BY <1>10, <1>14, <1>16, <1>17, <1>18, <1>19, <1>20 DEF CookieInv, CookieBlock, Posted
<1>22. Cookies' \subseteq Cookies
  <2>1. ASSUME NEW c \in Cookies' PROVE c \in Cookies
    <3>1. CASE \E s \in requests' : c = s.at
      BY <1>15, <3>1 DEF Cookies
    <3>2. CASE \E q \in Procs : c \in spare'[q] \cup surplus'[q]
      <4>1. PICK q \in Procs : c \in spare'[q] \cup surplus'[q]
        BY <3>2
      <4>2. c \in back \/ c \in spare[q] \cup surplus[q]
        BY <1>12, <1>13, <4>1
      <4> QED  BY <1>8, <4>2 DEF Cookies
    <3> QED  BY <2>1, <3>1, <3>2 DEF Cookies
  <2> QED  BY <2>1
<1>23. PoolInv'
  BY <1>1, <1>11 DEF PoolInv, PoolTypeOK
<1>24. SettledKept
  BY <1>1, <1>6, <1>22, KeptQuietly
<1>25. \A s \in requests' : \E r \in requests : s.iovec = r.iovec /\ s.type = r.type
  BY <1>15
<1> QED  BY <1>6, <1>21, <1>23, <1>24, <1>25, RequestsChanged

LEMMA EraseLayouts == ASSUME LayoutsInv, NEW p \in Procs, Erase(p) PROVE LayoutsInv'
<1>1. PoolInv /\ CookieInv
  BY DEF LayoutsInv
<1>2. PICK a \in surplus[p] : GivesBack(a, CookieUnits) /\ surplus' = [surplus EXCEPT ![p] = @ \ {a}]
  BY DEF Erase, GivesBack
<1>3. UNCHANGED <<job, typeVars, requests, spare>>
  BY DEF Erase
<1>4. a \in Cookies
  BY <1>2 DEF Cookies
<1>5. a \in Units /\ CookieBlock(a) \in live
  BY <1>1, <1>4, CookieTypes
<1>6. PoolInv'
  BY <1>1, <1>2, <1>5, CookieAssumption, GivesBackSound DEF CookieBlock
<1>7. spare \in [Procs -> SUBSET Units] /\ surplus \in [Procs -> SUBSET Units]
  BY <1>1 DEF CookieInv
<1>8. surplus'[p] = surplus[p] \ {a} /\ (\A q \in Procs \ {p} : surplus'[q] = surplus[q])
      /\ surplus' \in [Procs -> SUBSET Units]
  BY <1>2, <1>7
<1>9. \A b : CookieBlock(b) \in live /\ b # a => CookieBlock(b) \in live'
  <2>1. ASSUME NEW b, CookieBlock(b) \in live, b # a PROVE CookieBlock(b) \in live'
    <3>1. Block(b, CookieUnits) # Block(a, CookieUnits)
      BY <2>1, SameBlock
    <3> QED  BY <1>2, <2>1, <3>1 DEF GivesBack, CookieBlock
  <2> QED  BY <2>1
<1>10. \A q \in Procs : surplus'[q] \subseteq surplus[q]
  BY <1>8
<1>11. \A q \in Procs : a \notin spare[q] \cup surplus'[q]
  <2>1. a \notin spare[p] \cup surplus'[p]
    BY <1>1, <1>2, <1>8 DEF CookieInv
  <2>2. ASSUME NEW q \in Procs, q # p PROVE a \notin spare[q] \cup surplus'[q]
    BY <1>1, <1>2, <1>10, <2>2 DEF CookieInv
  <2> QED  BY <2>1, <2>2
<1>12. \A r \in requests : r.at # a
  BY <1>1, <1>2 DEF CookieInv
<1>13. \A r \in requests : Posted(r) /\ r.owner \in Procs /\ r.at \in Units /\ CookieBlock(r.at) \in live'
  BY <1>1, <1>9, <1>12 DEF CookieInv
<1>14. \A q \in Procs : \A b \in spare[q] \cup surplus'[q] : CookieBlock(b) \in live'
  <2>1. \A q \in Procs : \A b \in spare[q] \cup surplus[q] : CookieBlock(b) \in live
    BY <1>1 DEF CookieInv
  <2> QED  BY <1>9, <1>10, <1>11, <2>1
<1>15. /\ \A r, s \in requests : r.at = s.at => r = s
       /\ \A r \in requests : \A q \in Procs : r.at \notin spare[q] \cup surplus'[q]
  BY <1>1, <1>10 DEF CookieInv
<1>16. \A q, s \in Procs : q # s => (spare[q] \cup surplus'[q]) \cap (spare[s] \cup surplus'[s]) = {}
  <2>1. ASSUME NEW q \in Procs, NEW s \in Procs, q # s
        PROVE  (spare[q] \cup surplus'[q]) \cap (spare[s] \cup surplus'[s]) = {}
    <3>1. (spare[q] \cup surplus[q]) \cap (spare[s] \cup surplus[s]) = {}
      BY <1>1, <2>1 DEF CookieInv
    <3> QED  BY <1>10, <3>1
  <2> QED  BY <2>1
<1>17. \A q \in Procs : spare[q] \cap surplus'[q] = {}
  BY <1>1, <1>10 DEF CookieInv
<1>18. CookieInv'
  BY <1>3, <1>7, <1>8, <1>13, <1>14, <1>15, <1>16, <1>17 DEF CookieInv, CookieBlock, Posted
<1>19. Cookies' \subseteq Cookies
  BY <1>3, <1>10 DEF Cookies
<1>20. SettledKept
  BY <1>1, <1>2, <1>4, <1>5, <1>19, KeptByGivingBack
<1> QED  BY <1>3, <1>6, <1>18, <1>20, RequestsChanged

\* Every step keeps the invariant.
LEMMA NextLayouts == LayoutsInv /\ [Next]_vars => LayoutsInv'
<1> SUFFICES ASSUME LayoutsInv, [Next]_vars PROVE LayoutsInv'
  OBVIOUS
<1>1. CASE UNCHANGED vars
  BY <1>1, CalmLayouts DEF vars
<1>2. ASSUME NEW p \in Procs, Step(p) PROVE LayoutsInv'
  <2>1. CASE Create(p)
    BY <2>1, CreateLayouts
  <2>2. CASE CommitFinds(p)
    BY <2>2, CommitFindsLayouts
  <2>3. CASE CommitStores(p)
    BY <2>3, CommitStoresLayouts
  <2>4. CASE CommitLinks(p)
    BY <2>4, CommitLinksLayouts
  <2>5. CASE Free(p)
    BY <2>5, FreeLayouts
  <2>6. CASE Post(p)
    BY <2>6, PostLayouts
  <2>7. CASE Finish(p)
    BY <2>7, FinishLayouts
  <2>8. CASE Erase(p)
    BY <2>8, EraseLayouts
  <2>9. CASE Exhausted(p)
    BY <2>9, CalmLayouts DEF Exhausted
  <2> QED  BY <1>2, <2>1, <2>2, <2>3, <2>4, <2>5, <2>6, <2>7, <2>8, <2>9 DEF Step
<1>3. ASSUME NEW q \in Procs, NEW r \in requests, Move(q, r) PROVE LayoutsInv'
  BY <1>3, MoveLayouts
<1> QED  BY <1>1, <1>2, <1>3 DEF Next

\* What PoolInv, CookieInv, ListInv and LockInv say of single variables.
LEMMA LayoutsInvTypes == LayoutsInv => TypeOK
<1> SUFFICES ASSUME LayoutsInv PROVE TypeOK
  OBVIOUS
<1>1. /\ memory \in [Units -> [dis: Int, len: Nat]]
      /\ pool.begin \in 1..(PoolUnits + 1) /\ pool.begin + pool.space = PoolUnits + 1
  BY DEF LayoutsInv, PoolInv, PoolTypeOK, Memories, Pools
<1>2. lock \in Procs \cup {Nobody} /\ committed \in Seq(Units)
  BY DEF LayoutsInv, LockInv, ListInv
<1>3. /\ \A r \in requests : CookieBlock(r.at) \in live
      /\ \A p \in Procs : \A a \in spare[p] \cup surplus[p] : CookieBlock(a) \in live
  BY DEF LayoutsInv, CookieInv
<1> QED  BY <1>1, <1>2, <1>3 DEF TypeOK

\* Where a pointer leads, the layout of its type is found.
LEMMA LayoutFound ==
  ASSUME NEW h, PointsIn(memory, committed, h.at, h.type)
  PROVE  Layout(h) = h.type.layout
BY StoredIsStoredIn DEF PointsIn, Layout

LEMMA LayoutsInvInterned == LayoutsInv => Interned
<1> SUFFICES ASSUME LayoutsInv PROVE Interned
  OBVIOUS
<1>1. \A i, j \in DOMAIN committed : i # j => Stored(committed[i]) # Stored(committed[j])
  BY StoredIsStoredIn DEF LayoutsInv, ListInv
<1>2. \A p \in Procs : handle[p] # NoType => Layout(handle[p]) = handle[p].type.layout
  BY LayoutFound DEF LayoutsInv, HandleInv
<1>3. \A r \in requests : RequestLayout(r) = r.type.layout
  <2>1. ASSUME NEW r \in requests PROVE RequestLayout(r) = r.type.layout
    <3>1. PICK h : h = [type |-> r.type, at |-> r.iovec]
      OBVIOUS
    <3>2. h.type = r.type /\ h.at = r.iovec
      BY <3>1
    <3>3. PointsIn(memory, committed, r.iovec, r.type)
      BY DEF LayoutsInv, RequestInv
    <3>4. Layout(h) = h.type.layout
      BY <3>2, <3>3, LayoutFound
    <3> QED  BY <3>1, <3>2, <3>4 DEF RequestLayout
  <2> QED  BY <2>1
<1> QED  BY <1>1, <1>2, <1>3 DEF Interned

-----------------------------------------------------------------------------
(* What holds in every execution                                           *)

\* The inductive invariant: the lists of memory_pool.hh are linear and, with the blocks in
\* use, tile the pool; every cookie is in one place; and every layout that shared::commit
\* has stored is in a block that nothing else uses.
THEOREM LayoutsInvariant == Spec => []LayoutsInv
BY InitLayouts, NextLayouts, PTL DEF Spec

\* The pool's bounds, the list of shared::commited_ and the cookies of requests, of reuse
\* and of process::finalize have their types, and each cookie is a block in use.
THEOREM LayoutsTypeCorrect == Spec => []TypeOK
BY LayoutsInvariant, LayoutsInvTypes, PTL

\* memory_pool::alloc and dealloc, whoever calls them and in whichever order, hand out every
\* unit of the pool at most once, lose none, and keep the lists of free blocks intact.
THEOREM PoolSoundCorrect == Spec => []PoolSound
<1>1. LayoutsInv => PoolSound
  BY PoolInvSound DEF LayoutsInv
<1> QED  BY <1>1, LayoutsInvariant, PTL

\* shared::commit never stores the same layout twice, and the layout at which a datatype or a
\* pending request points stays what it was, whatever is allocated and given back since.
THEOREM InternedCorrect == Spec => []Interned
BY LayoutsInvariant, LayoutsInvInterned, PTL

=============================================================================
