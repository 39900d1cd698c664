------------------------------ MODULE MemoryPool ------------------------------
(***************************************************************************)
(* The allocator of the shared map: memory_pool.hh.  Space is handed out   *)
(* from the front of the pool and never taken back; a block that is        *)
(* deallocated goes to the list of its size, whose links lie in the first  *)
(* word of the blocks themselves, and is handed out again from there.      *)
(*                                                                         *)
(* Sizes and addresses are in units of align_size bytes, which hold two    *)
(* words: dis and len, as in struct umpi_iovec.  Every operation is one    *)
(* critical section of the pool's mutex, and so part of one action of the  *)
(* modules that use it.                                                    *)
(***************************************************************************)
EXTENDS Integers, FiniteSets

CONSTANTS
  PoolUnits,   \* the length of the pool
  ListSize     \* memory_pool::list_size, the units of the largest block to deallocate

ASSUME PoolAssumption == PoolUnits \in Nat /\ ListSize \in Nat

Null  == 0
Units == 1..PoolUnits

EmptyPool ==
  [begin |-> 1, space |-> PoolUnits,
   first |-> [n \in 1..ListSize |-> Null], count |-> [n \in 1..ListSize |-> 0]]

\* There is a deallocated block of n units.
Listed(pool, n) == n <= ListSize /\ pool.count[n] > 0

\* memory_pool::alloc: without a block or the space the process exits.
CanAlloc(pool, n) == Listed(pool, n) \/ n <= pool.space

Address(pool, n) == IF Listed(pool, n) THEN pool.first[n] ELSE pool.begin

\* Slips of the code that the properties must notice stand before the definition
\* they would replace; no action uses them.
BehindFirstStale(pool, memory, n) == pool.first[n]

\* memory_pool::pop follows the link in the block that it takes.
BehindFirst(pool, memory, n) == memory[pool.first[n]].dis

AllocatedSpaceKept(pool, memory, n) ==
  IF Listed(pool, n)
  THEN [pool EXCEPT !.first[n] = BehindFirst(pool, memory, n), !.count[n] = @ - 1]
  ELSE [pool EXCEPT !.begin = @ + n]

Allocated(pool, memory, n) ==
  IF Listed(pool, n)
  THEN [pool EXCEPT !.first[n] = BehindFirst(pool, memory, n), !.count[n] = @ - 1]
  ELSE [pool EXCEPT !.begin = @ + n, !.space = @ - n]

\* memory_pool::dealloc: push links the block at address a in front of its list.
Deallocated(pool, a, n) == [pool EXCEPT !.first[n] = a, !.count[n] = @ + 1]
Linked(pool, memory, a, n) == [memory EXCEPT ![a].dis = pool.first[n]]

-----------------------------------------------------------------------------
(* What the lists and the blocks in use make of the pool together          *)

Block(a, n) == [at |-> a, units |-> n]

Covered(b) == b.at..(b.at + b.units - 1)

\* The k-th block in the list of size n, following the links.
Nth(pool, memory, n, k) ==
  LET follow[i \in 0..k] ==
        IF i = 0 THEN pool.first[n]
        ELSE IF follow[i - 1] \in Units THEN memory[follow[i - 1]].dis ELSE Null
  IN follow[k]

ListBlocks(pool, memory, n) == {Block(Nth(pool, memory, n, k), n) : k \in 0..(pool.count[n] - 1)}

\* Each list has as many blocks as it counts, and ends.
ListsIntact(pool, memory) ==
  \A n \in 1..ListSize :
    /\ Cardinality(ListBlocks(pool, memory, n)) = pool.count[n]
    /\ Nth(pool, memory, n, pool.count[n]) = Null

Blocks(pool, memory, live) == live \cup UNION {ListBlocks(pool, memory, n) : n \in 1..ListSize}

\* Every unit that was ever handed out lies in exactly one block, in use or in a list.
Tiled(pool, memory, live) ==
  LET blocks == Blocks(pool, memory, live) IN
  /\ \A b, c \in blocks : b = c \/ Covered(b) \cap Covered(c) = {}
  /\ UNION {Covered(b) : b \in blocks} = 1..(pool.begin - 1)
  /\ live \cap UNION {ListBlocks(pool, memory, n) : n \in 1..ListSize} = {}

=============================================================================
