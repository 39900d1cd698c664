---------------------------- MODULE MCCollective ----------------------------
(* Model checking of Collective on small instances.                        *)
EXTENDS Collective

\* Neither cookies nor, without a scan, processes are compared with each other.
CookieSymmetry == Permutations(Cookies)
Symmetry       == CookieSymmetry \cup Permutations(Procs)

\* One way to number the processes.
SomeRank == CHOOSE f \in [Procs -> 0..(Cardinality(Procs) - 1)] : \A p, q \in Procs : f[p] = f[q] => p = q

First  == CHOOSE p \in Procs : SomeRank[p] = 0
Second == CHOOSE p \in Procs : SomeRank[p] = 1

EveryProgram == [Calls -> Operations]

\* The operations, and pairs of them: each twice, before the next one and before
\* the one three places on.
Cycle ==
  << [kind |-> "bcast", root |-> First], [kind |-> "gather", root |-> Second],
     [kind |-> "allgather", root |-> Nobody], [kind |-> "scan", root |-> Nobody],
     [kind |-> "gatherv", root |-> First], [kind |-> "allreduce", root |-> Nobody],
     [kind |-> "exscan", root |-> Nobody], [kind |-> "inplace", root |-> Nobody] >>

Pairs ==
  {[t \in Calls |-> Cycle[((k + t * d) % Len(Cycle)) + 1]] : k \in 0..(Len(Cycle) - 1), d \in {0, 1, 3}}

=============================================================================
