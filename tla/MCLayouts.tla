------------------------------ MODULE MCLayouts ------------------------------
(* Model checking of Layouts with a few types.                             *)
EXTENDS Layouts

Byte  == Basic(BYTE, 1)
Short == Basic(SHORT, 2)

\* Two bytes in one piece; the first and the third of three; a byte and a gap; two parts
\* out of order, the same with a gap behind them, and what another process makes of it.
Gapped  == Struct(<<1, 1>>, <<0, 2>>, <<Byte, Byte>>)
Swapped == Struct(<<1, 1>>, <<2, 0>>, <<Byte, Short>>)

SomeTypes ==
  {Contiguous(2, Byte), Gapped, Resized(Byte, 2), Swapped, Resized(Swapped, 4), Contiguous(1, Gapped)}

\* Every request between any two types, and jobs that use the pool's blocks again.
SomeJobs ==
  [types: {<<t, u>> : t, u \in SomeTypes}, basics: {{Byte, Short}}, requests: {<<s>> : s \in Shapes}]
  \cup
  [types: {<<Swapped, Gapped>>, <<Contiguous(2, Byte), Swapped>>}, basics: {{Byte}},
   requests: {[i \in 1..3 |-> [op |-> "message", sends |-> i \in S, n |-> 1, m |-> 1]] :
              S \in {{}, {2}, 1..3}}]

SomeRank == CHOOSE f \in [Procs -> 0..(N - 1)] : \A p, q \in Procs : f[p] = f[q] => p = q

=============================================================================
