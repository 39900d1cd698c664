--------------------------- MODULE MCPointToPoint ---------------------------
(* Model checking of PointToPoint on small instances.                      *)
EXTENDS PointToPoint

\* Receives and probes ask for every tag and for MPI_ANY_TAG.
EveryTag == RecvTags

\* Cookies are interchangeable blocks of memory.
CookieSymmetry == Permutations(Cookies)

\* So are processes: no action compares ranks.
Symmetry == CookieSymmetry \cup Permutations(Procs)

=============================================================================
