----------------------------- MODULE MCLauncher -----------------------------
(* Model checking of Launcher on a small job.                              *)
EXTENDS Launcher

\* What an early exit may pass: success, EXIT_FAILURE, and a multiple of 256.
SomeCodes == {0, 1, 256}

=============================================================================
