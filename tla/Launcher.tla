------------------------------- MODULE Launcher -------------------------------
(***************************************************************************)
(* The life of a job: mpiexec (mpiexec.cc) makes the shared map, forks the *)
(* ranks, waits for them and brings all of them down when one fails; a     *)
(* rank (MPI_Init, MPI_Barrier, MPI_Finalize, MPI_Abort in umpi.cc) opens  *)
(* the map, constructs its struct process in it, and meets the others at   *)
(* the one barrier of the map: in MPI_Init, in every MPI_Barrier and in    *)
(* MPI_Finalize.                                                           *)
(*                                                                         *)
(* What a program does between these calls is left out, except that a      *)
(* rank may end there: PointToPoint and Collective set exited where the    *)
(* library calls exit(1).  Once a rank has failed the others need not get  *)
(* any further, since it may have held a mutex they wait for.              *)
(***************************************************************************)
EXTENDS Integers

CONSTANTS
  Size,         \* the number of ranks, mpiexec -np
  Barriers,     \* the number of times a program calls MPI_Barrier
  Codes,        \* exit statuses of a rank that ends early
  MaxSignals,   \* bound on the signals sent to mpiexec
  GroupLeader   \* whether mpiexec leads its process group, as under a job control shell

ASSUME SizeAssumption  == Size \in Nat \ {0}
ASSUME CodesAssumption == Codes \subseteq Nat
ASSUME BoundAssumption == Barriers \in Nat /\ MaxSignals \in Nat /\ GroupLeader \in BOOLEAN

VARIABLES
  mpiexec,   \* where mpiexec is
  verdict,   \* its exit status, or how it ended without one
  forked,    \* the number of ranks it has forked
  file,      \* does the file behind the map have its name
  life,      \* rank -> where it is
  calls,     \* rank -> how often it has called barrier.wait()
  round,     \* rank -> the round of the barrier it waits for the end of
  status,    \* rank -> its exit status, once it has ended
  barrier,   \* the processes in the current round, and the number of rounds completed
  signals    \* signals sent to mpiexec so far

rankVars == <<life, calls, round, status, barrier>>
vars     == <<mpiexec, verdict, forked, file, rankVars, signals>>

-----------------------------------------------------------------------------
Ranks  == 0..(Size - 1)

\* The waits of a rank: in MPI_Init, in each MPI_Barrier, in MPI_Finalize.
Waits  == Barriers + 2

Killed == -1
Ended  == {"zombie", "reaped"}

Init ==
  /\ mpiexec = "forking"
  /\ verdict = "none"
  /\ forked  = 0
  /\ file    = TRUE
  /\ life    = [r \in Ranks |-> "unborn"]
  /\ calls   = [r \in Ranks |-> 0]
  /\ round   = [r \in Ranks |-> 0]
  /\ status  = [r \in Ranks |-> 0]
  /\ barrier = [inside |-> 0, rounds |-> 0]
  /\ signals = 0

-----------------------------------------------------------------------------
(* The ranks                                                               *)

Becomes(r, what) == life' = [life EXCEPT ![r] = what]

\* r ends; the kernel keeps the low byte of its exit status.
Ends(r, code) ==
  /\ Becomes(r, "zombie")
  /\ status' = [status EXCEPT ![r] = IF code = Killed THEN Killed ELSE code % 256]
  /\ UNCHANGED <<calls, round, barrier>>

Execs(r) ==
  /\ life[r] = "forked"
  /\ Becomes(r, "started")
  /\ UNCHANGED <<mpiexec, verdict, forked, file, calls, round, status, barrier, signals>>

\* The child cannot set its rank, and removes the file, or there is no such program.
NeverExecs(r) ==
  /\ life[r] = "forked"
  /\ file' \in {file, FALSE}
  /\ Ends(r, 1)
  /\ UNCHANGED <<mpiexec, verdict, forked, signals>>

\* MPI_Init opens the file, maps it and constructs the process.
Builds(r) ==
  /\ life[r] = "started" /\ file
  /\ Becomes(r, "built")
  /\ UNCHANGED <<mpiexec, verdict, forked, file, calls, round, status, barrier, signals>>

\* Slips of the code that the properties must notice stand before the definition
\* they would replace; no action uses them.
ReleasesEarly(inside) == inside >= Size - 1

\* The barrier has been made for Size processes.
Releases(inside) == inside = Size

\* r enters barrier.wait(): at the end of MPI_Init, in MPI_Barrier or in MPI_Finalize.
Enters(r) ==
  LET inside == barrier.inside + 1 IN
  /\ life[r] \in {"built", "inside"} /\ calls[r] < Waits
  /\ Becomes(r, "waiting")
  /\ calls'   = [calls EXCEPT ![r] = @ + 1]
  /\ round'   = [round EXCEPT ![r] = barrier.rounds]
  /\ barrier' = IF Releases(inside)
                THEN [inside |-> 0, rounds |-> barrier.rounds + 1]
                ELSE [barrier EXCEPT !.inside = inside]
  /\ UNCHANGED <<mpiexec, verdict, forked, file, status, signals>>

\* The round is over and r goes on; after MPI_Finalize it is outside of the library.
Passes(r) ==
  /\ life[r] = "waiting" /\ round[r] < barrier.rounds
  /\ Becomes(r, IF calls[r] = Waits THEN "outside" ELSE "inside")
  /\ UNCHANGED <<mpiexec, verdict, forked, file, calls, round, status, barrier, signals>>

\* The program of r ends: after MPI_Finalize, or before, because MPI_Init has failed,
\* in MPI_Abort, or where the library calls exit.
Exits(r) ==
  /\ \/ life[r] = "outside" /\ Ends(r, 0)
     \/ life[r] \in {"started", "inside", "outside"} /\ \E code \in Codes : Ends(r, code)
  /\ UNCHANGED <<mpiexec, verdict, forked, file, signals>>

\* A signal kills r, for example the kernel's when memory runs out: ranks ask to be
\* the first to go.
Crashes(r) ==
  /\ life[r] \notin Ended \cup {"unborn"}
  /\ Ends(r, Killed)
  /\ UNCHANGED <<mpiexec, verdict, forked, file, signals>>

-----------------------------------------------------------------------------
(* mpiexec                                                                 *)

Stops(how) == mpiexec' = "gone" /\ verdict' = how

Forks ==
  /\ mpiexec = "forking" /\ forked < Size
  /\ life'   = [life EXCEPT ![forked] = "forked"]
  /\ forked' = forked + 1
  /\ UNCHANGED <<mpiexec, verdict, file, calls, round, status, barrier, signals>>

\* mpiexec gives up, and leaves the ranks it has forked to themselves.
ForkFails ==
  /\ mpiexec = "forking" /\ forked < Size
  /\ file' = FALSE
  /\ Stops("fork failed")
  /\ UNCHANGED <<forked, rankVars, signals>>

\* The handlers of SIGTERM and SIGINT are installed after all forks.
InstallsHandlers ==
  /\ mpiexec = "forking" /\ forked = Size
  /\ mpiexec' = "waiting"
  /\ UNCHANGED <<verdict, forked, file, rankVars, signals>>

FailedByExit(r) == status[r] > 0

\* r has exited with a status other than zero or was killed by a signal.
Failed(r) == status[r] # 0

\* wait() returns a rank that has ended.
Reaps(r) ==
  /\ mpiexec = "waiting" /\ life[r] = "zombie"
  /\ Becomes(r, "reaped")
  /\ mpiexec' = IF Failed(r) THEN "killing" ELSE "waiting"
  /\ UNCHANGED <<verdict, forked, file, calls, round, status, barrier, signals>>

OneReaped == \E r \in Ranks : life[r] = "reaped"

AllReaped == \A r \in Ranks : life[r] = "reaped"

\* wait() finds no child left.
RunsOut ==
  /\ mpiexec = "waiting" /\ AllReaped
  /\ mpiexec' = "leaving"
  /\ UNCHANGED <<verdict, forked, file, rankVars, signals>>

KilledExceptWaiting == {r \in Ranks : life[r] \notin Ended /\ life[r] # "waiting"}

\* The members of mpiexec's process group: kill(-getpid()) reaches them if it leads it.
Reached == IF GroupLeader THEN {r \in Ranks : life[r] \notin Ended} ELSE {}

\* cleanup(): SIGTERM for everybody else,
Kills ==
  /\ mpiexec = "killing"
  /\ life'   = [r \in Ranks |-> IF r \in Reached THEN "zombie" ELSE life[r]]
  /\ status' = [r \in Ranks |-> IF r \in Reached THEN Killed ELSE status[r]]
  /\ mpiexec' = "removing"
  /\ UNCHANGED <<verdict, forked, file, calls, round, barrier, signals>>

\* then the file goes. After a job without a failure that is all.
Removes ==
  /\ mpiexec \in {"removing", "leaving"}
  /\ file' = FALSE
  /\ Stops(IF mpiexec = "leaving" THEN "success" ELSE "failure")
  /\ UNCHANGED <<forked, rankVars, signals>>

\* SIGINT or SIGTERM: the handler is cleanup(), in which SIGINT starts it again. Without
\* a handler mpiexec dies.
Signalled ==
  /\ mpiexec # "gone" /\ signals < MaxSignals
  /\ signals' = signals + 1
  /\ IF mpiexec = "forking"
     THEN Stops("signal")
     ELSE mpiexec' = "killing" /\ UNCHANGED verdict
  /\ UNCHANGED <<forked, file, rankVars>>

-----------------------------------------------------------------------------
Library(r) == Execs(r) \/ Builds(r) \/ Enters(r) \/ Passes(r) \/ (life[r] = "outside" /\ Exits(r))

Mpiexec ==
  \/ Forks \/ InstallsHandlers \/ RunsOut \/ Kills \/ Removes
  \/ \E r \in Ranks : Reaps(r)

Next ==
  \/ Mpiexec \/ ForkFails \/ Signalled
  \/ \E r \in Ranks : Library(r) \/ NeverExecs(r) \/ Exits(r) \/ Crashes(r)

Spec == Init /\ [][Next]_vars

\* While all are well every rank gets on; mpiexec always does.
Well == \A r \in Ranks : ~Failed(r)

FairSpec == Spec /\ WF_vars(Mpiexec) /\ \A r \in Ranks : WF_vars(Well /\ Library(r))

-----------------------------------------------------------------------------
(* Properties                                                              *)

TypeOK ==
  /\ mpiexec \in {"forking", "waiting", "killing", "removing", "leaving", "gone"}
  /\ verdict \in {"none", "success", "failure", "fork failed", "signal"}
  /\ forked  \in 0..Size
  /\ file    \in BOOLEAN
  /\ life    \in [Ranks -> {"unborn", "forked", "started", "built", "waiting", "inside", "outside"} \cup Ended]
  /\ calls   \in [Ranks -> 0..Waits]
  /\ round   \in [Ranks -> 0..Waits]
  /\ status  \in [Ranks -> {Killed} \cup 0..255]
  /\ barrier \in [inside: 0..(Size - 1), rounds: 0..Waits]
  /\ signals \in 0..MaxSignals

\* How many waits r has come back from.
Passed(r) == IF life[r] \in {"inside", "outside"} THEN calls[r] ELSE calls[r] - 1

\* Nobody gets past a barrier before everybody has come to it, though a rank may die in
\* it: whoever is inside the library finds the process of every other rank constructed,
\* and nobody unmaps its memory while another may still read or write it.
BarrierTogether == \A r, q \in Ranks : Passed(r) <= calls[q]

\* mpiexec reports success only for a job in which every rank has ended without a failure.
SuccessIsReal == verdict = "success" => \A r \in Ranks : life[r] = "reaped" /\ status[r] = 0

\* Nobody has done anything that ends the job early.
Undisturbed == Well /\ signals = 0 /\ verdict # "fork failed"

\* MPI_Init finds the file, however late a rank starts, unless the job is failing; and
\* once mpiexec is gone it leaves no file behind, unless it died of a signal.
FileWhileNeeded ==
  /\ \A r \in Ranks : life[r] \in {"unborn", "forked", "started"} /\ ~file => ~Undisturbed
  /\ mpiexec = "gone" /\ file => verdict = "signal"

\* r has left the job before MPI_Finalize with status 0, which nobody notices.
LeftSilently(r) == life[r] \in Ended /\ status[r] = 0 /\ calls[r] < Waits

\* mpiexec has ended before it could look after the ranks.
Abandoned == verdict \in {"fork failed", "signal"}

Down == mpiexec = "gone" /\ \A r \in Ranks : life[r] \in Ended

\* Every job ends: either all ranks get through it, or one that fails, whatever the others
\* wait for at that time, takes them and mpiexec down.
AllDown == <>(Down \/ Abandoned \/ \E r \in Ranks : LeftSilently(r))

=============================================================================
