---------------------------- MODULE LauncherProofs ----------------------------
(***************************************************************************)
(* Proofs about Launcher, for every number of ranks and barriers.          *)
(***************************************************************************)
EXTENDS Launcher, FiniteSetTheorems, TLAPS

-----------------------------------------------------------------------------
(* The inductive invariant                                                 *)

\* The ranks that have come to the current round of the barrier, the dead included.
Entered == {r \in Ranks : calls[r] = barrier.rounds + 1}

\* mpiexec forks the ranks in turn, and does nothing else before it has forked all.
ForkOrder ==
  /\ \A r \in Ranks : r >= forked => life[r] = "unborn"
  /\ mpiexec \notin {"forking", "gone"} => forked = Size

\* Nobody has come to the barrier more than once since the last round was completed,
\* and the barrier counts those who have; a rank waits for the round it has entered,
\* and is past all completed rounds when it waits for none.
BarrierInv ==
  /\ barrier.inside = Cardinality(Entered)
  /\ \A r \in Ranks :
       /\ calls[r] \in {barrier.rounds, barrier.rounds + 1}
       /\ life[r] \in {"unborn", "forked", "started", "built"} => calls[r] = 0
       /\ life[r] = "waiting" => calls[r] = round[r] + 1
       /\ life[r] \in {"inside", "outside"} => calls[r] = barrier.rounds

\* Nobody has a status before its end; what mpiexec reaped before it began to kill had none.
StatusInv ==
  /\ \A r \in Ranks : status[r] # 0 => life[r] \in Ended
  /\ mpiexec = "gone" <=> verdict # "none"
  /\ mpiexec \in {"forking", "waiting", "leaving"} \/ verdict = "success" =>
       \A r \in Ranks : life[r] = "reaped" => status[r] = 0
  /\ mpiexec = "leaving" \/ verdict = "success" => AllReaped

\* The file goes because something has happened, or because nobody is left.
FileInv ==
  /\ mpiexec \in {"killing", "removing"} => ~Well \/ signals # 0
  /\ ~file => ~Undisturbed \/ AllReaped
  /\ mpiexec = "gone" /\ file => verdict = "signal"

JobInv == TypeOK /\ ForkOrder /\ BarrierInv /\ StatusInv /\ FileInv

-----------------------------------------------------------------------------
(* Facts about the steps                                                   *)

LEMMA RanksFinite == IsFiniteSet(Ranks) /\ Cardinality(Ranks) = Size /\ 0 \in Ranks
<1>1. Size \in Nat \ {0} /\ 0 \in Int /\ Size - 1 \in Int /\ ~(0 > Size - 1)
  BY SizeAssumption
<1>2. IsFiniteSet(0..(Size - 1)) /\ Cardinality(0..(Size - 1)) = (Size - 1) - 0 + 1
  BY <1>1, FS_Interval
<1> QED  BY <1>1, <1>2 DEF Ranks

LEMMA WaitsType == Waits \in Nat /\ Waits >= 2
BY BoundAssumption DEF Waits

\* The places a rank may be in, and the types of the numbers.
Lives == {"unborn", "forked", "started", "built", "waiting", "inside", "outside"} \cup Ended

LEMMA Types ==
  ASSUME TypeOK
  PROVE  /\ forked \in 0..Size /\ signals \in 0..MaxSignals
         /\ life \in [Ranks -> Lives] /\ status \in [Ranks -> {Killed} \cup 0..255]
         /\ calls \in [Ranks -> 0..Waits] /\ round \in [Ranks -> 0..Waits]
         /\ barrier.inside \in 0..(Size - 1) /\ barrier.rounds \in 0..Waits
         /\ barrier = [inside |-> barrier.inside, rounds |-> barrier.rounds]
<1>1. barrier \in [inside: 0..(Size - 1), rounds: 0..Waits]
  BY DEF TypeOK
<1>2. /\ barrier.inside \in 0..(Size - 1) /\ barrier.rounds \in 0..Waits
      /\ barrier = [inside |-> barrier.inside, rounds |-> barrier.rounds]
  BY <1>1
<1> QED  BY <1>2 DEF TypeOK, Lives

\* A rank that ends takes its status along and stays where it is in the barrier.
LEMMA EndsType ==
  ASSUME TypeOK, NEW r \in Ranks, NEW code \in Codes \cup {Killed, 0, 1}, Ends(r, code)
  PROVE  /\ life' = [life EXCEPT ![r] = "zombie"]
         /\ status' \in [Ranks -> {Killed} \cup 0..255]
         /\ \A q \in Ranks \ {r} : status'[q] = status[q]
         /\ UNCHANGED <<calls, round, barrier>>
<1>1. \A n \in Nat : n % 256 \in 0..255
  OBVIOUS
<1>2. code # Killed => code \in Nat
  BY CodesAssumption
<1>3. (IF code = Killed THEN Killed ELSE code % 256) \in {Killed} \cup 0..255
  BY <1>1, <1>2
<1> QED  BY <1>3 DEF Ends, Becomes, TypeOK

\* The four ways in which a rank may end.
EndsBy(r) == NeverExecs(r) \/ Exits(r) \/ Crashes(r)

LEMMA EndsByType ==
  ASSUME TypeOK, NEW r \in Ranks, EndsBy(r)
  PROVE  /\ life' = [life EXCEPT ![r] = "zombie"]
         /\ status' \in [Ranks -> {Killed} \cup 0..255]
         /\ \A q \in Ranks \ {r} : status'[q] = status[q]
         /\ life[r] \notin Ended \cup {"unborn"}
         /\ ~file' => ~file \/ status'[r] # 0
         /\ file' \in BOOLEAN /\ (file' => file)
         /\ UNCHANGED <<mpiexec, verdict, forked, signals, calls, round, barrier>>
<1>1. CASE NeverExecs(r)
  <2>1. Ends(r, 1) /\ life[r] = "forked" /\ file' \in {file, FALSE}
        /\ UNCHANGED <<mpiexec, verdict, forked, signals>>
    BY <1>1 DEF NeverExecs
  <2>2. status'[r] = 1
    BY <2>1, Types DEF Ends, Killed
  <2>3. file' \in BOOLEAN
    BY <2>1, Zenon DEF TypeOK
  <2>4. file' => file
    BY <2>1, Zenon
  <2>5. life[r] \notin Ended \cup {"unborn"} /\ (~file' => ~file \/ status'[r] # 0)
    BY <2>1, <2>2 DEF Ended
  <2>6. UNCHANGED <<mpiexec, verdict, forked, signals>>
    BY <2>1
  <2> QED  BY <2>1, <2>3, <2>4, <2>5, <2>6, EndsType
<1>2. CASE Exits(r)
  <2>1. /\ \E code \in Codes \cup {Killed, 0, 1} : Ends(r, code)
        /\ life[r] \notin Ended \cup {"unborn"}
        /\ UNCHANGED <<mpiexec, verdict, forked, file, signals>>
    BY <1>2 DEF Exits, Ended
  <2> QED  BY <2>1, EndsType DEF TypeOK
<1>3. CASE Crashes(r)
  <2>1. /\ Ends(r, Killed) /\ life[r] \notin Ended \cup {"unborn"}
        /\ UNCHANGED <<mpiexec, verdict, forked, file, signals>>
    BY <1>3 DEF Crashes
  <2> QED  BY <2>1, EndsType DEF TypeOK
<1> QED  BY <1>1, <1>2, <1>3 DEF EndsBy

\* The steps of a job, one by one.
LEMMA Steps ==
  ASSUME Next
  PROVE  \/ Forks \/ InstallsHandlers \/ RunsOut \/ Kills \/ Removes \/ ForkFails \/ Signalled
         \/ \E r \in Ranks : Reaps(r) \/ Execs(r) \/ Builds(r) \/ Enters(r) \/ Passes(r) \/ EndsBy(r)
BY DEF Next, Mpiexec, Library, EndsBy

-----------------------------------------------------------------------------
(* Type correctness                                                        *)

LEMMA JobInit == Init => JobInv
<1> SUFFICES ASSUME Init PROVE JobInv
  OBVIOUS
<1> USE DEF Init
<1>1. TypeOK
  BY SizeAssumption, BoundAssumption, WaitsType DEF TypeOK, Ended
<1>2. ForkOrder
  BY DEF ForkOrder
<1>3. BarrierInv
  <2>1. Entered = {}
    BY DEF Entered
  <2>2. Cardinality(Entered) = 0
    BY <2>1, FS_EmptySet
  <2> QED  BY <2>2 DEF BarrierInv
<1>4. StatusInv
  BY RanksFinite DEF StatusInv, AllReaped
<1>5. FileInv
  BY DEF FileInv
<1> QED  BY <1>1, <1>2, <1>3, <1>4, <1>5 DEF JobInv

\* What enters the barrier: r comes to it once more, and may complete the round.
LEMMA EntersType ==
  ASSUME TypeOK, NEW r \in Ranks, Enters(r)
  PROVE  /\ life[r] \in {"built", "inside"} /\ calls[r] < Waits
         /\ life' = [life EXCEPT ![r] = "waiting"]
         /\ calls' = [calls EXCEPT ![r] = calls[r] + 1]
         /\ round' = [round EXCEPT ![r] = barrier.rounds]
         /\ barrier' = IF barrier.inside + 1 = Size
                       THEN [inside |-> 0, rounds |-> barrier.rounds + 1]
                       ELSE [inside |-> barrier.inside + 1, rounds |-> barrier.rounds]
         /\ UNCHANGED <<mpiexec, verdict, forked, file, status, signals>>
<1> DEFINE i == barrier.inside
           n == barrier.rounds
<1>1. barrier = [inside |-> i, rounds |-> n]
  BY Types
<1>2. [barrier EXCEPT !.inside = i + 1] = [inside |-> i + 1, rounds |-> n]
  <2> HIDE DEF i, n
  <2> QED  BY <1>1
<1> QED  BY <1>2 DEF Enters, Becomes, Releases

LEMMA JobTypeStep ==
  ASSUME JobInv, [Next]_vars
  PROVE  TypeOK'
<1> USE DEF rankVars, Lives
<1>1. TypeOK
  BY DEF JobInv
<1>2. CASE Forks
  <2>1. forked' \in 0..Size
    BY <1>1, <1>2, SizeAssumption, Types DEF Forks
  <2>2. life' \in [Ranks -> Lives]
    BY <1>1, <1>2, Types DEF Forks
  <2> QED  BY <1>1, <1>2, <2>1, <2>2 DEF Forks, TypeOK
<1>3. CASE InstallsHandlers \/ RunsOut
  BY ZenonT(60), <1>1, <1>3 DEF InstallsHandlers, RunsOut, TypeOK
<1>4. CASE Kills
  <2>1. life' \in [Ranks -> Lives] /\ status' \in [Ranks -> {Killed} \cup 0..255]
    BY <1>1, <1>4, Types DEF Kills, Ended
  <2> QED  BY <1>1, <1>4, <2>1 DEF Kills, TypeOK
<1>5. CASE Removes \/ ForkFails
  BY ZenonT(60), <1>1, <1>5 DEF Removes, ForkFails, Stops, TypeOK
<1>6. CASE Signalled
  <2>1. signals' \in 0..MaxSignals
    BY <1>1, <1>6, BoundAssumption, Types DEF Signalled
  <2>2. mpiexec' \in {"killing", "gone"} /\ verdict' \in {verdict, "signal"}
    BY <1>6 DEF Signalled, Stops
  <2> QED  BY <1>1, <1>6, <2>1, <2>2 DEF Signalled, TypeOK
<1>7. ASSUME NEW r \in Ranks, Reaps(r)  PROVE TypeOK'
  BY <1>1, <1>7 DEF Reaps, Becomes, Ended, TypeOK
<1>8. ASSUME NEW r \in Ranks, Execs(r) \/ Builds(r) \/ Passes(r)  PROVE TypeOK'
  <2>1. life' \in [Ranks -> Lives]
    BY <1>1, <1>8, Types DEF Execs, Builds, Passes, Becomes
  <2>2. UNCHANGED <<mpiexec, verdict, forked, file, calls, round, status, barrier, signals>>
    BY <1>8 DEF Execs, Builds, Passes
  <2> QED  BY <1>1, <2>1, <2>2 DEF TypeOK
<1>9. ASSUME NEW r \in Ranks, Enters(r)  PROVE TypeOK'
  <2>1. barrier.rounds + 1 \in 0..Waits /\ barrier.inside + 1 \in 0..Size
    <3>1. life[r] \in {"built", "inside"} => calls[r] = barrier.rounds
      BY <1>1, Types DEF JobInv, BarrierInv
    <3> QED  BY <1>1, <1>9, <3>1, EntersType, Types, WaitsType, SizeAssumption
  <2>2. calls[r] + 1 \in 0..Waits /\ barrier.rounds \in 0..Waits
    BY <1>1, <1>9, EntersType, Types, WaitsType
  <2>3. calls' \in [Ranks -> 0..Waits] /\ round' \in [Ranks -> 0..Waits]
    BY <1>1, <1>9, <2>2, EntersType, Types
  <2>4. barrier' \in [inside: 0..(Size - 1), rounds: 0..Waits]
    <3>1. CASE barrier.inside + 1 = Size
      BY <1>1, <1>9, <2>1, <3>1, EntersType, SizeAssumption
    <3>2. CASE barrier.inside + 1 # Size
      <4>1. barrier.inside + 1 \in 0..(Size - 1)
        BY <2>1, <3>2, SizeAssumption
      <4> QED  BY <1>1, <1>9, <2>2, <3>2, <4>1, EntersType
    <3> QED  BY <3>1, <3>2
  <2>5. life' \in [Ranks -> Lives]
    BY <1>1, <1>9, EntersType, Types
  <2>6. UNCHANGED <<mpiexec, verdict, forked, file, status, signals>>
    BY <1>9 DEF Enters
  <2> QED  BY <1>1, <2>3, <2>4, <2>5, <2>6 DEF TypeOK
<1>10. ASSUME NEW r \in Ranks, EndsBy(r)  PROVE TypeOK'
  <2>1. life' \in [Ranks -> Lives]
    BY <1>1, <1>10, EndsByType, Types DEF Ended
  <2>2. status' \in [Ranks -> {Killed} \cup 0..255]
    BY <1>1, <1>10, EndsByType
  <2>3. file' \in BOOLEAN
    BY <1>1, <1>10, EndsByType, Zenon
  <2>4. UNCHANGED <<mpiexec, verdict, forked, signals, calls, round, barrier>>
    BY <1>1, <1>10, EndsByType
  <2> QED  BY <1>1, <2>1, <2>2, <2>3, <2>4 DEF TypeOK
<1>11. CASE UNCHANGED vars
  BY <1>1, <1>11 DEF vars, TypeOK
<1> QED  BY <1>2, <1>3, <1>4, <1>5, <1>6, <1>7, <1>8, <1>9, <1>10, <1>11, Steps

-----------------------------------------------------------------------------
(* The barrier                                                             *)

\* mpiexec forks a rank that has not been born: the others are too young.
LEMMA ForkOrderStep ==
  ASSUME JobInv, [Next]_vars
  PROVE  ForkOrder'
<1> USE DEF rankVars
<1>1. TypeOK /\ ForkOrder
  BY DEF JobInv
<1>2. CASE Forks
  <2>1. forked \in Int /\ forked' = forked + 1 /\ life' = [life EXCEPT ![forked] = "forked"]
    BY <1>1, <1>2, Types DEF Forks
  <2>2. /\ \A r \in Ranks : r \in Int /\ (r >= forked' => r >= forked /\ r # forked)
        /\ \A r \in Ranks : r # forked => life'[r] = life[r]
    BY <1>1, <2>1, Types DEF Ranks
  <2>3. mpiexec' = "forking"
    BY <1>2 DEF Forks
  <2> QED  BY <1>1, <2>2, <2>3 DEF ForkOrder
<1>3. CASE InstallsHandlers \/ RunsOut \/ Removes \/ ForkFails \/ Signalled
  BY <1>1, <1>3 DEF InstallsHandlers, RunsOut, Removes, ForkFails, Signalled, Stops, ForkOrder
<1>4. CASE Kills
  <2>1. forked = Size /\ forked' = forked
    BY <1>1, <1>4 DEF Kills, ForkOrder
  <2>2. \A r \in Ranks : ~(r >= Size)
    BY SizeAssumption DEF Ranks
  <2> QED  BY <2>1, <2>2 DEF ForkOrder
<1>5. ASSUME NEW r \in Ranks, Reaps(r)  PROVE ForkOrder'
  BY <1>1, <1>5, Types DEF Reaps, Becomes, ForkOrder
<1>6. ASSUME NEW r \in Ranks, Execs(r) \/ Builds(r) \/ Passes(r)  PROVE ForkOrder'
  <2>1. /\ life[r] # "unborn" /\ forked' = forked /\ mpiexec' = mpiexec
        /\ \A q \in Ranks \ {r} : life'[q] = life[q]
    BY <1>1, <1>6, Types DEF Execs, Builds, Passes, Becomes
  <2> QED  BY <1>1, <2>1 DEF ForkOrder
<1>7. ASSUME NEW r \in Ranks, Enters(r)  PROVE ForkOrder'
  <2>1. /\ life[r] # "unborn" /\ forked' = forked /\ mpiexec' = mpiexec
        /\ \A q \in Ranks \ {r} : life'[q] = life[q]
    BY <1>1, <1>7, Types DEF Enters, Becomes
  <2> QED  BY <1>1, <2>1 DEF ForkOrder
<1>8. ASSUME NEW r \in Ranks, EndsBy(r)  PROVE ForkOrder'
  <2>1. /\ life[r] # "unborn" /\ forked' = forked /\ mpiexec' = mpiexec
        /\ \A q \in Ranks \ {r} : life'[q] = life[q]
    BY <1>1, <1>8, EndsByType, Types
  <2> QED  BY <1>1, <2>1 DEF ForkOrder
<1>9. CASE UNCHANGED vars
  BY <1>1, <1>9 DEF vars, ForkOrder
<1> QED  BY <1>2, <1>3, <1>4, <1>5, <1>6, <1>7, <1>8, <1>9, Steps

\* A step that leaves the barrier alone, in which a rank gets on by itself or ends.
Quiet ==
  /\ UNCHANGED <<calls, round, barrier>>
  /\ \A r \in Ranks : \/ life'[r] \in {life[r]} \cup Ended
                       \/ /\ life[r] \in {"unborn", "forked", "started"}
                          /\ life'[r] \in {"forked", "started", "built"}

\* Only coming to the barrier and leaving it is not quiet.
LEMMA QuietSteps ==
  ASSUME JobInv, [Next]_vars
  PROVE  Quiet \/ \E r \in Ranks : Enters(r) \/ Passes(r)
<1> USE DEF rankVars, Quiet
<1>1. TypeOK /\ ForkOrder
  BY DEF JobInv
<1>2. CASE Forks
  <2>1. forked \in Ranks /\ life[forked] = "unborn"
    BY <1>1, <1>2, Types, SizeAssumption DEF Forks, ForkOrder, Ranks
  <2> QED  BY <1>1, <1>2, <2>1, Types DEF Forks
<1>3. CASE InstallsHandlers \/ RunsOut \/ Removes \/ ForkFails \/ Signalled
  BY <1>3 DEF InstallsHandlers, RunsOut, Removes, ForkFails, Signalled
<1>4. CASE Kills
  BY <1>4 DEF Kills, Ended
<1>5. ASSUME NEW r \in Ranks, Reaps(r)  PROVE Quiet
  BY <1>1, <1>5, Types DEF Reaps, Becomes, Ended
<1>6. ASSUME NEW r \in Ranks, Execs(r) \/ Builds(r)  PROVE Quiet
  BY <1>1, <1>6, Types DEF Execs, Builds, Becomes
<1>7. ASSUME NEW r \in Ranks, EndsBy(r)  PROVE Quiet
  <2>1. life' = [life EXCEPT ![r] = "zombie"] /\ UNCHANGED <<calls, round, barrier>>
    BY <1>1, <1>7, EndsByType
  <2> QED  BY <1>1, <2>1, Types DEF Ended
<1>8. CASE UNCHANGED vars
  BY <1>8 DEF vars
<1> QED  BY <1>2, <1>3, <1>4, <1>5, <1>6, <1>7, <1>8, Steps

LEMMA BarrierStep ==
  ASSUME JobInv, [Next]_vars
  PROVE  BarrierInv'
<1>1. TypeOK /\ BarrierInv
  BY DEF JobInv
<1>2. CASE Quiet
  <2>1. Entered' = Entered
    BY <1>2 DEF Quiet, Entered
  <2>2. \A r \in Ranks :
          /\ life'[r] \in {"unborn", "forked", "started", "built"}
               => life[r] \in {"unborn", "forked", "started", "built"}
          /\ life'[r] \in {"waiting", "inside", "outside"} => life'[r] = life[r]
    BY <1>2 DEF Quiet, Ended
  <2> QED  BY <1>1, <1>2, <2>1, <2>2 DEF Quiet, BarrierInv
<1>3. ASSUME NEW r \in Ranks, Passes(r)  PROVE BarrierInv'
  <2>1. /\ life[r] = "waiting" /\ round[r] < barrier.rounds
        /\ life'[r] \in {"inside", "outside"}
        /\ \A q \in Ranks \ {r} : life'[q] = life[q]
        /\ UNCHANGED <<calls, round, barrier>>
    BY <1>1, <1>3, Types DEF Passes, Becomes
  <2>2. calls[r] = barrier.rounds
    <3>1. calls[r] = round[r] + 1 /\ calls[r] \in {barrier.rounds, barrier.rounds + 1}
      BY <1>1, <2>1 DEF BarrierInv
    <3> QED  BY <1>1, <2>1, <3>1, Types
  <2>3. Entered' = Entered
    BY <2>1 DEF Entered
  <2> QED  BY <1>1, <2>1, <2>2, <2>3 DEF BarrierInv
<1>4. ASSUME NEW r \in Ranks, Enters(r)  PROVE BarrierInv'
  <2> DEFINE n == barrier.rounds
             S == Entered \cup {r}
  <2>1. /\ life[r] \in {"built", "inside"} /\ calls[r] = n
        /\ n \in Nat /\ barrier.inside \in 0..(Size - 1)
    BY <1>1, <1>4, Types, EntersType DEF BarrierInv
  <2>2. /\ calls' = [calls EXCEPT ![r] = n + 1] /\ calls'[r] = n + 1
        /\ \A q \in Ranks \ {r} : calls'[q] = calls[q]
        /\ round'[r] = n /\ \A q \in Ranks \ {r} : round'[q] = round[q]
        /\ life'[r] = "waiting" /\ \A q \in Ranks \ {r} : life'[q] = life[q]
    BY <1>1, <1>4, <2>1, Types, EntersType
  <2>3. /\ IsFiniteSet(S) /\ S \subseteq Ranks
        /\ Cardinality(S) = barrier.inside + 1
    <3>1. r \notin Entered /\ Entered \subseteq Ranks
      BY <2>1 DEF Entered
    <3>2. IsFiniteSet(Entered)
      BY <3>1, RanksFinite, FS_Subset
    <3>3. Cardinality(S) = Cardinality(Entered) + 1 /\ IsFiniteSet(S)
      BY <3>1, <3>2, FS_AddElement
    <3> QED  BY <1>1, <3>1, <3>3 DEF BarrierInv
  <2>4. S = {q \in Ranks : calls'[q] = n + 1}
    BY <2>1, <2>2 DEF Entered
  <2>5. \A q \in Ranks : calls[q] \in {n, n + 1} /\ calls'[q] \in {n, n + 1}
    BY <1>1, <2>2 DEF BarrierInv
  <2>6. /\ barrier.inside + 1 = Size => barrier' = [inside |-> 0, rounds |-> n + 1]
        /\ barrier.inside + 1 # Size => barrier' = [inside |-> barrier.inside + 1, rounds |-> n]
    BY <1>1, <1>4, EntersType
  <2> HIDE DEF n, S
  <2>7. CASE barrier.inside + 1 = Size
    <3>1. barrier'.inside = 0 /\ barrier'.rounds = n + 1
      BY <2>6, <2>7
    <3>2. S = Ranks
      BY <2>3, <2>7, RanksFinite, FS_Subset
    <3>3. \A q \in Ranks : calls'[q] = n + 1
      BY <2>4, <3>2
    <3>4. Entered' = {}
      <4>1. \A q \in Ranks : calls'[q] # n + 1 + 1
        BY <2>1, <3>3 DEF n
      <4> QED  BY <3>1, <4>1 DEF Entered
    <3>5. Cardinality(Entered') = 0
      BY <3>4, FS_EmptySet
    <3>6. \A q \in Ranks \ {r} : calls[q] = n + 1
      BY <2>2, <3>3
    <3>7. \A q \in Ranks \ {r} : life[q] \notin {"unborn", "forked", "started", "built", "inside", "outside"}
      BY <1>1, <2>1, <3>6 DEF BarrierInv, n
    <3> QED  BY <1>1, <2>2, <3>1, <3>3, <3>5, <3>7 DEF BarrierInv
  <2>8. CASE barrier.inside + 1 # Size
    <3>1. barrier'.inside = barrier.inside + 1 /\ barrier'.rounds = n
      BY <2>6, <2>8
    <3>2. Entered' = S
      BY <2>4, <3>1 DEF Entered
    <3>3. barrier'.inside = Cardinality(Entered')
      BY <2>3, <3>1, <3>2
    <3> QED  BY <1>1, <2>2, <2>5, <3>1, <3>3 DEF BarrierInv, n
  <2> QED  BY <2>7, <2>8
<1> QED  BY <1>2, <1>3, <1>4, QuietSteps

\* No rank has come to the barrier less often than another has passed it.
LEMMA BarrierInvTogether == TypeOK /\ BarrierInv => BarrierTogether
<1> SUFFICES ASSUME TypeOK, BarrierInv, NEW r \in Ranks, NEW q \in Ranks
             PROVE  Passed(r) <= calls[q]
  BY DEF BarrierTogether
<1>1. /\ calls[r] \in {barrier.rounds, barrier.rounds + 1}
      /\ calls[q] \in {barrier.rounds, barrier.rounds + 1}
      /\ life[r] \in {"inside", "outside"} => calls[r] = barrier.rounds
  BY DEF BarrierInv
<1> QED  BY <1>1, Types DEF Passed

-----------------------------------------------------------------------------
(* The end of a job                                                        *)

\* A rank that was reaped stays so, with the status it had, and one that has failed
\* stays failed.
LEMMA EndIsFinal ==
  ASSUME JobInv, [Next]_vars
  PROVE  /\ \A r \in Ranks : life[r] = "reaped" => life'[r] = "reaped" /\ status'[r] = status[r]
         /\ \A r \in Ranks : status[r] # 0 => status'[r] # 0
         /\ \A r \in Ranks : life'[r] \notin Ended => status'[r] = status[r] /\ life[r] \notin Ended
<1> USE DEF rankVars
<1>1. TypeOK /\ ForkOrder /\ StatusInv
  BY DEF JobInv
<1>2. CASE Forks
  <2>1. forked \in Ranks /\ life[forked] = "unborn"
    BY <1>1, <1>2, Types, SizeAssumption DEF Forks, ForkOrder, Ranks
  <2> QED  BY <1>1, <1>2, <2>1, Types DEF Forks, Ended
<1>3. CASE InstallsHandlers \/ RunsOut \/ Removes \/ ForkFails \/ Signalled
  BY <1>3 DEF InstallsHandlers, RunsOut, Removes, ForkFails, Signalled
<1>4. CASE Kills
  <2>1. Killed # 0
    BY DEF Killed
  <2>2. \A r \in Reached : life[r] \notin Ended
    BY DEF Reached
  <2> QED  BY <1>1, <1>4, <2>1, <2>2 DEF Kills, Ended
<1>5. ASSUME NEW r \in Ranks, Reaps(r) \/ Execs(r) \/ Builds(r) \/ Passes(r)
      PROVE  /\ status' = status /\ \A q \in Ranks \ {r} : life'[q] = life[q]
             /\ life[r] # "reaped"
             /\ life'[r] \notin Ended => life[r] \notin Ended
  BY <1>1, <1>5, Types DEF Reaps, Execs, Builds, Passes, Becomes, Ended
<1>6. ASSUME NEW r \in Ranks, Enters(r)
      PROVE  /\ status' = status /\ \A q \in Ranks \ {r} : life'[q] = life[q]
             /\ life[r] \notin Ended
  BY <1>1, <1>6, Types DEF Enters, Becomes, Ended
<1>7. ASSUME NEW r \in Ranks, EndsBy(r)
      PROVE  /\ \A q \in Ranks \ {r} : life'[q] = life[q] /\ status'[q] = status[q]
             /\ life[r] \notin Ended /\ status[r] = 0 /\ life'[r] = "zombie"
  <2>1. /\ life' = [life EXCEPT ![r] = "zombie"] /\ life[r] \notin Ended
        /\ \A q \in Ranks \ {r} : status'[q] = status[q]
    BY <1>1, <1>7, EndsByType
  <2> QED  BY <1>1, <2>1, Types DEF StatusInv
<1>8. CASE UNCHANGED vars
  BY <1>8 DEF vars
<1> QED  BY <1>2, <1>3, <1>4, <1>5, <1>6, <1>7, <1>8, Steps DEF Ended

\* A step of a rank, or a fork: mpiexec stays where it is, nobody is reaped, and the file
\* goes only with a rank that has failed.
Aside ==
  /\ UNCHANGED <<mpiexec, verdict, signals>>
  /\ \A r \in Ranks : life'[r] = "reaped" => life[r] = "reaped"
  /\ file' => file
  /\ ~file' => ~file \/ \E r \in Ranks : status'[r] # 0

\* Every other step is mpiexec's own.
LEMMA MpiexecSteps ==
  ASSUME JobInv, [Next]_vars
  PROVE  \/ Aside \/ InstallsHandlers \/ RunsOut \/ Kills \/ Removes \/ ForkFails \/ Signalled
         \/ \E r \in Ranks : Reaps(r)
<1> USE DEF rankVars
<1>1. TypeOK
  BY DEF JobInv
<1>2. CASE Forks
  <2>1. forked \in Ranks
    BY <1>1, <1>2, Types, SizeAssumption DEF Forks, Ranks
  <2> QED  BY <1>1, <1>2, <2>1, Types DEF Forks, Aside
<1>3. ASSUME NEW r \in Ranks, Execs(r) \/ Builds(r) \/ Passes(r)  PROVE Aside
  BY <1>1, <1>3, Types DEF Execs, Builds, Passes, Becomes, Aside
<1>4. ASSUME NEW r \in Ranks, Enters(r)  PROVE Aside
  BY <1>1, <1>4, Types DEF Enters, Becomes, Aside
<1>5. ASSUME NEW r \in Ranks, EndsBy(r)  PROVE Aside
  <2>1. \A q \in Ranks : life'[q] = "reaped" => life[q] = "reaped"
    BY <1>1, <1>5, EndsByType, Types
  <2>2. (file' => file) /\ (~file' => ~file \/ status'[r] # 0)
    BY <1>1, <1>5, EndsByType
  <2>3. UNCHANGED <<mpiexec, verdict, signals>>
    BY <1>1, <1>5, EndsByType
  <2> QED  BY <2>1, <2>2, <2>3 DEF Aside
<1>6. CASE UNCHANGED vars
  BY <1>6 DEF vars, Aside
<1> QED  BY <1>2, <1>3, <1>4, <1>5, <1>6, Steps

LEMMA StatusStep ==
  ASSUME JobInv, [Next]_vars
  PROVE  StatusInv'
<1> USE DEF rankVars
<1> DEFINE Unfailed == \A r \in Ranks : life[r] = "reaped" => status[r] = 0
           Before   == mpiexec \in {"forking", "waiting", "leaving"} \/ verdict = "success"
           Last     == mpiexec = "leaving" \/ verdict = "success"
<1>1. /\ \A r \in Ranks : status[r] # 0 => life[r] \in Ended
      /\ mpiexec = "gone" <=> verdict # "none"
      /\ Before => Unfailed
      /\ Last => AllReaped
  BY DEF JobInv, StatusInv
<1>2. \A r \in Ranks : status'[r] # 0 => life'[r] \in Ended
  BY <1>1, EndIsFinal
<1>3. AllReaped => AllReaped'
  BY EndIsFinal DEF AllReaped
<1>4. (\A r \in Ranks : life'[r] = "reaped" => life[r] = "reaped") => (Unfailed => Unfailed')
  BY EndIsFinal
<1>5. StatusInv' <=> /\ \A r \in Ranks : status'[r] # 0 => life'[r] \in Ended
                     /\ (mpiexec = "gone" <=> verdict # "none")'
                     /\ Before' => Unfailed'
                     /\ Last' => AllReaped'
  BY DEF StatusInv
<1>6. CASE Aside
  <2>1. UNCHANGED <<mpiexec, verdict>> /\ (Unfailed => Unfailed')
    BY <1>4, <1>6 DEF Aside
  <2> QED  BY <1>1, <1>2, <1>3, <1>5, <2>1
<1>7. CASE InstallsHandlers \/ ForkFails \/ Signalled \/ Removes
  <2>1. (Unfailed => Unfailed') /\ (AllReaped => AllReaped')
    BY <1>3, <1>7 DEF InstallsHandlers, ForkFails, Signalled, Removes
  <2>2. /\ (mpiexec = "gone" <=> verdict # "none")'
        /\ Before' => Before
        /\ Last' => Last
    BY <1>1, <1>7 DEF InstallsHandlers, ForkFails, Signalled, Removes, Stops
  <2> QED  BY <1>1, <1>2, <1>5, <2>1, <2>2
<1>8. CASE RunsOut
  <2>1. /\ mpiexec = "waiting" /\ mpiexec' = "leaving" /\ verdict' = verdict /\ life' = life /\ status' = status
        /\ AllReaped
    BY <1>8 DEF RunsOut
  <2> QED  BY <1>1, <1>2, <1>3, <1>5, <2>1
<1>9. CASE Kills
  <2>1. /\ mpiexec = "killing" /\ mpiexec' = "removing" /\ verdict' = verdict
    BY <1>9 DEF Kills
  <2> QED  BY <1>1, <1>2, <1>5, <2>1
<1>10. ASSUME NEW r \in Ranks, Reaps(r)  PROVE StatusInv'
  <2>1. /\ mpiexec = "waiting" /\ verdict' = verdict /\ status' = status
        /\ mpiexec' = IF status[r] # 0 THEN "killing" ELSE "waiting"
        /\ \A q \in Ranks \ {r} : life'[q] = life[q]
    BY <1>10, Types DEF JobInv, Reaps, Becomes, Failed
  <2>2. CASE status[r] # 0
    BY <1>1, <1>2, <1>5, <2>1, <2>2
  <2>3. CASE status[r] = 0
    <3>1. Unfailed'
      BY <1>1, <2>1, <2>3
    <3> QED  BY <1>1, <1>2, <1>5, <2>1, <2>3, <3>1
  <2> QED  BY <2>2, <2>3
<1> QED  BY <1>6, <1>7, <1>8, <1>9, <1>10, MpiexecSteps

LEMMA FileStep ==
  ASSUME JobInv, [Next]_vars
  PROVE  FileInv'
<1> USE DEF rankVars
<1> DEFINE Hurt == ~Well \/ signals # 0
<1>1. /\ mpiexec \in {"killing", "removing"} => Hurt
      /\ ~file => ~Undisturbed \/ AllReaped
      /\ mpiexec = "gone" /\ file => verdict = "signal"
  BY DEF JobInv, FileInv
<1>2. AllReaped => AllReaped'
  BY EndIsFinal DEF AllReaped
<1>3. ~Well => ~Well'
  BY EndIsFinal DEF Well, Failed
<1>4. mpiexec = "leaving" => AllReaped
  BY DEF JobInv, StatusInv
<1>5. Undisturbed <=> ~Hurt /\ verdict # "fork failed"
  BY DEF Undisturbed
<1>6. Undisturbed' <=> ~Hurt' /\ verdict' # "fork failed"
  BY DEF Undisturbed
<1>7. FileInv' <=> /\ mpiexec' \in {"killing", "removing"} => Hurt'
                   /\ ~file' => ~Undisturbed' \/ AllReaped'
                   /\ mpiexec' = "gone" /\ file' => verdict' = "signal"
  BY DEF FileInv
<1>8. CASE Aside
  <2>1. UNCHANGED <<mpiexec, verdict, signals>> /\ (Hurt => Hurt')
    BY <1>3, <1>8 DEF Aside
  <2>2. ~file' => ~file \/ ~Well'
    BY <1>8 DEF Aside, Well, Failed
  <2>3. file' => file
    BY <1>8 DEF Aside
  <2> QED  BY <1>1, <1>2, <1>3, <1>5, <1>6, <1>7, <2>1, <2>2, <2>3
<1>9. CASE InstallsHandlers \/ RunsOut
  <2>1. UNCHANGED <<verdict, file, signals, status>> /\ mpiexec' \in {"waiting", "leaving"}
    BY <1>9 DEF InstallsHandlers, RunsOut
  <2> QED  BY <1>1, <1>2, <1>3, <1>5, <1>6, <1>7, <2>1
<1>10. CASE Kills
  <2>1. UNCHANGED <<verdict, file, signals>> /\ mpiexec = "killing" /\ mpiexec' = "removing"
    BY <1>10 DEF Kills
  <2> QED  BY <1>1, <1>2, <1>3, <1>5, <1>6, <1>7, <2>1
<1>11. CASE Removes
  <2>1. /\ mpiexec \in {"removing", "leaving"} /\ mpiexec' = "gone"
        /\ file' = FALSE /\ signals' = signals
    BY <1>11 DEF Removes, Stops
  <2>2. Hurt' \/ AllReaped'
    BY <1>1, <1>2, <1>3, <1>4, <2>1
  <2> QED  BY <1>6, <1>7, <2>1, <2>2
<1>12. CASE ForkFails
  <2>1. mpiexec' = "gone" /\ file' = FALSE /\ verdict' = "fork failed"
    BY <1>12 DEF ForkFails, Stops
  <2> QED  BY <1>6, <1>7, <2>1
<1>13. CASE Signalled
  <2>1. /\ signals' = signals + 1 /\ signals \in 0..MaxSignals /\ file' = file
        /\ \/ mpiexec' = "gone" /\ verdict' = "signal"
           \/ mpiexec' = "killing"
    BY <1>13, Types DEF JobInv, Signalled, Stops
  <2>2. signals' # 0
    BY <2>1, BoundAssumption
  <2> QED  BY <1>6, <1>7, <2>1, <2>2
<1>14. ASSUME NEW r \in Ranks, Reaps(r)  PROVE FileInv'
  <2>1. /\ mpiexec = "waiting" /\ UNCHANGED <<verdict, file, signals, status>>
        /\ mpiexec' = IF Failed(r) THEN "killing" ELSE "waiting"
    BY <1>14 DEF Reaps
  <2>2. Failed(r) => ~Well'
    BY <2>1 DEF Well, Failed
  <2> QED  BY <1>1, <1>2, <1>3, <1>5, <1>6, <1>7, <2>1, <2>2
<1> QED  BY <1>8, <1>9, <1>10, <1>11, <1>12, <1>13, <1>14, MpiexecSteps

-----------------------------------------------------------------------------
(* The theorems                                                            *)

LEMMA JobInvariant == Spec => []JobInv
<1>1. JobInv /\ [Next]_vars => JobInv'
  <2> SUFFICES ASSUME JobInv, [Next]_vars PROVE JobInv'
    OBVIOUS
  <2> QED  BY JobTypeStep, ForkOrderStep, BarrierStep, StatusStep, FileStep DEF JobInv
<1> QED  BY <1>1, JobInit, PTL DEF Spec

\* Every variable of a job keeps its type: in particular the barrier is never entered by
\* more processes than it was made for, and no rank waits more often than MPI_Init, its
\* MPI_Barriers and MPI_Finalize do.
THEOREM JobTypeCorrect == Spec => []TypeOK
<1>1. JobInv => TypeOK
  BY DEF JobInv
<1> QED  BY <1>1, JobInvariant, PTL

\* MPI_Init, MPI_Barrier and MPI_Finalize return in no rank before every rank has come to
\* the barrier, whoever dies in it (barrier->wait() in umpi.cc).
THEOREM BarrierTogetherCorrect == Spec => []BarrierTogether
<1>1. JobInv => BarrierTogether
  BY BarrierInvTogether DEF JobInv
<1> QED  BY <1>1, JobInvariant, PTL

\* mpiexec returns 0 only when every rank was reaped, with status 0 (the wait loop and
\* cleanup() of mpiexec.cc).
THEOREM SuccessIsRealCorrect == Spec => []SuccessIsReal
<1>1. JobInv => SuccessIsReal
  BY DEF JobInv, StatusInv, SuccessIsReal, AllReaped
<1> QED  BY <1>1, JobInvariant, PTL

\* The file of the shared map is there for every rank that has yet to open it, unless the
\* job is failing, and is removed before mpiexec returns (shared_memory_object::remove in
\* mpiexec.cc and open_only in MPI_Init).
THEOREM FileWhileNeededCorrect == Spec => []FileWhileNeeded
<1>1. JobInv => FileWhileNeeded
  <2> SUFFICES ASSUME JobInv PROVE FileWhileNeeded
    OBVIOUS
  <2>1. ~file => ~Undisturbed \/ AllReaped
    BY DEF JobInv, FileInv
  <2>2. mpiexec = "gone" /\ file => verdict = "signal"
    BY DEF JobInv, FileInv
  <2> QED  BY <2>1, <2>2 DEF FileWhileNeeded, AllReaped
<1> QED  BY <1>1, JobInvariant, PTL

=============================================================================
