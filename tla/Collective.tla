------------------------------ MODULE Collective ------------------------------
(***************************************************************************)
(* The collective operations of umpi: class collect and the ring of slots  *)
(* in struct shared.  The processes number their collective calls; call t  *)
(* of every process goes through slot t % NSlots, whose box holds the      *)
(* cookies of those that have called and still wait for data.              *)
(*                                                                         *)
(*   bcast      (and scatter)  a root gives data to every other process    *)
(*   gather     a root takes data from every other process                 *)
(*   gatherv    the same, at displacements the root leaves in the slot     *)
(*   allgather  the last to call collects from the first what the others   *)
(*              have written there, and hands it to everybody              *)
(*   allreduce  each process adds its data to what the one before it has   *)
(*              got, and the last one hands the result to everybody        *)
(*   inplace    allreduce with MPI_IN_PLACE, which adds up in the slot     *)
(*   scan       (and exscan)  the last to call goes through the processes  *)
(*              by rank, with the partial result in the slot               *)
(*                                                                         *)
(* In a rooted operation those that come before the root leave a cookie,   *)
(* which the root serves; the root leaves a cookie that those who come     *)
(* later share.  An action is one critical section of the slot's mutex,    *)
(* with the sections of a process's mutex nested in it, or one critical    *)
(* section of a process's mutex outside of that, with the private work     *)
(* before it.  How a process sleeps until its cookie is no longer busy is  *)
(* the subject of PointToPoint; here it just blocks.                       *)
(*                                                                         *)
(* Data is the set of the processes whose contribution it is made of.      *)
(* Where it lies in a buffer is the subject of Layouts; every process      *)
(* contributes one element, so that the root of a gather reads it to its   *)
(* place.                                                                  *)
(***************************************************************************)
EXTENDS Integers, FiniteSets, SequencesExt

CONSTANTS
  Procs,         \* the ranks of MPI_COMM_WORLD
  Cookies,       \* the cookie-sized blocks of the memory pool
  NSlots,        \* UMPI_OUTSTANDING_COLLECTIVE_OPERATIONS
  Rank,          \* process -> its rank
  Kinds,         \* the operations the program uses
  MaxCalls,      \* bound on the number of collective calls of a process
  Programs,      \* the sequences of operations a job may make
  Trigger,       \* UMPI_OUTSTANDING_REQUESTS_PER_PROCESS
  AtomicCounts,  \* whether ++ and -- of used_ in two processes can not overlap
  Outcomes,      \* how process_vm_readv and process_vm_writev may end
  Nobody, NoCookie

MPI_SUCCESS == 0
MPI_FAIL    == 1

ASSUME ProcsAssumption   == IsFiniteSet(Procs) /\ Cardinality(Procs) > 1 /\ Nobody \notin Procs
ASSUME CookiesAssumption == IsFiniteSet(Cookies) /\ NoCookie \notin Cookies
ASSUME RankAssumption    ==
  /\ Rank \in [Procs -> 0..(Cardinality(Procs) - 1)]
  /\ \A p, q \in Procs : Rank[p] = Rank[q] => p = q
ASSUME KindsAssumption   ==
  Kinds \subseteq {"bcast", "gather", "gatherv", "allgather", "allreduce", "inplace", "scan", "exscan"}
ASSUME BoundsAssumption  == NSlots \in Nat \ {0} /\ MaxCalls \in Nat /\ Trigger \in Nat
ASSUME OtherAssumption   == AtomicCounts \in BOOLEAN /\ Outcomes \subseteq {MPI_SUCCESS, MPI_FAIL}

VARIABLES
  program,        \* call number -> the operation, the same for every process
  slots,          \* the ring: ticket_, joined_, box_, mutex_, sendbuf_, recvbuf_ and
                  \* the call whose root has filled displs_
  pending, free,  \* process -> set of cookies
  cookie,         \* cookie  -> its owner, src, err and the call its buffer belongs to
  used,           \* cookie  -> cookie::used_
  busy,           \* cookie  -> cookie::busy_
  ticket,         \* process -> number of its next collective call
  pc,             \* process -> where it is in the library
  call,           \* process -> the call it is in
  at,             \* process -> the cookie it works on
  seen,           \* process -> the value of used_ it has loaded
  todo,           \* process -> the cookies it has taken out of the slot to serve
  reqs,           \* process -> its request variables, one for each call
  exited,         \* has the job been brought down
  buf,            \* process -> call -> whose data its buffer holds, read by no guard
  lost            \* cookie  -> references whose request variable went out of scope,
                  \* read by no action

lists   == <<pending, free>>
cookies == <<cookie, used, busy>>
calls   == <<pc, call, at, seen, todo>>
vars    == <<program, slots, lists, cookies, ticket, calls, reqs, exited, buf, lost>>

-----------------------------------------------------------------------------
Calls  == 0..(MaxCalls - 1)
Rooted == {"bcast", "gather", "gatherv"}
Scans  == {"scan", "exscan"}

Operations == [kind: Kinds \cap Rooted, root: Procs] \cup [kind: Kinds \ Rooted, root: {Nobody}]

ASSUME ProgramsAssumption == Programs \subseteq [Calls -> Operations]

N == Cardinality(Procs)

\* The data of a set of processes is the set. Adding the same data twice spoils it.
Data    == SUBSET (Procs \cup {Nobody})
Spoilt  == {Nobody}

Plus(a, b) == IF a \cap b = {} THEN a \cup b ELSE Spoilt

Init ==
  /\ program \in Programs
  /\ slots   = [s \in 0..(NSlots - 1) |->
                  [ticket |-> 0, joined |-> 0, box |-> <<>>, locked |-> FALSE, displs |-> 0,
                   sendbuf |-> {}, recvbuf |-> {}]]
  /\ pending = [p \in Procs |-> {}]
  /\ free    = [p \in Procs |-> {}]
  /\ cookie  = [c \in Cookies |-> [owner |-> Nobody, src |-> Nobody, err |-> MPI_SUCCESS, call |-> 0]]
  /\ used    = [c \in Cookies |-> 0]
  /\ busy    = [c \in Cookies |-> 0]
  /\ ticket  = [p \in Procs |-> 0]
  /\ pc      = [p \in Procs |-> "idle"]
  /\ call    = [p \in Procs |-> 0]
  /\ at      = [p \in Procs |-> NoCookie]
  /\ seen    = [p \in Procs |-> 0]
  /\ todo    = [p \in Procs |-> <<>>]
  /\ reqs    = [p \in Procs |-> [t \in Calls |-> NoCookie]]
  /\ exited  = FALSE
  /\ buf     = [p \in Procs |-> [t \in Calls |-> {}]]
  /\ lost    = [c \in Cookies |-> 0]

-----------------------------------------------------------------------------
(* shared::get_current_slot                                                *)

Turn(p) == ticket[p] % NSlots
Slot(p) == slots[Turn(p)]
Box(p)  == Slot(p).box
Op(p)   == program[ticket[p]]

\* Slips of the code that the properties must notice stand before the definition
\* they would replace; no action uses them.
FitsAlways(p) == TRUE

\* The slot is free, or other processes have opened it for the same call.
Fits(p) == Box(p) = <<>> \/ Slot(p).ticket = ticket[p]

JoinedByStale(p) == Slot(p).joined + 1

\* joined_ once p has been counted.
JoinedBy(p) == IF Box(p) = <<>> THEN 1 ELSE Slot(p).joined + 1

ComesFirst(p) == JoinedBy(p) = 1
ComesLast(p)  == JoinedBy(p) = N

\* p's program makes its next call and p gets the slot's mutex.
Calling(p) == pc[p] = "idle" /\ ticket[p] \in Calls /\ ~Slot(p).locked

Enters(p) == Calling(p) /\ Fits(p)

\* p takes its turn and leaves box in the slot, with the mutex locked or not.
Turned(p, box, locked) ==
  [Slot(p) EXCEPT !.ticket = ticket[p], !.joined = JoinedBy(p), !.box = box, !.locked = locked]

TakesTurnWith(p, slot) ==
  /\ slots'  = [slots EXCEPT ![Turn(p)] = slot]
  /\ ticket' = [ticket EXCEPT ![p] = @ + 1]

TakesTurn(p, box, locked) ==
  TakesTurnWith(p, [Turned(p, box, locked) EXCEPT
    !.displs = IF Op(p).kind = "gatherv" /\ Op(p).root = p THEN ticket[p] ELSE @])

-----------------------------------------------------------------------------
(* Cookies                                                                 *)

\* The mutex of process o is free: nobody is inside process::finalize for it.
Unlocked(o) == \A q \in Procs : pc[q] = "leave" => cookie[at[q]].owner # o

Placed(c) == \/ \E p \in Procs : c \in pending[p] \/ c \in free[p] \/ c \in ToSet(todo[p])
             \/ \E s \in DOMAIN slots : c \in ToSet(slots[s].box)

\* process::create_request, from p's own free list or from the pool.
Available(p) == IF free[p] # {} THEN free[p] ELSE {c \in Cookies : ~Placed(c)}

\* p creates a cookie that waits for num transfers; waits is busy_ of the others.
Creates(p, c, num, waits) ==
  /\ Unlocked(p)
  /\ c \in Available(p)
  /\ free'   = [free EXCEPT ![p] = @ \ {c}]
  /\ cookie' = [cookie EXCEPT ![c] = [owner |-> p, src |-> p, err |-> MPI_SUCCESS, call |-> ticket[p]]]
  /\ used'   = [used EXCEPT ![c] = 1]
  /\ busy'   = [waits EXCEPT ![c] = num]

Holds(p, t, c) == reqs' = [reqs EXCEPT ![p][t] = c]

\* process::move_to_pending
MovesToPending(c) ==
  /\ Unlocked(cookie[c].owner)
  /\ pending' = [pending EXCEPT ![cookie[c].owner] = @ \cup {c}]

\* p brings its own data into the call.
Contributes(p) ==
  buf' = [buf EXCEPT ![p][ticket[p]] = IF Op(p).kind = "bcast" /\ Op(p).root # p THEN {} ELSE {p}]

Goes(p, where, t, c, rest) ==
  /\ pc'   = [pc EXCEPT ![p] = where]
  /\ call' = [call EXCEPT ![p] = t]
  /\ at'   = [at EXCEPT ![p] = c]
  /\ todo' = [todo EXCEPT ![p] = rest]

\* The call returns and its local variables go out of scope.
Returns(p) == Goes(p, "idle", 0, NoCookie, <<>>)

\* p goes on to serve the cookies in rest, one after the other, or returns.
Serves(p, t, rest) ==
  IF rest = <<>> THEN Returns(p) ELSE Goes(p, "serve", t, NoCookie, rest)

\* p takes all cookies out of the slot to serve them, and its request borrows c.
Borrows(p, c) ==
  /\ used' = [used EXCEPT ![c] = @ + 1]
  /\ Holds(p, ticket[p], c)
  /\ Serves(p, ticket[p], Box(p))

-----------------------------------------------------------------------------
(* MPI_Ibcast, MPI_Iscatter, MPI_Igather and MPI_Igatherv                  *)

\* The root has left its cookie in the slot.
RootWaits(p) == Box(p) # <<>> /\ cookie[Head(Box(p))].src = Op(p).root

IsLeaf(p) == Op(p).kind \in Rooted /\ Op(p).root # p
IsRoot(p) == Op(p).kind \in Rooted /\ Op(p).root = p

\* A process other than the root finds the root's cookie and joins it: it loads
\* used_ here, and stores it in JoinStores, in which it releases the slot.
LeafJoins(p) ==
  /\ Enters(p) /\ IsLeaf(p) /\ RootWaits(p)
  /\ TakesTurn(p, Box(p), TRUE)
  /\ Goes(p, "join", ticket[p], Head(Box(p)), <<>>)
  /\ seen' = [seen EXCEPT ![p] = used[Head(Box(p))]]
  /\ Contributes(p)
  /\ UNCHANGED <<program, lists, cookies, reqs, exited, lost>>

UpdatedLoaded(p, change) == used' = [used EXCEPT ![at[p]] = seen[p] + change]

\* The value of used_ that p stores: with other processes' updates in between lost
\* unless counts are atomic.
Updated(p, change) ==
  used' = [used EXCEPT ![at[p]] = (IF AtomicCounts THEN @ ELSE seen[p]) + change]

\* The last process to join takes the root's cookie out of the slot.
Removed(box) == Tail(box)

JoinStores(p) ==
  LET s == call[p] % NSlots
      c == at[p]
  IN
  /\ pc[p] = "join"
  /\ Updated(p, 1)
  /\ IF slots[s].joined = N
     THEN MovesToPending(c) /\ slots' = [slots EXCEPT ![s] = [@ EXCEPT !.box = Removed(slots[s].box), !.locked = FALSE]]
     ELSE slots' = [slots EXCEPT ![s] = [@ EXCEPT !.locked = FALSE]] /\ UNCHANGED pending
  /\ Holds(p, call[p], c)
  /\ pc'   = [pc EXCEPT ![p] = "deliver"]
  /\ seen' = [seen EXCEPT ![p] = 0]
  /\ UNCHANGED <<program, free, cookie, busy, ticket, call, at, todo, exited, buf, lost>>

\* A process other than the root comes before the root and leaves its cookie.
LeafPosts(p) ==
  /\ Enters(p) /\ IsLeaf(p) /\ ~RootWaits(p)
  /\ \E c \in Cookies :
       /\ Creates(p, c, 1, busy)
       /\ TakesTurn(p, Append(Box(p), c), FALSE)
       /\ Holds(p, ticket[p], c)
  /\ Contributes(p)
  /\ UNCHANGED <<program, pending, calls, exited, lost>>

RemainingAndRoot(p) == N - JoinedBy(p) + 1

\* The transfers the root's cookie waits for: one by each process still to come.
Remaining(p) == N - JoinedBy(p)

\* The root takes all cookies out of the slot to serve them, and leaves its own for
\* those still to come.
RootPosts(p) ==
  /\ Enters(p) /\ IsRoot(p) /\ ~ComesLast(p)
  /\ \E c \in Cookies :
       /\ Creates(p, c, Remaining(p), busy)
       /\ TakesTurn(p, <<c>>, FALSE)
       /\ Holds(p, ticket[p], c)
  /\ Serves(p, ticket[p], Box(p))
  /\ Contributes(p)
  /\ UNCHANGED <<program, pending, seen, exited, lost>>

\* The root comes last. Its request borrows the last cookie it serves.
RootLast(p) ==
  /\ Enters(p) /\ IsRoot(p) /\ ComesLast(p)
  /\ Borrows(p, Last(Box(p)))
  /\ TakesTurn(p, <<>>, FALSE)
  /\ Contributes(p)
  /\ UNCHANGED <<program, lists, cookie, busy, seen, exited, lost>>

-----------------------------------------------------------------------------
(* MPI_Iallgather and MPI_Iallreduce                                       *)

IsExchange(p) == Op(p).kind \in {"allgather", "allreduce"}

Notified(c) == [busy EXCEPT ![c] = @ - 1]

\* The first process of an allgather waits for everybody; in an allreduce each one
\* waits for the next to read from it and for the last to write to it.
ExchangeFirst(p) ==
  /\ Enters(p) /\ IsExchange(p) /\ ComesFirst(p)
  /\ \E c \in Cookies :
       /\ Creates(p, c, IF Op(p).kind = "allgather" THEN N ELSE 2, busy)
       /\ TakesTurn(p, <<c>>, FALSE)
       /\ Holds(p, ticket[p], c)
  /\ Contributes(p)
  /\ UNCHANGED <<program, pending, calls, exited, lost>>

\* The cookie of the process that p exchanges data with.
Partner(p) == IF Op(p).kind = "allgather" THEN Head(Box(p)) ELSE Last(Box(p))

ComesLater(p) ==
  /\ Enters(p) /\ IsExchange(p) /\ ~ComesFirst(p)
  /\ Unlocked(cookie[Partner(p)].owner)

\* Still under the slot's mutex, p writes its data to the first one's buffer, or
\* adds it to what it reads from the one before, and notifies that process.
Exchanges(p) ==
  LET o == cookie[Partner(p)].owner
      t == cookie[Partner(p)].call
  IN
  /\ MPI_SUCCESS \in Outcomes
  /\ ComesLater(p)
  /\ buf' = IF Op(p).kind = "allgather"
            THEN [[buf EXCEPT ![p][ticket[p]] = {p}] EXCEPT ![o][t] = @ \cup {p}]
            ELSE [buf EXCEPT ![p][ticket[p]] = Plus({p}, buf[o][t])]

ExchangeMiddle(p) ==
  /\ Exchanges(p) /\ ~ComesLast(p)
  /\ \E c \in Cookies :
       /\ Creates(p, c, IF Op(p).kind = "allgather" THEN 1 ELSE 2, Notified(Partner(p)))
       /\ TakesTurn(p, Append(Box(p), c), FALSE)
       /\ Holds(p, ticket[p], c)
  /\ UNCHANGED <<program, pending, calls, exited, lost>>

ExchangeLast(p) ==
  /\ Exchanges(p) /\ ComesLast(p)
  /\ Borrows(p, Partner(p))
  /\ busy' = Notified(Partner(p))
  /\ TakesTurn(p, <<>>, FALSE)
  /\ UNCHANGED <<program, lists, cookie, seen, exited, lost>>

\* The transfer fails: the call returns the error with the slot's mutex locked.
ExchangeFails(p) ==
  /\ MPI_FAIL \in Outcomes
  /\ ComesLater(p)
  /\ cookie' = [cookie EXCEPT ![Partner(p)].err = MPI_FAIL]
  /\ busy'   = Notified(Partner(p))
  /\ TakesTurn(p, Box(p), TRUE)
  /\ Contributes(p)
  /\ UNCHANGED <<program, lists, used, calls, reqs, exited, lost>>

-----------------------------------------------------------------------------
(* MPI_Iallreduce with MPI_IN_PLACE                                        *)

\* The slot's sendbuf_ holds what the processes before p have added up.
Added(p) == IF ComesFirst(p) THEN {p} ELSE Plus(Slot(p).sendbuf, {p})

InplacePosts(p) ==
  /\ Enters(p) /\ Op(p).kind = "inplace" /\ ~ComesLast(p)
  /\ \E c \in Cookies :
       /\ Creates(p, c, 1, busy)
       /\ TakesTurnWith(p, [Turned(p, Append(Box(p), c), FALSE) EXCEPT
            !.sendbuf = Added(p), !.recvbuf = IF ComesFirst(p) THEN @ ELSE Added(p)])
       /\ Holds(p, ticket[p], c)
  /\ Contributes(p)
  /\ UNCHANGED <<program, pending, calls, exited, lost>>

InplaceLast(p) ==
  /\ Enters(p) /\ Op(p).kind = "inplace" /\ ComesLast(p)
  /\ Borrows(p, Last(Box(p)))
  /\ TakesTurnWith(p, [Turned(p, <<>>, FALSE) EXCEPT !.recvbuf = Slot(p).sendbuf])
  /\ buf' = [buf EXCEPT ![p][ticket[p]] = Added(p)]
  /\ UNCHANGED <<program, lists, cookie, busy, seen, exited, lost>>

-----------------------------------------------------------------------------
(* MPI_Iscan and MPI_Iexscan                                               *)

IsScan(p) == Op(p).kind \in Scans

InOrderOfArrival(box, fields) == box

\* std::list::sort; the ranks are all different.
InOrderOfRank(box, fields) ==
  CHOOSE r \in [DOMAIN box -> ToSet(box)] :
    \A i, j \in DOMAIN box : i < j => Rank[fields[r[i]].src] < Rank[fields[r[j]].src]

\* The cookie of a process waits for a read and a write, that of rank 0 for a read.
\* The last process serves all cookies, its own among them.
ScanPosts(p) ==
  /\ Enters(p) /\ IsScan(p)
  /\ \E c \in Cookies :
       LET box == Append(Box(p), c) IN
       /\ Creates(p, c, IF Rank[p] = 0 THEN 1 ELSE 2, busy)
       /\ Holds(p, ticket[p], c)
       /\ TakesTurn(p, IF ComesLast(p) THEN <<>> ELSE box, FALSE)
       /\ IF ComesLast(p) THEN Serves(p, ticket[p], InOrderOfRank(box, cookie')) ELSE UNCHANGED <<pc, call, at, todo>>
  /\ Contributes(p)
  /\ UNCHANGED <<program, pending, seen, exited, lost>>

\* The buffer is longer than the slot's: the first to call returns with the slot's
\* mutex locked.
ScanRejects(p) ==
  /\ MPI_FAIL \in Outcomes
  /\ Enters(p) /\ IsScan(p) /\ ComesFirst(p)
  /\ TakesTurn(p, <<>>, TRUE)
  /\ UNCHANGED <<program, lists, cookies, calls, reqs, exited, buf, lost>>

-----------------------------------------------------------------------------
(* A slot that another call still occupies, or an empty pool: the process  *)
(* exits and mpiexec terminates the others.                                *)

NeedsCookie(p) == IF IsLeaf(p) THEN ~RootWaits(p) ELSE IsScan(p) \/ ~ComesLast(p)

Exits(p) ==
  /\ Calling(p)
  /\ Fits(p) => NeedsCookie(p) /\ Available(p) = {}
  /\ exited' = TRUE
  /\ UNCHANGED <<program, slots, lists, cookies, ticket, calls, reqs, buf, lost>>

-----------------------------------------------------------------------------
(* Moving the data                                                         *)

\* The next cookie to serve becomes pending with its owner.
Serve(p) ==
  /\ pc[p] = "serve"
  /\ MovesToPending(Head(todo[p]))
  /\ Goes(p, "deliver", call[p], Head(todo[p]), Tail(todo[p]))
  /\ UNCHANGED <<program, slots, free, cookies, ticket, seen, reqs, exited, buf, lost>>

\* p reads from the owner's buffer; otherwise it writes to it.
Reads(p) ==
  LET op == program[call[p]] IN
  \/ op.kind = "bcast" /\ op.root # p
  \/ op.kind \in {"gather", "gatherv"} /\ op.root = p
  \/ op.kind = "allgather" /\ reqs[p][call[p]] = at[p]

\* Whether a write goes to the right place: in gatherv those that share the root's
\* cookie look their displacement up in the slot, which they have left.
Aimed(p) ==
  LET op == program[call[p]] IN
  op.kind = "gatherv" => slots[call[p] % NSlots].displs = call[p]

\* The result of a reduction replaces what was there; other data has its own place.
Moved(p) ==
  LET o    == cookie[at[p]].owner
      t    == cookie[at[p]].call
      mine == buf[p][call[p]]
  IN
  IF Reads(p) THEN [buf EXCEPT ![p][call[p]] = @ \cup buf[o][t]]
  ELSE IF program[call[p]].kind \in {"allreduce", "inplace"} THEN [buf EXCEPT ![o][t] = mine]
  ELSE IF Aimed(p) THEN [buf EXCEPT ![o][t] = @ \cup mine]
  ELSE buf

\* process::notify_done, under the owner's mutex.
Notifies(p) == Unlocked(cookie[at[p]].owner) /\ busy' = Notified(at[p])

InScan(p) == program[call[p]].kind \in Scans

\* cookie::read_from_owner or write_to_owner.
Deliver(p) ==
  /\ pc[p] = "deliver" /\ ~InScan(p) /\ MPI_SUCCESS \in Outcomes
  /\ Notifies(p)
  /\ buf' = Moved(p)
  /\ Serves(p, call[p], todo[p])
  /\ UNCHANGED <<program, slots, lists, cookie, used, ticket, seen, reqs, exited, lost>>

\* What is left of p's todo list after an error is deallocated. A blocking call
\* returns the error without waiting for its request.
GivesUp(p) ==
  /\ Returns(p)
  /\ \/ UNCHANGED <<reqs, lost>>
     \/ /\ Holds(p, call[p], NoCookie)
        /\ lost' = [lost EXCEPT ![reqs[p][call[p]]] = @ + 1]

\* Only the last process of an allgather ignores the error of its read.
DeliverFails(p) ==
  /\ pc[p] \in {"deliver", "scan"} /\ MPI_FAIL \in Outcomes
  /\ Notifies(p)
  /\ cookie' = [cookie EXCEPT ![at[p]].err = MPI_FAIL]
  /\ IF program[call[p]].kind = "allgather" /\ Reads(p)
     THEN Serves(p, call[p], todo[p]) /\ UNCHANGED <<reqs, lost>>
     ELSE GivesUp(p)
  /\ UNCHANGED <<program, slots, lists, used, ticket, seen, exited, buf>>

\* The last process of a scan reads the data of rank 0 into the slot's sendbuf_,
\* where it adds up, and that of every other rank into recvbuf_.
ScanReads(p) ==
  LET s    == call[p] % NSlots
      c    == at[p]
      data == buf[cookie[c].owner][cookie[c].call]
  IN
  /\ pc[p] = "deliver" /\ InScan(p) /\ MPI_SUCCESS \in Outcomes
  /\ Notifies(p)
  /\ IF Rank[cookie[c].src] = 0
     THEN slots' = [slots EXCEPT ![s].sendbuf = data] /\ Serves(p, call[p], todo[p])
     ELSE slots' = [slots EXCEPT ![s].recvbuf = data] /\ Goes(p, "scan", call[p], c, todo[p])
  /\ UNCHANGED <<program, lists, cookie, used, ticket, seen, reqs, exited, buf, lost>>

\* An exscan leaves out what the process itself has contributed.
Result(kind, before, with) == IF kind = "scan" THEN with ELSE before

ScanWrites(p) ==
  LET s    == call[p] % NSlots
      c    == at[p]
      with == Plus(slots[s].sendbuf, slots[s].recvbuf)
  IN
  /\ pc[p] = "scan" /\ MPI_SUCCESS \in Outcomes
  /\ Notifies(p)
  /\ buf'   = [buf EXCEPT ![cookie[c].owner][cookie[c].call] =
                 Result(program[call[p]].kind, slots[s].sendbuf, with)]
  /\ slots' = [slots EXCEPT ![s].sendbuf = IF program[call[p]].kind = "exscan" /\ todo[p] = <<>> THEN @ ELSE with]
  /\ Serves(p, call[p], todo[p])
  /\ UNCHANGED <<program, lists, cookie, used, ticket, seen, reqs, exited, lost>>

-----------------------------------------------------------------------------
(* MPI_Wait                                                                *)

\* p waits for call t.
Wait(p, t) ==
  /\ pc[p] = "idle" /\ reqs[p][t] # NoCookie
  /\ Goes(p, "wait", t, reqs[p][t], <<>>)
  /\ UNCHANGED <<program, slots, lists, cookies, ticket, seen, reqs, exited, buf, lost>>

MayLeaveAlways(p) == TRUE

\* An owner sleeps until its cookie is no longer busy.
MayLeave(p) == cookie[at[p]].owner = p => busy[at[p]] = 0

\* p enters process::finalize of the owner: it loads used_ here and stores it in Leave.
Leaves(p) ==
  LET c == at[p] IN
  /\ pc[p] = "wait"
  /\ MayLeave(p)
  /\ Unlocked(cookie[c].owner)
  /\ pc'   = [pc EXCEPT ![p] = "leave"]
  /\ seen' = [seen EXCEPT ![p] = used[c]]
  /\ UNCHANGED <<program, slots, lists, cookies, ticket, call, at, todo, reqs, exited, buf, lost>>

UnusedOrDone(o) == {x \in pending[o] : busy[x] = 0}

Unused(o) == {x \in pending[o] : used'[x] = 0}

\* The owner's pending cookies nobody uses are recycled, its surplus of free ones
\* goes back to the pool.
Leave(p) ==
  LET o    == cookie[at[p]].owner
      kept == free[o] \cup Unused(o)
  IN
  /\ pc[p] = "leave"
  /\ Updated(p, -1)
  /\ pending' = [pending EXCEPT ![o] = @ \ Unused(o)]
  /\ \E K \in SUBSET kept :
       /\ IF Cardinality(kept) > Trigger THEN Cardinality(K) = Trigger \div 2 ELSE K = kept
       /\ free' = [free EXCEPT ![o] = K]
  /\ Holds(p, call[p], NoCookie)
  /\ Returns(p)
  /\ seen' = [seen EXCEPT ![p] = 0]
  /\ UNCHANGED <<program, slots, cookie, busy, ticket, exited, buf, lost>>

-----------------------------------------------------------------------------
Enter(p) ==
  \/ LeafJoins(p) \/ LeafPosts(p) \/ RootPosts(p) \/ RootLast(p)
  \/ ExchangeFirst(p) \/ ExchangeMiddle(p) \/ ExchangeLast(p) \/ ExchangeFails(p)
  \/ InplacePosts(p) \/ InplaceLast(p)
  \/ ScanPosts(p) \/ ScanRejects(p)
  \/ Exits(p)

Step(p) ==
  \/ Enter(p) \/ JoinStores(p) \/ Serve(p) \/ Deliver(p) \/ DeliverFails(p)
  \/ ScanReads(p) \/ ScanWrites(p)
  \/ \E t \in Calls : Wait(p, t)
  \/ Leaves(p) \/ Leave(p)

Next == ~exited /\ \E p \in Procs : Step(p)

Spec == Init /\ [][Next]_vars

\* Every process makes all its calls and waits for each of them, in some order.
FairSpec == Spec /\ \A p \in Procs : WF_vars(~exited /\ Step(p))

-----------------------------------------------------------------------------
(* Properties                                                              *)

CookieRecords ==
  [owner: Procs \cup {Nobody}, src: Procs \cup {Nobody}, err: {MPI_SUCCESS, MPI_FAIL}, call: Nat]

SlotRecords ==
  [ticket: Nat, joined: 0..N, box: Seq(Cookies), locked: BOOLEAN, displs: Nat, sendbuf: Data, recvbuf: Data]

TypeOK ==
  /\ program \in [Calls -> Operations]
  /\ slots   \in [0..(NSlots - 1) -> SlotRecords]
  /\ pending \in [Procs -> SUBSET Cookies]
  /\ free    \in [Procs -> SUBSET Cookies]
  /\ cookie  \in [Cookies -> CookieRecords]
  /\ used    \in [Cookies -> Int]
  /\ busy    \in [Cookies -> Int]
  /\ ticket  \in [Procs -> 0..MaxCalls]
  /\ pc      \in [Procs -> {"idle", "join", "serve", "deliver", "scan", "wait", "leave"}]
  /\ call    \in [Procs -> Nat]
  /\ at      \in [Procs -> Cookies \cup {NoCookie}]
  /\ seen    \in [Procs -> Int]
  /\ todo    \in [Procs -> Seq(Cookies)]
  /\ reqs    \in [Procs -> [Calls -> Cookies \cup {NoCookie}]]
  /\ exited  \in BOOLEAN
  /\ buf     \in [Procs -> [Calls -> Data]]
  /\ lost    \in [Cookies -> Nat]

\* What must have happened to the buffers when p has completed call t.
Required(p, t) ==
  LET op == program[t] IN
  CASE op.kind = "bcast" ->
         IF op.root = p THEN \A q \in Procs : p \in buf[q][t] ELSE op.root \in buf[p][t]
    [] op.kind \in {"gather", "gatherv"} ->
         IF op.root = p THEN buf[p][t] = Procs ELSE p \in buf[op.root][t]
    [] op.kind \in {"allgather", "allreduce", "inplace"} -> buf[p][t] = Procs
    [] op.kind = "scan" -> buf[p][t] = {q \in Procs : Rank[q] <= Rank[p]}
    [] op.kind = "exscan" -> Rank[p] > 0 => buf[p][t] = {q \in Procs : Rank[q] < Rank[p]}

\* Whatever the order in which the processes come, a process that completes a call
\* without an error has all the data it is to get, and those it gives data to have
\* it.
Completed ==
  \A p \in Procs : pc[p] = "leave" /\ cookie[at[p]].err = MPI_SUCCESS => Required(p, call[p])

\* The processes that still move data for the owner of cookie c.
Movers(c) == {p \in Procs : pc[p] \in {"join", "deliver", "scan"} /\ at[p] = c}

\* The transfers in a scan of a cookie that has not been served yet.
ScanNeeds(c) == IF Rank[cookie[c].src] = 0 THEN 1 ELSE 2

\* The transfers a cookie in the box of slot s waits for. The process after the last
\* one of an allreduce reads from it.
InSlot(s, c) ==
  LET slot   == slots[s]
      op     == program[slot.ticket]
      tocome == N - slot.joined
  IN
  IF op.kind \in Scans THEN ScanNeeds(c)
  ELSE IF op.kind = "allreduce" THEN IF c = Last(slot.box) THEN 2 + Len(slot.box) - slot.joined ELSE 1
  ELSE IF c # Head(slot.box) THEN 1
  ELSE IF op.kind = "allgather" THEN tocome + 1
  ELSE IF op.kind \in Rooted /\ cookie[c].src = op.root THEN tocome + Cardinality(Movers(c))
  ELSE 1

InTodo(c) == IF program[cookie[c].call].kind \in Scans THEN ScanNeeds(c) ELSE 1

\* The read from a rank above 0 is followed by a write.
MovesTwice(p) == pc[p] = "deliver" /\ InScan(p) /\ Rank[cookie[at[p]].src] > 0

\* A scan has failed between the two transfers of c; the owner waits for ever.
Forsaken(c) == /\ program[cookie[c].call].kind \in Scans /\ cookie[c].err # MPI_SUCCESS
               /\ Movers(c) = {} /\ busy[c] = 1

\* busy_ is the number of transfers still to come, from those that are in the middle
\* of one, those that have to serve the cookie, and those that have not called yet.
BusyExact ==
  /\ \A s \in DOMAIN slots : \A c \in ToSet(slots[s].box) : busy[c] = InSlot(s, c)
  /\ \A p \in Procs : \A c \in ToSet(todo[p]) : busy[c] = InTodo(c)
  /\ \A p \in Procs : \A c \in pending[p] :
       \/ busy[c] = Cardinality(Movers(c)) + Cardinality({q \in Movers(c) : MovesTwice(q)})
       \/ Forsaken(c)

\* Data is moved between buffers of the same call, and never after the owner of the
\* other buffer has completed it and may use the memory for something else.
BufferStillOwned ==
  \A p \in Procs : pc[p] \in {"deliver", "scan"} =>
    LET c == at[p]
        o == cookie[c].owner
    IN
    /\ cookie[c].call = call[p]
    /\ reqs[o][call[p]] = c
    /\ ~(pc[o] = "leave" /\ at[o] = c)

\* The cookies in a slot are those of one call, and joined_ counts the processes that
\* have made it: the slot is not reused before all have come.
SlotMatchesCall ==
  \A s \in DOMAIN slots : slots[s].box # <<>> =>
    /\ slots[s].joined = Cardinality({p \in Procs : ticket[p] > slots[s].ticket})
    /\ \A c \in ToSet(slots[s].box) : cookie[c].call = slots[s].ticket

Refs(c) == {r \in Procs \X Calls : reqs[r[1]][r[2]] = c}

\* used_ counts the requests that share the cookie, though each process joins it
\* under the slot's mutex and leaves it under the owner's.
RefCount == \A c \in Cookies : used[c] = Cardinality(Refs(c)) + lost[c]

\* The cookie of a request is not free, nor back in the pool.
HeldIsLive ==
  \A p \in Procs, t \in Calls :
    LET c == reqs[p][t] IN
    c # NoCookie => Placed(c) /\ \A q \in Procs : c \notin free[q]

\* Unless the job exits, every process completes all its calls.
AllReturn ==
  <>(\/ exited
     \/ \A p \in Procs : pc[p] = "idle" /\ ticket[p] = MaxCalls /\ \A t \in Calls : reqs[p][t] = NoCookie)

=============================================================================
