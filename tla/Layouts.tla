------------------------------- MODULE Layouts -------------------------------
(***************************************************************************)
(* Datatypes in use: processes construct types, commit them to the shared  *)
(* map (shared::commit), post requests whose cookies point to the layouts  *)
(* there, free the types while the requests wait, and move the data.       *)
(* Layouts, the list of the committed ones and cookies share one pool.     *)
(*                                                                         *)
(* A request is a send or a receive of a message, or the cookie that a     *)
(* process leaves in a bcast, gather or scatter whose root has rank 0; a   *)
(* process that comes later moves the data.  PointToPoint and Collective   *)
(* say which request it finds; here it is any that is fit for it.          *)
(***************************************************************************)
EXTENDS Datatypes, MemoryPool

CONSTANTS
  Procs, Rank,    \* the processes, and process -> its rank
  Counts,         \* the counts that programs pass
  Jobs,           \* the types that programs construct and use, and their requests
  CookieUnits,    \* the length of a cookie with its list node
  NodeUnits,      \* the length of a node of the list of committed layouts
  Trigger,        \* UMPI_OUTSTANDING_REQUESTS_PER_PROCESS
  Nobody, NoType, NoOutcome

ASSUME ProcsAssumption  == IsFiniteSet(Procs) /\ Nobody \notin Procs
ASSUME CookieAssumption == CookieUnits \in 1..ListSize /\ NodeUnits \in Nat \ {0}
ASSUME TriggerAssumption == Trigger \in Nat

\* Whether a process posts a send or a receive, in which operation, of n elements, to which
\* another brings m of its own.
Shapes == [op: {"message", "bcast", "gather", "scatter"}, sends: BOOLEAN, n: Counts, m: Counts]

ASSUME JobsAssumption ==
  \A j \in Jobs :
    /\ DOMAIN j = {"types", "basics", "requests"}
    /\ j.types \in Seq(ToSet(j.types))
    /\ \A t \in ToSet(j.types) \cup j.basics : IsLayout(t.layout)
    /\ ToSet(j.requests) \subseteq Shapes

VARIABLES
  job,            \* what the processes do, in the order in which they do it
  pool, memory,   \* the pool, and unit -> the two words in it
  live,           \* the blocks in use
  lock,           \* who holds shared::mutex_
  fresh,          \* the layout that process has stored and not yet put in the list
  committed,      \* shared::commited_, addresses of layouts
  handle,         \* process -> its datatype: the type, and the address of its layout
  requests,       \* the cookies posted, with their outcome
  spare,          \* process -> cookies in its lists that are kept for reuse
  surplus,        \* process -> cookies of its lists that go back to the pool
  made, posted,   \* how many types and requests there have been
  exited          \* has the job been brought down

poolVars == <<pool, memory, live>>
typeVars == <<lock, fresh, committed, handle, made>>
vars     == <<job, poolVars, typeVars, requests, spare, surplus, posted, exited>>

N == Cardinality(Procs)

Init ==
  /\ job \in Jobs
  /\ pool      = EmptyPool
  /\ memory    = [u \in Units |-> Iovec(0, 0)]
  /\ live      = {}
  /\ lock      = Nobody
  /\ fresh     = Null
  /\ committed = <<>>
  /\ handle    = [p \in Procs |-> NoType]
  /\ requests  = {}
  /\ spare     = [p \in Procs |-> {}]
  /\ surplus   = [p \in Procs |-> {}]
  /\ made      = 0
  /\ posted    = 0
  /\ exited    = FALSE

-----------------------------------------------------------------------------
(* The pool                                                                *)

\* A block for the given words comes from the pool.
Allocates(words) ==
  LET n == Len(words)
      a == Address(pool, n)
  IN
  /\ CanAlloc(pool, n)
  /\ pool'   = Allocated(pool, memory, n)
  /\ memory' = [u \in Units |-> IF u \in a..(a + n - 1) THEN words[u - a + 1] ELSE memory[u]]
  /\ live'   = live \cup {Block(a, n)}

Words(n) == [i \in 1..n |-> Iovec(-1, 0)]

\* The array of umpi_iovec at address a.
Stored(a) ==
  IF memory[a].dis = SCATTERED
  THEN [i \in 1..(memory[a].len + 2) |-> memory[a + i - 1]]
  ELSE <<memory[a]>>

\* p is not in the middle of shared::commit or process::finalize.
Idle(p) == lock # p /\ surplus[p] = {}

-----------------------------------------------------------------------------
(* MPI_Type_*                                                              *)

\* The layout of a predefined type lies in struct shared.
Layout(h) == IF h.at = Null THEN h.type.layout ELSE Stored(h.at)

\* A type constructed from others lies on p's heap.
Create(p) ==
  /\ Idle(p) /\ handle[p] = NoType /\ made < Len(job.types)
  /\ handle' = [handle EXCEPT ![p] = [type |-> job.types[made + 1], at |-> Null]]
  /\ made' = made + 1
  /\ UNCHANGED <<job, poolVars, lock, fresh, committed, requests, spare, surplus, posted, exited>>

Uncommitted(p) == handle[p] # NoType /\ handle[p].at = Null

SameLength(v, w) == Len(v) = Len(w) /\ Length(v) = Length(w)

\* umpi_iovec::operator==
Same(v, w) == v = w

\* The places in the list of the committed layouts that are the same as p's.
Found(p) == {i \in DOMAIN committed : Same(Stored(committed[i]), handle[p].type.layout)}

CommitFinds(p) ==
  /\ Idle(p) /\ Uncommitted(p) /\ lock = Nobody
  /\ \E i \in Found(p) :
       /\ \A j \in Found(p) : i <= j
       /\ handle' = [handle EXCEPT ![p].at = committed[i]]
  /\ UNCHANGED <<job, poolVars, lock, fresh, committed, made, requests, spare, surplus, posted, exited>>

\* p copies its layout to the pool, and keeps the mutex
CommitStores(p) ==
  /\ Idle(p) /\ Uncommitted(p) /\ lock = Nobody
  /\ Found(p) = {}
  /\ Allocates(handle[p].type.layout)
  /\ lock'  = p
  /\ fresh' = Address(pool, Len(handle[p].type.layout))
  /\ UNCHANGED <<job, committed, handle, made, requests, spare, surplus, posted, exited>>

\* until it is in the list, whose node comes from the pool too.
CommitLinks(p) ==
  /\ lock = p
  /\ Allocates(Words(NodeUnits))
  /\ committed' = <<fresh>> \o committed
  /\ handle' = [handle EXCEPT ![p].at = fresh]
  /\ lock'   = Nobody
  /\ fresh'  = Null
  /\ UNCHANGED <<job, made, requests, spare, surplus, posted, exited>>

\* MPI_Type_free leaves a committed layout where it is.
Free(p) ==
  /\ Idle(p) /\ handle[p] # NoType
  /\ handle' = [handle EXCEPT ![p] = NoType]
  /\ UNCHANGED <<job, poolVars, lock, fresh, committed, made, requests, spare, surplus, posted, exited>>

-----------------------------------------------------------------------------
(* Requests                                                                *)

\* The datatypes p can communicate with.
Usable(p) ==
  {[type |-> b, at |-> Null] : b \in job.basics}
    \cup (IF handle[p] = NoType \/ Uncommitted(p) THEN {} ELSE {handle[p]})

\* Who may send and receive in an operation, when it is the one who posts or not.
MaySend(p, op) == CASE op = "gather" -> Rank[p] > 0 [] op \in {"bcast", "scatter"} -> Rank[p] = 0 [] OTHER -> TRUE
MayRecv(p, op) == CASE op = "gather" -> Rank[p] = 0 [] op \in {"bcast", "scatter"} -> Rank[p] > 0 [] OTHER -> TRUE

MayDo(p, op, sends) == IF sends THEN MaySend(p, op) ELSE MayRecv(p, op)

\* The buffer of the root of a gather or scatter has a block of n elements for everyone.
SizeOf(op, sends, n) == IF <<op, sends>> \in {<<"gather", FALSE>>, <<"scatter", TRUE>>} THEN n * N ELSE n

NextShape  == job.requests[posted + 1]
MayPost(p) == Idle(p) /\ posted < Len(job.requests) /\ MayDo(p, NextShape.op, NextShape.sends)

\* In whose lists p's cookie is: a message waits at the process that it is for.
Hosts(p) == IF NextShape.op = "message" /\ NextShape.sends THEN Procs \ {p} ELSE {p}

\* Under the host's mutex, process::create_request takes one of the host's spare cookies.
Post(p) ==
  /\ MayPost(p)
  /\ \E host \in Hosts(p) :
       /\ surplus[host] = {}
       /\ \E h \in Usable(p) :
            \E at \in IF spare[host] # {} THEN spare[host] ELSE {Address(pool, CookieUnits)} :
              /\ requests' = requests \cup
                   {[at |-> at, owner |-> p, host |-> host, shape |-> NextShape, type |-> h.type,
                     iovec |-> h.at, outcome |-> NoOutcome]}
              /\ spare' = [spare EXCEPT ![host] = @ \ {at}]
       /\ IF spare[host] # {} THEN UNCHANGED poolVars ELSE Allocates(Words(CookieUnits))
  /\ posted' = posted + 1
  /\ UNCHANGED <<job, typeVars, surplus, exited>>

RequestLayout(r) == Layout([type |-> r.type, at |-> r.iovec])

\* q, with m elements of its datatype h, writes to the buffer of a receive
Writes(q, r, h) ==
  LET op == r.shape.op
      m  == r.shape.m
      n  == r.shape.n
  IN
  WriteToOwner(RequestLayout(r), SizeOf(op, FALSE, n), n, Layout(h), m,
               IF op = "gather" THEN n * Rank[q] ELSE 0,
               IF op = "scatter" THEN m * Rank[r.owner] ELSE 0)

\* or reads from that of a send. The root of a gather passes the rank of the process
\* where it reads from it, and its rank times the count where that one writes.
Reads(q, r, h) ==
  LET op == r.shape.op
      m  == r.shape.m
      n  == r.shape.n
  IN
  ReadFromOwner(RequestLayout(r), SizeOf(op, TRUE, n), n, Layout(h),
                SizeOf(op, FALSE, m), IF op = "message" THEN 0 ELSE m,
                IF op = "gather" THEN Rank[r.owner] ELSE 0,
                IF op = "scatter" THEN n * Rank[q] ELSE 0)

\* In a collective operation all pass the same number of bytes.
Agree(r, h) ==
  r.shape.op # "message" => r.shape.m * Len(h.type.bytes) = r.shape.n * Len(r.type.bytes)

\* A message that waits at a process is received by that one.
Move(q, r) ==
  /\ Idle(q) /\ q # r.owner /\ r.outcome = NoOutcome
  /\ r.host # r.owner => q = r.host
  /\ MayDo(q, r.shape.op, ~r.shape.sends)
  /\ \E h \in Usable(q) :
       /\ Agree(r, h)
       /\ LET done == IF r.shape.sends THEN Reads(q, r, h) ELSE Writes(q, r, h) IN
          requests' = (requests \ {r}) \cup
            {[r EXCEPT !.outcome = [result |-> done, mover |-> q, type |-> h.type]]}
  /\ UNCHANGED <<job, poolVars, typeVars, spare, surplus, posted, exited>>

Done == {r \in requests : r.outcome # NoOutcome}

\* process::finalize, called when a cookie that p posted is let go, keeps those in p's lists
\* that nobody uses any more: that one, if it is there, and any that others have left behind.
\* Or it gives the surplus back, one cookie after the other.
Finish(p) ==
  /\ Idle(p) /\ \E r \in Done : r.owner = p
  /\ \E unused \in SUBSET {r \in Done : r.host = p} :
       LET kept == spare[p] \cup {r.at : r \in unused} IN
       /\ unused # {} /\ Cardinality({r \in unused : r.owner = p}) <= 1
       /\ requests' = requests \ unused
       /\ \E K \in SUBSET kept :
            /\ IF Cardinality(kept) > Trigger THEN Cardinality(K) = Trigger \div 2 ELSE K = kept
            /\ spare'   = [spare EXCEPT ![p] = K]
            /\ surplus' = [surplus EXCEPT ![p] = kept \ K]
  /\ UNCHANGED <<job, poolVars, typeVars, posted, exited>>

Erase(p) ==
  /\ \E a \in surplus[p] :
       /\ pool'    = Deallocated(pool, a, CookieUnits)
       /\ memory'  = Linked(pool, memory, a, CookieUnits)
       /\ live'    = live \ {Block(a, CookieUnits)}
       /\ surplus' = [surplus EXCEPT ![p] = @ \ {a}]
  /\ UNCHANGED <<job, typeVars, requests, spare, posted, exited>>

\* The pool has no more memory: the process exits and mpiexec terminates the others.
Exhausted(p) ==
  /\ \/ /\ MayPost(p) /\ ~CanAlloc(pool, CookieUnits)
        /\ \E host \in Hosts(p) : surplus[host] = {} /\ spare[host] = {}
     \/ Idle(p) /\ Uncommitted(p) /\ lock = Nobody /\ Found(p) = {}
          /\ ~CanAlloc(pool, Len(handle[p].type.layout))
     \/ lock = p /\ ~CanAlloc(pool, NodeUnits)
  /\ exited' = TRUE
  /\ UNCHANGED <<job, poolVars, typeVars, requests, spare, surplus, posted>>

-----------------------------------------------------------------------------
Step(p) ==
  \/ Create(p) \/ CommitFinds(p) \/ CommitStores(p) \/ CommitLinks(p) \/ Free(p)
  \/ Post(p) \/ Finish(p) \/ Erase(p) \/ Exhausted(p)

Next ==
  /\ ~exited
  /\ \/ \E p \in Procs : Step(p)
     \/ \E q \in Procs, r \in requests : Move(q, r)

Spec == Init /\ [][Next]_vars

-----------------------------------------------------------------------------
(* Properties                                                              *)

CookieBlock(a) == Block(a, CookieUnits)

TypeOK ==
  /\ memory \in [Units -> [dis: Int, len: Nat]]
  /\ pool.begin \in 1..(PoolUnits + 1) /\ pool.begin + pool.space = PoolUnits + 1
  /\ lock \in Procs \cup {Nobody}
  /\ committed \in Seq(Units)
  /\ \A r \in requests : CookieBlock(r.at) \in live
  /\ \A p \in Procs : \A a \in spare[p] \cup surplus[p] : CookieBlock(a) \in live

\* Whoever allocates while another gives back, and though the links lie in the blocks
\* themselves: every unit of the pool that was ever handed out is in exactly one block,
\* and every block not in use will be found again.
PoolSound == ListsIntact(pool, memory) /\ Tiled(pool, memory, live)

\* Processes that commit the same type share one layout, no two committed layouts are
\* equal, and a datatype or a pending request still points to the layout it was made
\* with, whatever has been freed, committed and allocated since.
Interned ==
  /\ \A i, j \in DOMAIN committed : i # j => Stored(committed[i]) # Stored(committed[j])
  /\ \A p \in Procs : handle[p] # NoType => Layout(handle[p]) = handle[p].type.layout
  /\ \A r \in requests : RequestLayout(r) = r.type.layout

\* The sender's and the receiver's side of a transfer that has been made.
Poster(r) == [proc |-> r.owner, type |-> r.type, n |-> r.shape.n]
Mover(r)  == [proc |-> r.outcome.mover, type |-> r.outcome.type, n |-> r.shape.m]

Sender(r)   == IF r.shape.sends THEN Poster(r) ELSE Mover(r)
Receiver(r) == IF r.shape.sends THEN Mover(r) ELSE Poster(r)

BytesOf(side) == side.n * Len(side.type.bytes)

\* The elements with which a transfer begins at either side.
FirstSent(r)     == IF r.shape.op = "scatter" THEN Sender(r).n * Rank[Receiver(r).proc] ELSE 0
FirstReceived(r) == IF r.shape.op = "gather" THEN Receiver(r).n * Rank[Sender(r).proc] ELSE 0

\* The k-th byte that is sent is the k-th byte that is received.
Intended(r) ==
  LET s == Sender(r)
      t == Receiver(r)
      from == Elements(s.type, FirstSent(r), s.n)
      to   == Elements(t.type, FirstReceived(r), t.n)
  IN {<<from[k], to[k]>> : k \in 1..BytesOf(s)}

\* The receiver gets whole elements of its type; and when the root of a gather comes late,
\* it has blocks of one element.
Regular(r) ==
  /\ BytesOf(Sender(r)) % Len(Receiver(r).type.bytes) = 0
  /\ r.shape.op = "gather" /\ r.shape.sends => Receiver(r).n = 1

\* A transfer that succeeds puts every byte where the types of both sides say, and nothing
\* else, whichever side moves the data; and both learn how long the message was.
ArrivesIntact ==
  \A r \in Done :
    LET result == r.outcome.result IN
    Regular(r) /\ result.err = MPI_SUCCESS =>
      /\ result.moved = Intended(r)
      /\ r.shape.op = "message" => result.count * Length(r.type.layout) = BytesOf(Sender(r))

\* The parts of the whole buffer at one side.
Pieces(r, side) ==
  LET v == side.type.layout IN
  IF Scattered(v) THEN SizeOf(r.shape.op, side = Sender(r), side.n) * Len(Parts(v)) ELSE 1

\* A transfer fails only if the message is longer than the receiver allows, provided the
\* buffers have no more parts than the system calls take. A failed one moves nothing.
AcceptsWhatFits ==
  \A r \in Done :
    LET result == r.outcome.result
        sides  == {Sender(r), Receiver(r)}
    IN
    /\ /\ Regular(r) /\ \A side \in sides : Pieces(r, side) <= IovMax
       /\ BytesOf(Sender(r)) <= BytesOf(Receiver(r))
       => result.err = MPI_SUCCESS
    /\ result.err # MPI_SUCCESS => result.moved = {}

=============================================================================
