---------------------------- MODULE PointToPoint ----------------------------
(***************************************************************************)
(* The point-to-point core of umpi: struct cookie and class process        *)
(* (umpi.hh, umpi.cc).  Every process owns a mutex, a condition variable   *)
(* and four std::lists of cookies in the shared memory map:                *)
(*                                                                         *)
(*   inbox    sends to this process that no receive has matched yet        *)
(*   outbox   receives this process has posted that no send has matched    *)
(*   pending  matched cookies, until their last user has left              *)
(*   free     cookies kept for reuse                                       *)
(*                                                                         *)
(* A cookie belongs to the process that created it (owner), which may be   *)
(* another one than the process whose list it is in: an unmatched send is  *)
(* owned by the sender and sits in the receiver's inbox.  The process that *)
(* matches a cookie moves the data itself, by process_vm_readv/writev, and *)
(* then tells the owner.                                                   *)
(*                                                                         *)
(* One action is one critical section of a process mutex, or one step      *)
(* taken outside of any.  The order of inbox and outbox decides which      *)
(* request is matched and is kept; nothing depends on the order of pending *)
(* and free, which are sets here.  Buffers, counts and datatypes are       *)
(* abstracted to "the transfer succeeds or fails".                         *)
(***************************************************************************)
EXTENDS Integers, FiniteSets, SequencesExt

CONSTANTS
  Procs,      \* the ranks of MPI_COMM_WORLD
  Cookies,    \* the cookie-sized blocks of the memory pool
  Slots,      \* number of MPI_Request variables of each process
  Tags,       \* message tags the program uses
  Asked,      \* tags its receives and probes ask for
  Calls,      \* the MPI calls the program makes
  MaxPosted,  \* bound on the requests each process posts in a run
  Trigger,    \* UMPI_OUTSTANDING_REQUESTS_PER_PROCESS
  AnySource,  \* MPI_ANY_SOURCE
  NoCookie    \* the null request

AnyTag      == -1       \* MPI_ANY_TAG
MPI_SUCCESS == 0
MPI_FAIL    == 1

\* Conversion of an int to the int16_t of cookie::tag_.
Int16(t) == ((t + 32768) % 65536) - 32768

ASSUME ProcsAssumption   == IsFiniteSet(Procs) /\ AnySource \notin Procs
ASSUME CookiesAssumption == IsFiniteSet(Cookies) /\ NoCookie \notin Cookies
ASSUME TagsAssumption    == Tags \subseteq Nat /\ Asked \subseteq Tags \cup {AnyTag}
ASSUME BoundsAssumption  == Slots \in Nat /\ MaxPosted \in Nat /\ Trigger \in Nat

VARIABLES
  inbox, outbox,  \* process -> sequence of cookies
  pending, free,  \* process -> set of cookies
  cookie,         \* cookie  -> its owner, src, tag, err and its buffer's identity
  used,           \* cookie  -> cookie::used_, the references to it
  busy,           \* cookie  -> cookie::busy_, the transfers it still waits for
  waitingFor,     \* process -> process::waiting_for_
  waiting,        \* process -> process::waiting_
  signal,         \* process -> has cond_ been signalled since it went to sleep
  pc,             \* process -> where it is in the library
  slot,           \* process -> the request the call in progress works on
  ret,            \* process -> outcome of the transfer in progress
  want,           \* process -> the arguments of the MPI_Probe in progress
  reqs,           \* process -> its MPI_Request variables
  exited,         \* has the job been brought down
  (* History, read by no action *)
  posted,         \* process -> number of requests posted so far
  lost,           \* cookie  -> references whose request variable went out of scope
  probed,         \* process -> the last message a probe reported, until the next receive
  outcome         \* the matches whose data has been moved, or has failed to

boxes   == <<inbox, outbox, pending, free>>
cookies == <<cookie, used, busy>>
conds   == <<waitingFor, waiting, signal>>
calls   == <<pc, slot, ret, want>>
history == <<posted, lost, probed, outcome>>
vars    == <<boxes, cookies, conds, calls, reqs, exited, history>>

-----------------------------------------------------------------------------
Sources  == Procs \cup {AnySource}
RecvTags == Tags \cup {AnyTag}

NoWant  == [src |-> AnySource, tag |-> AnyTag]
NoProbe == [cookie |-> NoCookie, src |-> AnySource, tag |-> AnyTag]

\* What a send and a receive stand for; n numbers the requests of a process.
NoMsg    == [from |-> AnySource, to |-> AnySource, tag |-> AnyTag, n |-> 0]
NoRecv   == [at |-> AnySource, src |-> AnySource, tag |-> AnyTag, n |-> 0]
Messages == [from: Procs, to: Procs, tag: Tags, n: 1..MaxPosted]
Receives == [at: Procs, src: Sources, tag: RecvTags, n: 1..MaxPosted]

CookieRecords ==
  [owner: Sources, src: Sources, tag: Int, err: {MPI_SUCCESS, MPI_FAIL},
   msg: Messages \cup {NoMsg}, recv: Receives \cup {NoRecv}]

Requests == 1..Slots

Init ==
  /\ inbox      = [p \in Procs |-> <<>>]
  /\ outbox     = [p \in Procs |-> <<>>]
  /\ pending    = [p \in Procs |-> {}]
  /\ free       = [p \in Procs |-> {}]
  /\ cookie     = [c \in Cookies |->
                     [owner |-> AnySource, src |-> AnySource, tag |-> 0,
                      err |-> MPI_SUCCESS, msg |-> NoMsg, recv |-> NoRecv]]
  /\ used       = [c \in Cookies |-> 0]
  /\ busy       = [c \in Cookies |-> 0]
  /\ waitingFor = [p \in Procs |-> "not_waiting"]
  /\ waiting    = [p \in Procs |-> NoCookie]
  /\ signal     = [p \in Procs |-> FALSE]
  /\ pc         = [p \in Procs |-> "idle"]
  /\ slot       = [p \in Procs |-> 0]
  /\ ret        = [p \in Procs |-> MPI_SUCCESS]
  /\ want       = [p \in Procs |-> NoWant]
  /\ reqs       = [p \in Procs |-> [i \in Requests |-> NoCookie]]
  /\ exited     = FALSE
  /\ posted     = [p \in Procs |-> 0]
  /\ lost       = [c \in Cookies |-> 0]
  /\ probed     = [p \in Procs |-> NoProbe]
  /\ outcome    = {}

-----------------------------------------------------------------------------
(* Matching and allocation                                                 *)

\* Slips of the code that the properties must notice stand before the definition
\* they would replace; no action uses them.
RecvMatchExactTag(c, source, tag) ==
  /\ cookie[c].tag = tag
  /\ cookie[c].src = source \/ source = AnySource

RecvMatchAnyOne(c, source, tag) == cookie[c].tag = tag \/ (tag = AnyTag /\ cookie[c].tag >= 0)

\* cookie::recv_match: an unmatched send answers a receive of (source, tag).
RecvMatch(c, source, tag) ==
  /\ cookie[c].tag = tag \/ (tag = AnyTag /\ cookie[c].tag >= 0)
  /\ cookie[c].src = source \/ source = AnySource

SendMatchAnyTag(c, source, tag) == cookie[c].src = source \/ cookie[c].src = AnySource

\* cookie::send_match: a posted receive accepts a send from source with tag.
SendMatch(c, source, tag) ==
  /\ cookie[c].tag = tag \/ cookie[c].tag = AnyTag
  /\ cookie[c].src = source \/ cookie[c].src = AnySource

\* Positions of the cookies in d's inbox (outbox) that match.
Incoming(d, source, tag) == {k \in DOMAIN inbox[d] : RecvMatch(inbox[d][k], source, tag)}
Awaited(d, source, tag)  == {k \in DOMAIN outbox[d] : SendMatch(outbox[d][k], source, tag)}

IsFirst(k, S) == k \in S /\ \A j \in S : k <= j

InBox(c, d)  == c \in pending[d] \/ c \in ToSet(inbox[d]) \/ c \in ToSet(outbox[d])
Unallocated  == {c \in Cookies : \A d \in Procs : ~InBox(c, d) /\ c \notin free[d]}

AvailableWhenDone(d) ==
  LET done == free[d] \cup {c \in pending[d] : busy[c] = 0} IN
  IF done # {} THEN done ELSE Unallocated

\* process::create_request takes a free cookie of the process whose list grows,
\* and asks the memory pool only when there is none.
Available(d) == IF free[d] # {} THEN free[d] ELSE Unallocated

CreatedSwapped(p, source, tag, m, r) ==
  [owner |-> p, src |-> tag, tag |-> Int16(tag), err |-> MPI_SUCCESS, msg |-> m, recv |-> r]

\* The fields a cookie is created, or reset, with by process p.
Created(p, source, tag, m, r) ==
  [owner |-> p, src |-> source, tag |-> Int16(tag), err |-> MPI_SUCCESS, msg |-> m, recv |-> r]

-----------------------------------------------------------------------------
(* MPI_Issend and MPI_Irecv                                                *)

\* Process p calls MPI function f; i is the request variable it passes.
Idle(p, f)       == pc[p] = "idle" /\ f \in Calls
Posting(p, f, i) == Idle(p, f) /\ reqs[p][i] = NoCookie /\ posted[p] < MaxPosted

Message(p, d, t)    == [from |-> p, to |-> d, tag |-> t, n |-> posted[p] + 1]
Receive(p, s, t)    == [at |-> p, src |-> s, tag |-> t, n |-> posted[p] + 1]
Posts(p)            == posted' = [posted EXCEPT ![p] = @ + 1]
Holds(p, i, c)      == reqs' = [reqs EXCEPT ![p][i] = c]

CountedNot(c) == used

\* cookie::join
Counted(c) == [used EXCEPT ![c] = @ + 1]

\* p has matched cookie c, joins it and will move the data itself.
Joins(p, i, c) ==
  /\ used' = Counted(c)
  /\ Holds(p, i, c)
  /\ slot' = [slot EXCEPT ![p] = i]
  /\ pc'   = [pc EXCEPT ![p] = "transfer"]

TakenCopied(box, d, k) == box

\* The kth cookie is spliced out of the list of process d.
Taken(box, d, k) == [box EXCEPT ![d] = RemoveAt(@, k)]

\* p creates a request in a list of process d.
Creates(p, i, d, c, fields) ==
  /\ c \in Available(d)
  /\ free'   = [free EXCEPT ![d] = @ \ {c}]
  /\ cookie' = [cookie EXCEPT ![c] = fields]
  /\ used'   = [used EXCEPT ![c] = 1]
  /\ busy'   = [busy EXCEPT ![c] = 1]
  /\ Holds(p, i, c)

MeetsSendTagOnly(c, p, t, m) ==
  [cookie EXCEPT ![c] = [@ EXCEPT !.tag = Int16(t), !.msg = m]]

\* The cookie of a posted receive takes the sender's rank and tag.
MeetsSend(c, p, t, m) ==
  [cookie EXCEPT ![c] = [@ EXCEPT !.src = p, !.tag = Int16(t), !.msg = m]]

\* MPI_Issend to d finds a receive d has posted: the cookie becomes pending.
IssendMatched(p, i, d, t) ==
  /\ Posting(p, "Issend", i)
  /\ \E k \in Awaited(d, p, t) :
       /\ IsFirst(k, Awaited(d, p, t))
       /\ LET c == outbox[d][k] IN
          /\ outbox'  = Taken(outbox, d, k)
          /\ pending' = [pending EXCEPT ![d] = @ \cup {c}]
          /\ cookie'  = MeetsSend(c, p, t, Message(p, d, t))
          /\ Joins(p, i, c)
  /\ Posts(p)
  /\ UNCHANGED <<inbox, free, busy, conds, ret, want, exited, lost, probed, outcome>>

AppendedInFront(box, d, c) == [box EXCEPT ![d] = <<c>> \o @]

\* process::create_request puts the new cookie at the end of the list.
Appended(box, d, c) == [box EXCEPT ![d] = Append(@, c)]

AlertsNobody(d) == UNCHANGED signal

\* d is woken if it is probing.
Alerts(d) == signal' = [signal EXCEPT ![d] = @ \/ waitingFor[d] = "incoming"]

\* MPI_Issend to d finds no posted receive: the request goes to d's inbox.
IssendPosted(p, i, d, t) ==
  /\ Posting(p, "Issend", i)
  /\ Awaited(d, p, t) = {}
  /\ \E c \in Cookies :
       /\ Creates(p, i, d, c, Created(p, p, t, Message(p, d, t), NoRecv))
       /\ inbox' = Appended(inbox, d, c)
  /\ Alerts(d)
  /\ Posts(p)
  /\ UNCHANGED <<outbox, pending, waitingFor, waiting, calls, exited, lost, probed, outcome>>

\* MPI_Irecv finds a send in the caller's inbox.
IrecvMatched(p, i, s, t) ==
  /\ Posting(p, "Irecv", i)
  /\ \E k \in Incoming(p, s, t) :
       /\ IsFirst(k, Incoming(p, s, t))
       /\ LET c == inbox[p][k] IN
          /\ inbox'   = Taken(inbox, p, k)
          /\ pending' = [pending EXCEPT ![p] = @ \cup {c}]
          /\ cookie'  = [cookie EXCEPT ![c].recv = Receive(p, s, t)]
          /\ Joins(p, i, c)
  /\ Posts(p)
  /\ probed' = [probed EXCEPT ![p] = NoProbe]
  /\ UNCHANGED <<outbox, free, busy, conds, ret, want, exited, lost, outcome>>

\* MPI_Irecv finds no such send and leaves the request in the caller's outbox.
IrecvPosted(p, i, s, t) ==
  /\ Posting(p, "Irecv", i)
  /\ Incoming(p, s, t) = {}
  /\ \E c \in Cookies :
       /\ Creates(p, i, p, c, Created(p, s, t, NoMsg, Receive(p, s, t)))
       /\ outbox' = Appended(outbox, p, c)
  /\ Posts(p)
  /\ probed' = [probed EXCEPT ![p] = NoProbe]
  /\ UNCHANGED <<inbox, pending, conds, calls, exited, lost, outcome>>

\* memory_pool::alloc has no block left for a new cookie: the process exits with
\* status 1 and mpiexec terminates the others.
PoolExhausted(p, d, i) ==
  /\ \/ Posting(p, "Issend", i) /\ \E t \in Tags : Awaited(d, p, t) = {}
     \/ /\ Posting(p, "Irecv", i) /\ d = p
        /\ \E s \in Sources, t \in Asked : Incoming(p, s, t) = {}
  /\ Available(d) = {}
  /\ exited' = TRUE
  /\ UNCHANGED <<boxes, cookies, conds, calls, reqs, history>>

-----------------------------------------------------------------------------
(* Moving the data: cookie::read_from_owner and cookie::write_to_owner     *)

\* The request a call in progress works on.
Current(p) == reqs[p][slot[p]]

\* The call returns and its local variables go out of scope.
Returns(p) ==
  /\ pc'   = [pc EXCEPT ![p] = "idle"]
  /\ slot' = [slot EXCEPT ![p] = 0]
  /\ ret'  = [ret EXCEPT ![p] = MPI_SUCCESS]

\* process_vm_readv or process_vm_writev, outside of every mutex.  It fails when
\* the buffers do not fit, or when the kernel refuses.
Transfer(p) ==
  /\ pc[p] = "transfer"
  /\ \E err \in {MPI_SUCCESS, MPI_FAIL} :
       /\ ret' = [ret EXCEPT ![p] = err]
       /\ outcome' = outcome \cup {[msg |-> cookie[Current(p)].msg, recv |-> cookie[Current(p)].recv,
                                    err |-> err]}
  /\ pc' = [pc EXCEPT ![p] = "notify"]
  /\ UNCHANGED <<boxes, cookies, conds, slot, want, reqs, exited, posted, lost, probed>>

WakensTooEarly(o, c) == busy[c] = 0 /\ waitingFor[o] = "cookie" /\ waiting[o] = c

\* notify_done wakes owner o of cookie c when this was the last transfer.
Wakens(o, c) == busy[c] = 1 /\ waitingFor[o] = "cookie" /\ waiting[o] = c

\* process::notify_done, under the owner's mutex.  The posting call then returns
\* err: MPI_Issend and MPI_Irecv leave the request to the caller even when err is
\* an error, while MPI_Ssend and MPI_Recv return without waiting for it.
NotifyDone(p) ==
  LET c == Current(p)
      o == cookie[c].owner
  IN
  /\ pc[p] = "notify"
  /\ cookie' = [cookie EXCEPT ![c].err = IF @ # MPI_SUCCESS THEN @ ELSE ret[p]]
  /\ busy'   = [busy EXCEPT ![c] = @ - 1]
  /\ signal' = [signal EXCEPT ![o] = @ \/ Wakens(o, c)]
  /\ Returns(p)
  /\ \/ UNCHANGED <<reqs, lost>>
     \/ /\ ret[p] # MPI_SUCCESS
        /\ Holds(p, slot[p], NoCookie)
        /\ lost' = [lost EXCEPT ![c] = @ + 1]
  /\ UNCHANGED <<boxes, used, waitingFor, waiting, want, exited, posted, probed, outcome>>

-----------------------------------------------------------------------------
(* MPI_Wait, MPI_Test and MPI_Waitany                                      *)

\* p goes to sleep on its condition variable.
Sleeps(p, for, c, where) ==
  /\ waitingFor' = [waitingFor EXCEPT ![p] = for]
  /\ waiting'    = [waiting EXCEPT ![p] = c]
  /\ signal'     = [signal EXCEPT ![p] = FALSE]
  /\ pc'         = [pc EXCEPT ![p] = where]

\* p stops waiting and goes on at where.
StopsWaiting(p, where) ==
  /\ waitingFor' = [waitingFor EXCEPT ![p] = "not_waiting"]
  /\ waiting'    = [waiting EXCEPT ![p] = NoCookie]
  /\ signal'     = [signal EXCEPT ![p] = FALSE]
  /\ pc'         = [pc EXCEPT ![p] = where]

MustWaitSwapped(p, c) == cookie[c].owner # p /\ busy[c] # 0

\* Only the owner of the cookie waits for it: the process that moved the data has
\* done so already.
MustWait(p, c) == cookie[c].owner = p /\ busy[c] # 0

\* MPI_Wait
Wait(p, i) ==
  LET c == reqs[p][i] IN
  /\ Idle(p, "Wait") /\ c # NoCookie
  /\ slot' = [slot EXCEPT ![p] = i]
  /\ IF MustWait(p, c)
     THEN Sleeps(p, "cookie", c, "wait")
     ELSE pc' = [pc EXCEPT ![p] = "leave"] /\ UNCHANGED conds
  /\ UNCHANGED <<boxes, cookies, ret, want, reqs, exited, history>>

\* The sleeper in process::wait wakes up, signalled or not, and looks again.
WaitWakes(p) ==
  /\ pc[p] = "wait"
  /\ IF busy[waiting[p]] # 0
     THEN Sleeps(p, "cookie", waiting[p], "wait")
     ELSE StopsWaiting(p, "leave")
  /\ UNCHANGED <<boxes, cookies, slot, ret, want, reqs, exited, history>>

\* MPI_Test reads busy_ without the mutex.  When it is not zero yet nothing
\* happens; otherwise the request completes as in MPI_Wait.
Test(p, i) ==
  /\ Idle(p, "Test") /\ reqs[p][i] # NoCookie
  /\ busy[reqs[p][i]] = 0
  /\ slot' = [slot EXCEPT ![p] = i]
  /\ pc'   = [pc EXCEPT ![p] = "leave"]
  /\ UNCHANGED <<boxes, cookies, conds, ret, want, reqs, exited, history>>

Active(p)     == {i \in Requests : reqs[p][i] # NoCookie}
Foreign(p)    == {i \in Active(p) : cookie[reqs[p][i]].owner # p}
Finished(p)   == {i \in Active(p) : busy[reqs[p][i]] = 0}

\* MPI_Waitany completes request i; a null request is dereferenced.
WaitanyCompletes(p, i) ==
  /\ slot' = [slot EXCEPT ![p] = i]
  /\ IF reqs[p][i] = NoCookie
     THEN exited' = TRUE /\ UNCHANGED <<pc, conds>>
     ELSE StopsWaiting(p, "leave") /\ UNCHANGED exited

\* wait_any has found request k finished.  It counts from the first active request
\* of the array, and its result is then used as an index from the array's start.
WaitanyServes(p) ==
  \E k \in Finished(p), begin \in Active(p) :
    /\ IsFirst(k, Finished(p)) /\ IsFirst(begin, Active(p))
    /\ WaitanyCompletes(p, k - begin + 1)

WaitanySleeps(p) ==
  /\ Finished(p) = {}
  /\ Sleeps(p, "any_cookie", NoCookie, "wait_any")
  /\ UNCHANGED <<slot, exited>>

\* MPI_Waitany on all requests of p.  A request another process owns has already
\* been served; of p's own it takes the first finished one, or sleeps.
Waitany(p) ==
  /\ Idle(p, "Waitany") /\ Active(p) # {}
  /\ \/ \E i \in Foreign(p) : IsFirst(i, Foreign(p)) /\ WaitanyCompletes(p, i)
     \/ Foreign(p) = {} /\ (WaitanyServes(p) \/ WaitanySleeps(p))
  /\ UNCHANGED <<boxes, cookies, ret, want, reqs, history>>

\* The sleeper in process::wait_any wakes up and scans its requests again.
WaitanyWakes(p) ==
  /\ pc[p] = "wait_any"
  /\ WaitanyServes(p) \/ WaitanySleeps(p)
  /\ UNCHANGED <<boxes, cookies, ret, want, reqs, history>>

UnusedBefore(o) == {x \in pending[o] : used[x] = 0}

UnusedByOthers(o) == {x \in pending[o] : used'[x] <= 1}

\* The pending cookies of process o nobody uses any more.
Unused(o) == {x \in pending[o] : used'[x] = 0}

\* cookie::leave: process::finalize of the owner, under its mutex.  It drops one
\* reference, recycles the owner's pending cookies nobody uses any more, and gives
\* the surplus of the free list back to the pool.  The caller returns err_.
Leave(p) ==
  LET c      == Current(p)
      o      == cookie[c].owner
      kept   == free[o] \cup Unused(o)
  IN
  /\ pc[p] = "leave"
  /\ used'    = [used EXCEPT ![c] = @ - 1]
  /\ pending' = [pending EXCEPT ![o] = @ \ Unused(o)]
  /\ \E K \in SUBSET kept :
       /\ IF Cardinality(kept) > Trigger THEN Cardinality(K) = Trigger \div 2 ELSE K = kept
       /\ free' = [free EXCEPT ![o] = K]
  /\ Holds(p, slot[p], NoCookie)
  /\ Returns(p)
  /\ UNCHANGED <<inbox, outbox, cookie, busy, conds, want, exited, history>>

-----------------------------------------------------------------------------
(* MPI_Probe and MPI_Iprobe                                                *)

ReportsAny(p, s, t) ==
  \E k \in Incoming(p, s, t) :
    probed' = [probed EXCEPT ![p] = [cookie |-> inbox[p][k], src |-> s, tag |-> t]]

Reports(p, s, t) ==
  \E k \in Incoming(p, s, t) :
    /\ IsFirst(k, Incoming(p, s, t))
    /\ probed' = [probed EXCEPT ![p] = [cookie |-> inbox[p][k], src |-> s, tag |-> t]]

\* MPI_Iprobe reports the first message that matches.  When there is none
\* nothing happens.
Iprobe(p, s, t) ==
  /\ Idle(p, "Iprobe")
  /\ Reports(p, s, t)
  /\ UNCHANGED <<boxes, cookies, conds, calls, reqs, exited, posted, lost, outcome>>

\* MPI_Probe sleeps until there is one.
Probe(p, s, t) ==
  /\ Idle(p, "Probe")
  /\ \/ Reports(p, s, t) /\ UNCHANGED <<conds, pc, want>>
     \/ /\ Incoming(p, s, t) = {}
        /\ Sleeps(p, "incoming", NoCookie, "probe")
        /\ want' = [want EXCEPT ![p] = [src |-> s, tag |-> t]]
        /\ UNCHANGED probed
  /\ UNCHANGED <<boxes, cookies, slot, ret, reqs, exited, posted, lost, outcome>>

\* The sleeper in process::wait_any(source, tag) wakes up and looks again.
ProbeWakes(p) ==
  /\ pc[p] = "probe"
  /\ \/ /\ Reports(p, want[p].src, want[p].tag)
        /\ StopsWaiting(p, "idle")
        /\ want' = [want EXCEPT ![p] = NoWant]
     \/ /\ Incoming(p, want[p].src, want[p].tag) = {}
        /\ Sleeps(p, "incoming", NoCookie, "probe")
        /\ UNCHANGED <<want, probed>>
  /\ UNCHANGED <<boxes, cookies, slot, ret, reqs, exited, posted, lost, outcome>>

-----------------------------------------------------------------------------
\* What process p does of its own accord: the calls its program makes.
Call(p) ==
  \E i \in Requests :
    \/ \E d \in Procs, t \in Tags : IssendMatched(p, i, d, t) \/ IssendPosted(p, i, d, t)
    \/ \E s \in Sources, t \in Asked : IrecvMatched(p, i, s, t) \/ IrecvPosted(p, i, s, t)
    \/ \E d \in Procs : PoolExhausted(p, d, i)
    \/ Wait(p, i)
    \/ Test(p, i)

Peek(p) ==
  \E s \in Sources, t \in Asked : Iprobe(p, s, t) \/ Probe(p, s, t)

\* What the library does on its behalf until the call returns.
Wakes(p) == WaitWakes(p) \/ WaitanyWakes(p) \/ ProbeWakes(p)

Step(p) ==
  \/ Call(p) \/ Waitany(p) \/ Peek(p)
  \/ Transfer(p) \/ NotifyDone(p) \/ Leave(p)
  \/ Wakes(p)

Next == ~exited /\ \E p \in Procs : Step(p)

Spec == Init /\ [][Next]_vars

\* A process inside the library keeps running, and one whose condition variable
\* was signalled wakes up.  Nothing makes a program call, and no process may rely
\* on a spurious wakeup.
Fairness ==
  \A p \in Procs :
    /\ WF_vars(~exited /\ Transfer(p))
    /\ WF_vars(~exited /\ NotifyDone(p))
    /\ WF_vars(~exited /\ Leave(p))
    /\ WF_vars(~exited /\ signal[p] /\ Wakes(p))

FairSpec == Spec /\ Fairness

-----------------------------------------------------------------------------
(* The abstract specification this one implements                          *)

Pair(c) == [msg |-> cookie[c].msg, recv |-> cookie[c].recv]

Promise == INSTANCE Rendezvous WITH
  sent    <- [d \in Procs |-> [k \in DOMAIN inbox[d] |-> cookie[inbox[d][k]].msg]],
  awaited <- [d \in Procs |-> [k \in DOMAIN outbox[d] |-> cookie[outbox[d][k]].recv]],
  moving  <- {Pair(Current(p)) : p \in {q \in Procs : pc[q] = "transfer"}},
  done    <- outcome

-----------------------------------------------------------------------------
(* Properties                                                              *)

TypeOK ==
  /\ inbox      \in [Procs -> Seq(Cookies)]
  /\ outbox     \in [Procs -> Seq(Cookies)]
  /\ pending    \in [Procs -> SUBSET Cookies]
  /\ free       \in [Procs -> SUBSET Cookies]
  /\ cookie     \in [Cookies -> CookieRecords]
  /\ used       \in [Cookies -> Int]
  /\ busy       \in [Cookies -> Int]
  /\ waitingFor \in [Procs -> {"not_waiting", "incoming", "any_cookie", "cookie"}]
  /\ waiting    \in [Procs -> Cookies \cup {NoCookie}]
  /\ signal     \in [Procs -> BOOLEAN]
  /\ pc         \in [Procs -> {"idle", "transfer", "notify", "wait", "wait_any", "probe", "leave"}]
  /\ slot       \in [Procs -> 0..Slots]
  /\ ret        \in [Procs -> {MPI_SUCCESS, MPI_FAIL}]
  /\ want       \in [Procs -> [src: Sources, tag: RecvTags]]
  /\ reqs       \in [Procs -> [Requests -> Cookies \cup {NoCookie}]]
  /\ exited     \in BOOLEAN
  /\ posted     \in [Procs -> 0..MaxPosted]
  /\ lost       \in [Cookies -> Nat]
  /\ probed     \in [Procs -> [cookie: Cookies \cup {NoCookie}, src: Sources, tag: RecvTags]]
  /\ outcome    \subseteq [msg: Messages \cup {NoMsg}, recv: Receives \cup {NoRecv},
                            err: {MPI_SUCCESS, MPI_FAIL}]

\* The request variables that hold cookie c.
Refs(c) == {r \in Procs \X Requests : reqs[r[1]][r[2]] = c}

\* cookie::used_ counts the request variables that hold the cookie, and those
\* that went out of scope in a failed blocking call; it never lags behind them,
\* whichever processes join and leave in between.
RefCount == \A c \in Cookies : used[c] = Cardinality(Refs(c)) + lost[c]

\* A cookie somebody holds is in one of the lists of requests in progress: it is
\* neither on a free list nor back in the pool, so no new request can take its
\* place while its holder, or the process that moves its data, still uses it.
HeldIsLive == \A p \in Procs : \A i \in Active(p) : \E d \in Procs : InBox(reqs[p][i], d)

\* The cookies in the list of process d of kind b.
Lists == {"inbox", "outbox", "pending", "free"}

Members(b, d) ==
  CASE b = "inbox" -> ToSet(inbox[d]) [] b = "outbox" -> ToSet(outbox[d])
    [] b = "pending" -> pending[d]    [] b = "free" -> free[d]

\* A cookie is spliced from list to list: it is never in two lists, of one
\* process or of two, nor twice in one.
OnePlace ==
  /\ \A d \in Procs : IsInjective(inbox[d]) /\ IsInjective(outbox[d])
  /\ \A a, b \in Lists, d, e \in Procs :
       Members(a, d) \cap Members(b, e) # {} => a = b /\ d = e

\* recv_match and send_match agree with each other and with the meaning of a
\* match: no message waits in the inbox of a process beside a posted receive that
\* accepts it, whichever of the two came first.
NoMissedMatch ==
  \A d \in Procs : \A j \in DOMAIN inbox[d], k \in DOMAIN outbox[d] :
    ~ Promise!Accepts(cookie[outbox[d][k]].recv, cookie[inbox[d][j]].msg)

\* The processes that have matched c and not yet told its owner.
Movers(c) == {p \in Procs : pc[p] \in {"transfer", "notify"} /\ Current(p) = c}

\* A cookie is busy exactly as long as it is unmatched or its matching process,
\* of which there is exactly one, is still moving the data.
OneMover ==
  \A d \in Procs :
    /\ \A c \in ToSet(inbox[d]) \cup ToSet(outbox[d]) : busy[c] = 1 /\ Movers(c) = {}
    /\ \A c \in pending[d] : \/ busy[c] = 1 /\ Cardinality(Movers(c)) = 1
                             \/ busy[c] = 0 /\ Movers(c) = {}

\* MPI_Wait and MPI_Test complete a request only after the data of its message
\* has been moved, and report the error of the transfer if it failed.  MPI_Test
\* decides so without taking the mutex.
DoneBeforeReturn ==
  \A p \in Procs : pc[p] = "leave" =>
    [msg |-> cookie[Current(p)].msg, recv |-> cookie[Current(p)].recv,
     err |-> cookie[Current(p)].err] \in outcome

\* The status a completed request reports names the sender and the tag of the
\* message it was matched with, on both sides.
StatusCorrect ==
  \A p \in Procs : pc[p] = "leave" =>
    /\ cookie[Current(p)].src = cookie[Current(p)].msg.from
    /\ cookie[Current(p)].tag = cookie[Current(p)].msg.tag

\* A process reclaims its pending cookies whenever it finishes a request of its
\* own: what stays unused in its list was created by another process.
OwnGarbageReclaimed ==
  \A d \in Procs : \A c \in pending[d] : used[c] = 0 => cookie[c].owner # d

\* The message a probe reported is the one the next receive with the same
\* arguments gets, whatever arrives in between.
ProbedIsNext ==
  \A p \in Procs :
    LET q == probed[p] IN
    q.cookie # NoCookie =>
      \E k \in Incoming(p, q.src, q.tag) :
        IsFirst(k, Incoming(p, q.src, q.tag)) /\ inbox[p][k] = q.cookie

\* Every step of the library is one of the abstract specification: requests meet
\* in the order they were posted, whatever becomes of the cookies.
ImplementsPromise == Promise!Spec

\* Messages and receives do not overtake each other.
InOrder == Promise!MessagesInOrder /\ Promise!ReceivesInOrder

\* No message is received twice and no receive served twice.
MetOnce == Promise!MetOnce

\* The cookie of a matched pair is not reset, and once its transfer is over not
\* changed at all, as long as one of the two processes still holds it: both read
\* its status and error without a mutex.
StableWhileHeld ==
  [][\A p \in Procs : \A i \in Active(p) :
       LET c == reqs[p][i] IN
       reqs'[p][i] = c /\ cookie[c].msg # NoMsg /\ cookie[c].recv # NoRecv
         => /\ Pair(c)' = Pair(c) /\ cookie'[c].owner = cookie[c].owner
            /\ busy[c] = 0 => cookie'[c] = cookie[c]]_vars

\* The owner of a matched request returns from MPI_Wait, even with no spurious
\* wakeup: notify_done does not miss it.
WaitReturns ==
  \A p \in Procs :
    pc[p] = "wait" /\ (\E d \in Procs : waiting[p] \in pending[d]) ~> pc[p] = "idle" \/ exited

\* A process blocked in MPI_Probe returns once a message it asks for is there.
ProbeReturns ==
  \A p \in Procs :
    pc[p] = "probe" /\ Incoming(p, want[p].src, want[p].tag) # {} ~> pc[p] = "idle" \/ exited

\* A process blocked in MPI_Waitany returns once one of its requests is done.
WaitanyReturns ==
  \A p \in Procs : pc[p] = "wait_any" /\ Finished(p) # {} ~> pc[p] # "wait_any" \/ exited

=============================================================================
