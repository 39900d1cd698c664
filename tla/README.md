# A specification of umpi

umpi is a small MPI implementation for one machine: `mpiexec` forks the ranks,
which communicate through one shared memory map and move payloads with
`process_vm_readv` and `process_vm_writev`.  These modules describe in TLA+ how
requests, collectives, datatypes, the shared pool and the life of a job work,
check them with TLC on small instances, and prove the invariants of point-to-point
communication, its refinement of an abstract specification, the counts of shared cookies,
the soundness of the pool and of the layouts in it, and the safety of a job's start and end
with TLAPS for instances of every size.

Paths are relative to the root of the source tree; `umpi.cc:1097` is a line.

## 1. The system

| component | state | operations | interacts with | hard because |
|---|---|---|---|---|
| **Point-to-point requests** (`struct cookie`, `class process`; umpi.cc 415-604, 1087-1354) | per process: mutex, condition variable, lists `inbox_`, `outbox_`, `pending_`, `free_`, `waiting_`, `waiting_for_`; per cookie: owner, buffer, tag, source, `err_`, `used_`, `busy_` | `MPI_Issend`, `MPI_Irecv` and their blocking forms, `MPI_Wait`, `MPI_Test`, `MPI_Waitany`, `MPI_Probe`, `MPI_Iprobe` | a sender works on the receiver's lists; the process that matches a cookie moves the data and notifies its owner; cookies come from the pool | two processes share a cookie and release it at different times; the data moves outside of every mutex; wakeups; wildcards |
| **Collective operations** (`class collect`, `shared::get_current_slot`; umpi.cc 613-1085) | 16 slots: mutex, ticket, joined count, a box of cookies, the displacements of a gatherv, two scratch buffers; per process the next ticket | `MPI_Ibcast`, `Igather(v)`, `Iscatter`, `Iallgather`, `Iallreduce`, `Iscan`, `Iexscan` and their blocking forms | cookies are created from and pend in the owner's lists; completed with `MPI_Wait`/`MPI_Test` | any arrival order; slots reused every 16 tickets; the root's cookie is shared by many |
| **Datatypes and data transfer** (umpi.cc 174-275, 471-604) | layouts (`umpi_iovec` arrays) | `MPI_Type_*`, `umpi_copy`, the iovec lists of `read_from_owner`/`write_to_owner` | every transfer | sizes, strides, rounding |
| **Committed datatypes** (umpi.cc 277-313) | the shared list `commited_` | `MPI_Type_commit`, `MPI_Type_free` | pool, all processes | interning under a mutex while the layouts are in use |
| **Memory pool** (memory_pool.hh, pool_allocator.hh, based_ptr.hh) | bump pointer, one free list per size class | `alloc`, `dealloc` | every shared list | exhaustion, alignment, a list threaded through the blocks |
| **Start, barrier, shutdown** (umpi.cc 86-157, 322-352; ipc.hh) | barrier | `MPI_Init`, `MPI_Barrier`, `MPI_Finalize` | launcher | a rank that never arrives |
| **mpiexec** (mpiexec.cc) | child processes, shared file | fork, exec, wait, cleanup | ranks | failures half way, signals |
| reductions, packing, `mpicc`, communicators, queries | none shared | | | sequential; left out |

What would make each of them correct:

* *Point-to-point*: every message meets the first receive that accepts it and
  conversely, exactly once; nothing completes before its data has been moved;
  status and error are those of the pair; a cookie is reused only when nobody
  holds it and is reused eventually; who sleeps is woken.
* *Collectives*: every process leaves with the data of the same ticket; no slot is
  reused while it is in use; every request completes; counts of shared cookies
  are right.
* *Datatypes*: the bytes a transfer moves are those the type map names, on both sides.
* *Committed datatypes*: equal layouts are one, and a committed layout never moves.
* *Pool*: blocks handed out are disjoint, aligned and inside the map.
* *Start and shutdown, mpiexec*: all ranks start and stop together, and a failed rank
  takes the others and the shared file with it.

The hazards found while reading, each at its line, are in `PROJECT.json`.

## 2. The modules

    Rendezvous            what point-to-point communication promises  <- RendezvousProofs
      ^ implemented by
    PointToPoint          cookies, lists, counts, transfers, sleeping
      ^                   ^
    MCPointToPoint        PointToPointProofs   <- PromiseProofs
    (TLC)                 (TLAPS)

    Collective            slots, tickets, shared cookies, todo lists, reductions
      ^                   ^
    MCCollective          CollectiveProofs     <- CompletionProofs
    (TLC)                 (TLAPS)

    MemoryPool            the allocator, as operators
    Datatypes             constructors and iovec lists, as operators
      ^
    Layouts               committed layouts, cookies that point to them, transfers, one pool
      ^                   ^
    MCLayouts             LayoutsProofs
    (TLC)                 (TLAPS)

    Launcher              mpiexec, the ranks' start and end, the barrier
      ^                   ^
    MCLauncher            LauncherProofs
    (TLC)                 (TLAPS)

    SequenceLemmas        lemmas about RemoveAt, Append, Tail, sorting and images of sequences, for the proofs

How they fit: `Transfer` of PointToPoint and `Deliver` of Collective succeed or fail by
choice; Layouts says which bytes a success moves, and when a failure happens.  A cookie is a
model value in the first two modules and a block of the pool in Layouts.  The two `exited` flags
of the request modules are what `Exits` of Launcher is to the others.  The request modules start
when all ranks are through `MPI_Init`, which `BarrierTogether` of Launcher justifies.

### Rendezvous

The abstract specification: per process the messages nobody has received and the
receives nobody has answered, both in order; a set of pairs that have met, and of
pairs whose data has been moved.  `Send` and `Recv` meet the *first* acceptable
counterpart or queue; `Move` moves the data of one pair, or fails to.

### PointToPoint

State and code:

| variable | code |
|---|---|
| `inbox`, `outbox` | `process::inbox_`, `outbox_`: sequences, since their order decides the match |
| `pending`, `free` | `process::pending_`, `free_`: sets, since nothing depends on their order |
| `cookie` | the fields `owner_`, `src_`, `tag_`, `err_`; `buf_`, `count_` and `iovec_` are represented by the message and the receive the buffer belongs to |
| `used`, `busy` | `cookie::used_`, `busy_` |
| `waitingFor`, `waiting` | `process::waiting_for_`, `waiting_` |
| `signal` | whether `cond_` has been signalled since the process went to sleep |
| `pc`, `slot`, `ret`, `want` | where a process is in the library, and the local variables of the call |
| `reqs` | the program's `MPI_Request` variables |
| `exited` | the job has been brought down |
| `posted`, `lost`, `probed`, `outcome` | history only: no guard but the bound `MaxPosted` reads them |

An action is one critical section of a process mutex, or one step outside of any:

| action | code |
|---|---|
| `IssendMatched`, `IssendPosted` | `process::send_request` up to the unlock |
| `IrecvMatched`, `IrecvPosted` | `process::recv_request` up to the unlock |
| `PoolExhausted` | `memory_pool::alloc` exits |
| `Transfer` | `cookie::read_from_owner` / `write_to_owner` up to `notify_done`: success or failure is nondeterministic |
| `NotifyDone` | `process::notify_done` and the return from the posting call |
| `Wait`, `WaitWakes` | `MPI_Wait`, `process::wait` |
| `Test` | `MPI_Test`, which reads `busy_` without a mutex |
| `Waitany`, `WaitanyWakes` | `MPI_Waitany`, `process::wait_any(count, cookies)` |
| `Leave` | `process::finalize` and the return from the completing call |
| `Iprobe`, `Probe`, `ProbeWakes` | `MPI_Iprobe`, `MPI_Probe`, `process::find_any`, `wait_any(source, tag)` |

Choices worth knowing:

* A blocking call (`MPI_Recv`, `MPI_Ssend`) is a posting call followed by `Wait`, except
  when the transfer fails: then it returns with its request variable out of scope.
  `NotifyDone` has a disjunct for that; `lost` counts those references.
* `Sleeps` clears `signal`, and a `Wakes` action may run without a signal: spurious
  wakeups are possible.  Fairness never relies on them.
* The search of `MPI_Probe` continues where it stopped when it is woken; only the process
  itself removes from its inbox and it is asleep, so starting over finds the same cookie.
* Arguments that MPI_Issend and MPI_Irecv reject change no state and are left out.
* `Asked` is the set of tags that receives and probes name: all tags and `MPI_ANY_TAG` (`EveryTag`), or fewer
  to bound a run.
* Definitions standing before the one they resemble (`SendMatchAnyTag` before
  `SendMatch`) are deliberate slips.  No action uses them: each shows, put in place of
  the original, that a property notices it.

### The proof modules

`PromiseProofs` extends `PointToPointProofs` and ends in the refinement; `CompletionProofs` extends `CollectiveProofs`;
`RendezvousProofs`, `LayoutsProofs` and `LauncherProofs` are about their own modules; see section 5.

### Collective

The slots of the collectives and the cookies that go through them.  Both this module and
PointToPoint model cookies, `finalize`, `notify_done` and `create_request`: each keeps of
them what its own operations can tell apart.  A collective cookie never enters an inbox
or an outbox, and its owner's lists are only ever scanned for unused cookies, so that the
two do not disturb each other except for the size of the free list and the pool.

| variable | code |
|---|---|
| `slots` | `shared::slots_`: `ticket_`, `joined_`, `box_`, whether `mutex_` is held between two actions, `sendbuf_`, `recvbuf_`, and for `displs_` the call whose root filled it last |
| `ticket` | `umpi->ticket` of each process |
| `pending`, `free`, `cookie`, `used`, `busy` | as in PointToPoint; a cookie's buffer is named by its owner and the call |
| `todo` | the local list `todo` of a root, or of the last process of an allgather, allreduce or scan |
| `pc`, `call`, `at`, `seen` | where a process is, and the local variables of the call; `seen` is a value of `used_` that it has loaded and not yet stored |
| `reqs` | the program's request variables, one per call |
| `program` | the sequence of collective calls, chosen at the start and the same for every process, as MPI demands |
| `buf` | whose data a buffer holds |
| `lost` | history: references that went out of scope |

| action | code |
|---|---|
| `LeafPosts` | a process other than the root that finds no root's cookie: the second half of `bcast_request`, `gather_request`, `gatherv_request`, `scatter_request` |
| `LeafJoins`, `JoinStores` | their first half up to the unlock; split where `join()` loads and stores `used_` |
| `RootPosts`, `RootLast` | `root_*_request` up to the unlock |
| `ExchangeFirst`, `ExchangeMiddle`, `ExchangeLast`, `ExchangeFails` | `allgather_request` and `allreduce_request` up to the unlock, with the transfer from or to another process that happens under the slot's mutex; or up to the return with the mutex locked |
| `InplacePosts`, `InplaceLast` | `allreduce_request` with `MPI_IN_PLACE`, which adds up in the slot's buffers |
| `ScanPosts`, `ScanRejects` | `scan_request`, `exscan_request` up to the unlock, with the sort of the last process; or the return with the mutex locked when the buffer is too long |
| `Serve` | one `move_to_pending` of the loops over `todo` |
| `Deliver`, `DeliverFails` | `read_from_owner` or `write_to_owner` with `notify_done`; and the return on error |
| `ScanReads`, `ScanWrites` | the two transfers of the last process of a scan for each cookie |
| `Wait`, `Leaves`, `Leave` | `MPI_Wait`; `finalize`, split where `used_--` loads and stores |
| `Exits` | `get_current_slot` finds the slot taken, or the pool is empty |

Choices worth knowing:

* A scatter has the control flow of a bcast and differs in the part of the buffer each process
  gets; the model lets `bcast` stand for both.
* Data is the set of processes whose contribution it holds.  `Plus` of sets that overlap is `Spoilt`: a
  reduction that counts a contribution twice is as wrong as one that leaves it out.  The operators
  are the commutative ones, so the order of an allreduce does not matter; a scan's order is by rank.
* Each block of a gather is one element.  With longer blocks a root that comes late reads to the wrong
  place; see Layouts.
* `Programs` is the set of operation sequences a run explores.
* `AtomicCounts` says whether an update of `used_` is one step.  `join()` runs under the slot's mutex
  and `finalize` under the owner's, so nothing in the code makes it so (`Coll_race`).  With
  `TRUE` the runs show what else the code gets right once that is repaired.
* `Outcomes` says how transfers may end.
* A waiting process blocks until its cookie is no longer busy; that it is woken is checked in
  PointToPoint, whose `wait` and `notify_done` are the same functions.
* Slot mutexes are held across two actions only in `LeafJoins`, and for good after `ExchangeFails` and
  `ScanRejects`.

### MemoryPool, Datatypes and Layouts

`MemoryPool` has the state of the allocator as a record and its operations as operators, each the body
of one critical section of `memory_pool::mutex_`:

| operator | code |
|---|---|
| `Listed`, `CanAlloc`, `Address`, `Allocated`, `BehindFirst` | `alloc` and `pop`: the head of the list of that size, or the front of the space |
| `Deallocated`, `Linked` | `dealloc` and `push`, which writes the link into the block |

The unit is `align_size`, which holds two words, and every block is a whole number of units, as the code rounds it.
Memory is explicit: the links of free blocks, layouts and cookies share the same words, so that a block
which is still used after it was given back, or given back twice, shows.

`Datatypes` represents a type as the array of `umpi_iovec` the code builds (`layout`), next to what the same
constructor means in MPI (`bytes`, the displacements of its bytes in order, and `extent`), which no
operator of the code's side reads.  `Contiguous`, `Struct` (for `create_struct` and
`create_hindexed`) and `Resized` are the constructors.  `WriteToOwner` and `ReadFromOwner` build the two iovec
lists and pair off their bytes as the system call does; the result has the error, the pairs of
places moved and the new `count_`.

`Layouts` puts them to use:

| variable | code |
|---|---|
| `pool`, `memory` | `shared::pool_state_`, the bytes of the pool |
| `live` | history: the blocks handed out and not given back |
| `lock`, `fresh` | `shared::mutex_`, and the local variable `tmp` of `commit` |
| `committed` | `shared::commited_` |
| `handle` | the `MPI_Datatype` variable of each process |
| `requests` | cookies that are posted or done, with their `iovec_` and count, their `owner_` and their host, the process in whose lists they are |
| `spare`, `surplus` | `process::free_`, and what `erase` in `finalize` still has to give back |
| `job`, `made`, `posted` | which types and requests the programs use, and how far they are |
| `exited` | the pool was exhausted |

| action | code |
|---|---|
| `Create`, `Free` | the constructors; `MPI_Type_free` |
| `CommitFinds` | `shared::commit` when an equal layout exists |
| `CommitStores`, `CommitLinks` | otherwise: the allocation and copy, then `emplace_front`, which allocates again; others may use the pool between the two but not the list |
| `Post` | `process::create_request` of any operation; a message that is sent takes a cookie of the receiver's, under its mutex |
| `Move` | the transfer by the process that comes later: `send_request`, `recv_request`, and the calls of `read_from_owner` and `write_to_owner` in bcast, gather and scatter, with their `seek` and `skip` |
| `Finish`, `Erase` | `process::finalize`, called for a cookie its process owns, of the unused cookies in its own lists; one deallocation of its `erase` |
| `Exhausted` | `alloc` exits |

Choices worth knowing:

* `JobsAssumption` asks that the layout of every type says itself how long it is (`IsLayout`): one element, or as many
  parts as the first element counts.  In the pool that is all there is to tell its length, as `umpi_iovec::size`.
* `Found` is the set of places in the list with an equal layout; `CommitFinds` takes the first, as the search does.
* Only one process moves the data of a request, and which is `MetOnce` and `OneMover` of PointToPoint and
  `BusyExact` of Collective.  `Move` takes any pair that may meet.
* A cookie is in the lists of its `host`, which is not its `owner` when a message was sent before it was asked for; messages to
  oneself are left out.  `finalize` runs on the owner of a cookie that is let go, and finds the unused ones of which the
  owner is the host: at most one of its own, and as many of others' as have been left behind.  Who has let go of a
  request is not in the model: any that are done may be unused.
* The `extent` of a struct is the span of its elements; MPI's also has padding for alignment, which types of bytes and
  shorts at the displacements used do not need.  The code's stride counts from displacement 0, so a type whose
  first byte is elsewhere is outside of the instance.
* The predefined types lie in `struct shared`, outside of the pool.
* `Regular` states which transfers must put the data right.  It leaves out two cases.  A
  receiver that gets a fraction of its elements: the read path rounds down (umpi.cc:562), the
  write path moves all bytes and rounds the count.  And a gather with blocks of more than one element
  whose root comes after the process that sends: `root_gather_request` passes `pending->src_` as the place in
  the buffer (umpi.cc:947) where the process that comes later uses its rank times the count (922).  With
  blocks of two elements and the root late, `ArrivesIntact` is violated at once when `Regular` is weakened.
* `MPI_Type_contiguous` of two or more elements of a scattered type repeats the displacements of the first
  (umpi.cc:191); data of such a type goes to and comes from the first element only, over and over.  The types of the instance have
  one repetition of a scattered type; with two, `ArrivesIntact` is violated.

### Launcher

| variable | code |
|---|---|
| `mpiexec` | where `main` of mpiexec.cc, or its handler `cleanup`, is |
| `verdict` | how mpiexec ended |
| `forked`, `file` | the loop variable; whether the file behind the map has its name |
| `life`, `status` | per rank: unborn, forked, started (exec done), built (`struct process` constructed), waiting or inside (in or between barriers), outside (after `MPI_Finalize`), zombie, reaped; its exit status |
| `barrier`, `round`, `calls` | `ipc::barrier`: the processes inside and the completed rounds; the round a rank waits for; how often it has called |
| `signals` | bound on signals sent to mpiexec |

| action | code |
|---|---|
| `Forks`, `ForkFails`, `InstallsHandlers`, `Reaps`, `RunsOut` | `main` of mpiexec, in its order |
| `Kills`, `Removes` | `cleanup`: SIGTERM to the process group, then the file is removed |
| `Signalled` | SIGTERM or SIGINT to mpiexec, before or after the handlers are installed |
| `Execs`, `NeverExecs` | the child |
| `Builds`, `Enters`, `Passes` | `MPI_Init`, `MPI_Barrier`, `MPI_Finalize` |
| `Exits`, `Crashes` | the program ends, `MPI_Abort`, an `exit(1)` of the library; a signal |

The barrier is the process-shared pthread barrier of ipc.hh: it releases a round once `Size` processes have entered, and
a rank that dies inside stays counted.  `GroupLeader` says whether mpiexec leads its process group,
which `kill(-getpid(), ...)` takes for granted.  Under a job control shell it does; started by another program it need
not, and then a failed rank leaves the others behind.

## 3. What TLC checks

The MC modules add the symmetry of cookies and processes, the programs, types and exit codes of an instance.
No liveness run uses symmetry, and no run with scans permutes processes, whose ranks it compares.

| run | instance | shows |
|---|---|---|
| `P2P_matching` | 2 processes, 4 cookies, 2 requests each, tags {0, 1}, both wildcards | no match is missed, nothing overtakes, nothing is matched twice, and every step is a step of Rendezvous |
| `P2P_requests` | 2 processes, 2 cookies, 2 requests each, MPI_Wait, MPI_Test and MPI_Waitany | types, reference counts, lists, one mover per busy cookie, completion only after the data moved, the status of both sides; cookies go through free lists and pool, the pool runs out, garbage of a process's own is reclaimed, no cookie is reset under its holder, and reuse is invisible to Rendezvous |
| `P2P_progress` | 2 processes, 2 cookies, 2 requests each, probes, fair | the probed message is the one received next; MPI_Wait and MPI_Probe return without a spurious wakeup |
| `P2P_waitany_sleep` | 2 processes, 1 request each, MPI_Waitany, fair | **violated**: a process asleep in MPI_Waitany is not woken |
| `P2P_waitany_index` | 3 request variables | **violated**: MPI_Waitany completes a busy request |

| run | instance | shows |
|---|---|---|
| `Coll_calls` | 3 processes, 2 calls, 2 slots, 5 cookies; 24 pairs of all eight operations | each call completes with its data at every process, no buffer is used after its owner has completed, `busy_` and `used_` are exact and no cookie is recycled under a request |
| `Coll_failures` | 3 processes, 1 call of any operation, transfers may fail | the counts of all cookies still in a list are exact on the error paths |
| `Coll_progress` | 2 processes, 2 calls, 1 slot, all pairs of five operations, fair | a slot is never opened for a call before all have made the one before; unless the job exits at such a slot, all processes complete all calls, in whatever order they wait for them |
| `Coll_race` | 3 processes, 1 bcast, counts not atomic | **violated**: `used_` loses an update |
| `Coll_displs` | 2 processes, 3 gathervs, 2 slots | **violated**: a displacement is read from a slot that a later gatherv has refilled |

| run | instance | shows |
|---|---|---|
| `Layouts` | 2 processes, 806 jobs, a pool of 17 units | the pool stays whole: every unit handed out is in one block, in use or in one list; equal layouts are one and stay as they were while anybody points to them; whatever pair of types two sides use, in a message, bcast, gather or scatter, and whichever side moves the data, every byte goes to its place; a message that fits is not refused, and one that does not moves nothing |
| `Launch` | 3 ranks, 1 MPI_Barrier, 2 signals, exit codes 0, 1, 256, fair | nobody passes a barrier before all have come; success means that all ranks ended well; the file is there for a late rank and gone in the end; every job ends, except in the ways the property names |

Bounds of the point-to-point runs.  `MaxPosted` bounds the requests a process posts; two per process give
every order of two sends against two receives, with both wildcards and self-messages.  `P2P_matching`
has a cookie for each of four unmatched requests; `P2P_requests` has two for the same four, enough for two
matched pairs at a time, so that cookies are recycled while other requests are alive, and the pool runs out.
`Trigger` = 1 makes `finalize` return blocks to the pool at two free cookies.
`P2P_progress` has one tag, and `Asked` leaves `MPI_ANY_TAG` out: a probe tells sources apart, and with one tag
the wildcard finds the same cookies.
`Slots` bounds the request variables: three are needed for the index error (null, busy, done), so
that the other runs, with two, show that the rest holds in spite of it.  No action compares ranks:
two processes exercise every pair, and the proofs cover more.  The runs state `CHECK_DEADLOCK FALSE`:
a program that has posted all it wants, or waits for a message nobody sends, stops.

Bounds of the collective runs.  Three processes are the fewest with a first, a middle and a last one, and
with a root that is neither first nor last; a shared cookie then has two joiners and an owner.
Two calls let a fast process be in the next call while a slow one is in this.  The programs of `Coll_calls` are
the pairs of operations at distance 0, 1 and 3 in a cycle of eight (`Pairs`): each operation is followed by itself, and
every kind of leftover in a slot is met by two other kinds.  With as many slots as
calls no slot is reused (`Coll_calls`); with one slot, every call reuses it and a process that is a
call ahead may find it taken (`Coll_progress`); `Coll_displs` needs a third call to go round a ring of two.
The real ring has 16 slots: nothing depends on the number but how far ahead a process gets.
Five cookies serve two calls of three processes, of which a scan takes three each, with reuse since
`Trigger` = 1 keeps freed cookies in the free list; when they run out the job exits.  `Coll_failures` makes one call only: a cookie
in a `todo` list that an error destroys is deallocated while its owner still holds it, and what a later call
makes of that block is undefined.  `CHECK_DEADLOCK FALSE`: the program ends, and after a failed allgather
the slot stays locked.

Bounds of `Layouts`.  A job is two types to construct, the requests to post, and the predefined types in use.  800 jobs
have one request of any operation and direction, counts 1 or 2 on either side, and any two of six types: contiguous
bytes, parts with a gap, a byte with a gap behind it, parts out of order, the same resized, and one repetition of a
scattered type; byte and short come with them.  That covers contiguous against scattered on both sides, lists that end in the
middle of a part, buffers with several blocks and a rank above 0.  Six jobs have three requests: all receives, all
sends, or a send between two receives.  There a process keeps its own cookies and those of others, cookies go through the
spare list (`Trigger` = 1) and the pool's lists, and their blocks are used for layouts, as a cookie has four units, like a
layout of two parts.  The pool of 17 units runs out in some orders.  `IovMax` = 4 lets a transfer of four parts
pass and one with more fail, as `IOV_MAX` does at 1024.  The programs may stop anywhere: no deadlock check.

Bounds of `Launch`.  Three ranks are one that fails, one in the barrier and one not yet forked; one barrier next to those of
`MPI_Init` and `MPI_Finalize` shows a rank a whole round ahead.  The second signal arrives during cleanup.  A job that is
down stops.

Fairness of `Coll_progress` (`FairSpec` of Collective): a process that can take a step eventually takes
one.  Its program makes all its calls and waits for each, in some order it chooses: MPI demands that of a
program.  The operating system's scheduler justifies the rest.

Fairness of `P2P_progress` (`FairSpec` of PointToPoint): a process inside the library keeps running (`Transfer`, `NotifyDone`,
`Leave`), which the operating system's scheduler justifies, and one whose condition variable
was signalled wakes up (`pthread_cond_signal` with one sleeper).  Nothing makes a program call
anything.

Fairness of `Launch` (`FairSpec` of Launcher): mpiexec always runs on, since its only wait is for its children.  A rank runs
on only as long as every rank is well: one that failed may have held a mutex or be missing in the barrier.
`AllDown` excepts jobs in which mpiexec died of a signal before it had handlers, a fork failed (the ranks
forked before are left to themselves), or a rank left early with status 0, which nobody notices; a
multiple of 256 in `MPI_Abort` is such a status.  What happens in a program between its calls is no
concern of fairness: a rank `inside` goes on to its next call, as MPI demands.

## 4. Disagreements with the code's own words

* `MPI_Waitany` can sleep for ever.  `wait_any` sets `waiting_for_any_cookie`
  (umpi.cc:1174) and sleeps (1184), but `notify_done` signals only
  `waiting_for_cookie` (465).  A program is saved only by a spurious wakeup.
* `MPI_Waitany` with leading null requests returns another request than the one
  `wait_any` found (1235): it completes one that is in progress, or dereferences null.

* `join()` is said to need no lock as it is "usually done within locked boxes" (umpi.hh:119), but
  `finalize` decrements the same count under another mutex (umpi.cc:444).  With three processes in a
  bcast, one that has its data leaves while another joins, and one update is lost.
* `get_current_slot` exits with "too many outstanding requests." (umpi.cc:621) when a slot is in use, which it
  takes from its box.  A gatherv empties the box before it reads `displs_` of the slot (umpi.cc:978): a root
  that is a whole ring ahead refills `displs_` (992), and data lands at the wrong place with success
  reported on both sides.

## 5. What is proved

Every theorem is proved for all values of the constants that satisfy the assumptions of its module:
finite sets of processes and cookies without the special values, natural numbers as tags and bounds for PointToPoint; the
same with more than one process, ranks that number them, any number of slots and calls and any set of programs for Collective; any
number of ranks and barriers for Launcher; a pool of any size, any number of size classes, any types with proper layouts, and
cookies of any size that has a class for Layouts.

### Cookies and their references (`PointToPointProofs`)

* `TypeCorrect`, `RefCountCorrect`, `OnePlaceCorrect`, `HeldIsLiveCorrect`.

`TypeOK` is not inductive: `Current(p)` must be a cookie whenever `p` is past the posting or
completing call's first step, and a sleeper must wait for a cookie.  `TypeInv` adds `PcOK`, which
says so.  The other three come together as `OwnInv`: `OnePlace`, `RefCount` and
`UsedIsLive` (a cookie with references is in an inbox, outbox or pending list).  `HeldIsLive`
alone is not inductive: `finalize` looks at `used_` only, so one needs that `used_` counts the
holders (`RefCount`), and that a splice does not lose a cookie (`OnePlace`).  `create_request`
resets `used_` to 1, which is right only because what it takes is free or unallocated, hence
unused.  There is one lemma per action for each invariant.

### Movers and completion (`PointToPointProofs`, continued)

* `OneMoverCorrect`, `OwnGarbageReclaimedCorrect`, and the action property `StableWhileHeldCorrect`.
* `DoneBeforeReturnCorrect`, under `IndexHarmless`; `StatusCorrectCorrect`, under `IndexHarmless` and `TagsFit`.

The invariant is `MoveInv`: what each cookie stands for in each kind of list (`Contents`: a send, a receive,
or a pair of both), that a pending cookie is either busy with one mover or done with its outcome recorded (`OneEach`),
that a mover between transfer and notification has such an outcome (`Moved`), and that who holds another process's
cookie is its mover or was (`ForeignMoved`), which is why `MPI_Wait` need not look at `busy_` there.
`DoneInv` adds that a process which lets go of a request has one that is no longer busy.  `MPI_Waitany` breaks
that when it confuses its two indices, so it needs `IndexHarmless`: the program does not call `MPI_Waitany`, or
passes at most two requests.  `P2P_waitany_index` shows what happens otherwise.  The status names the right tag only if the
tag survives the 16 bits of `tag_`: `TagsFit` says that no tag exceeds 32767.

### Matching (`RendezvousProofs`, `PromiseProofs`)

* `NoMissedMatchCorrect`, under `TagsFit`; `ProbedIsNextCorrect`.
* `OrderKept`: what Rendezvous says keeps messages and receives in order and meets each once.
* `PromiseImplemented`, under `TagsFit`: `Spec => ImplementsPromise`, the refinement of Rendezvous.
* `InOrderCorrect`, `MetOnceCorrect`, under `TagsFit`.

`RecvAgrees` and `SendAgrees` relate `recv_match` and `send_match` to the one condition of Rendezvous; without `TagsFit`
they are false.  The order is proved of Rendezvous alone, with `OrderInv`: requests carry the right
addresses, are numbered in the order they were posted and queue in that order, no acceptable pair waits in the queues,
and each pair that met was first on both sides.  None of its parts mentions a cookie.

The refinement takes the messages of the inbox for `sent`, the receives of the outbox for `awaited`, the pairs of the processes
in `transfer` for `moving`, and `outcome` for `done`.  `IssendMatched` and `IssendPosted` are `Send`, `IrecvMatched` and
`IrecvPosted` are `Recv`, `Transfer` is `Move`, and everything else is a stutter: `Quiet` shows that completing, sleeping and
recycling leave the waiting requests alone.  `Move` takes one pair out of a set, so no two movers may carry equal pairs; that is
`Single`, the last invariant: no two cookies stand for one message.  `RendezvousProofs` instantiated by the same mapping (`Kept`)
then gives `InOrder` and `MetOnce`.  `SequenceLemmas` has what these proofs need to know of `RemoveAt`, `Append` and the
images of sequences.

### A job's life (`LauncherProofs`)

* `JobTypeCorrect`, `BarrierTogetherCorrect`, `SuccessIsRealCorrect`, `FileWhileNeededCorrect`.

`JobInv` relates four things: ranks are forked in order and all of them before mpiexec waits (`ForkOrder`);
the barrier counts the ranks of the current round that have entered, dead ones included, and no rank is more than a round
ahead (`BarrierInv`); mpiexec reports success only after it has reaped all with status 0 (`StatusInv`); the file lives until
all are past `MPI_Init` or the job is being brought down (`FileInv`).

### Collective calls (`CollectiveProofs`)

* `CollTypeCorrect`, `SlotMatchesCallCorrect`, `PlacedOnceCorrect`, for any number of processes, cookies, slots and calls, for any
  program, and whatever transfers fail.
* `RefCountCorrect`, `HeldIsLiveCorrect`, `BusyExactCorrect` and `BufferStillOwnedCorrect`, under `AtomicCounts` and
  `MPI_FAIL \notin Outcomes`.

The invariant `CollInv` has besides the types: what the local variables of a process hold at each place in the library (`CallInv`);
that whatever is held or listed has been created (`KnownInv`); that a cookie is in one list and there once (`PlacedOnce`), without
which a splice could lose one; that the slot of a process between the load and the store of `join()` is locked by it alone, with
the cookie it joins at the head (`JoinInv`); and the ring (`RingInv`).  `SlotMatchesCall` alone is not inductive: when a process
finds its slot empty, `joined_` starts at 1, which is right only if nobody has made the call before.  `RingInv` says so the other way
round: a call that some have made and others have not is that of its slot, which is not empty, or is locked.  From
it follows that a process that gets its slot finds there the cookies of its own call and counts itself right (`JoinedIs`).

Every action that opens a call is one case of the same step: a process takes its turn, creates at most one cookie, leaves some in the
slot and takes the others to serve them (`Entered`, `Created`, `WentOn`).  The lemmas `Entered...` prove each part of the
invariant for that step, and the lemma of each action shows only that it is one.  The steps outside a slot's mutex
(`Quiet...`) move cookies between lists.

`CountInv` adds `RefCount`, that no reference is lost, and that a cookie somebody holds is in use, which is in a list that
is not free.  Both hypotheses are needed.  With failures, the rest of a todo list is deallocated while the owners' requests still
hold the cookies (`GivesUp`).  Without atomic counts `RefCount` is false: `Coll_race`.

`BusyInv` is about `busy_`, and inductive only together with the two before.  Besides `BusyExact` it says where a cookie is while
somebody moves its data: with its owner's pending ones, or in the slot if its root waits there alone (`MoverInv`); that nobody else
is in a slot with a waiting root, and that in an allreduce the box holds all that have joined (`BoxInv`), without which the count
of those still to come would be wrong; that a todo list is of its process's call and pending cookies are with their owner
(`ListsInv`); and that a cookie in use and busy is still in its owner's request (`OwnerInv`).  The last part carries the argument for
`process::finalize`: a cookie that is recycled has `used_` 0, so nobody's request holds it (`RefCount`), so it is not busy, so
nobody is moving its data.  `WaitsFor` says of each operation what a cookie in a slot waits for, as a function of the box and
of `joined_`; the lemmas of the actions compare its value before and after (`EnteredExact`, `MoveExact`).  From `BusyInv`
`BufferStillOwned` follows at once: a cookie somebody works on is busy (`MoverBusy`).

### Who completes a call has its data (`CompletionProofs`)

* `CompletedCorrect`, under `AtomicCounts`, `MPI_FAIL \notin Outcomes` and `ScratchApart`, for every number of processes, every
  program of the operations, and every order in which the processes come.

`DataInv` says for each call what is in the buffers of those that have come (`DataOf`), and is inductive together with the three
invariants before.  With a root, what is not yet in the buffer it belongs to is to come (`ToCome`): root or leaf has not called, the
leaf shares the root's cookie, or the root has the leaf's cookie to serve (`RootedData`).  In an allgather the first one's buffer, in
an allreduce that of the last one, and with `MPI_IN_PLACE` the slot, has the data of exactly those that have come (`Made`);
once all have, only one process serves (`ServeInv`) and whoever has not got everything is in its list (`GatheredData`,
`ReducedData`).  In an allgather the one that serves must get the data itself before it hands it on, which it does because the first
cookie of its list is that of the process it reads from.  In a scan the slot has the sum of the ranks below the one that is served, the
list goes up the ranks without a gap (`AllRanks`: as many different ranks as there are processes, sorted, are all of them),
and nobody's buffer is written before it is read (`ScannedData`).  `Present` says where those that have come wait meanwhile.

From `DataInv` to `Completed` it takes `BusyExact`: a process that leaves `MPI_Wait` has a cookie that is no longer busy, so it is in
no box and no todo list, so its transfers are not to come.

A step is about one call (`OnlyCall`), and `OthersSame` shows that for all others nothing changes.  That is where
`ScratchApart` is needed: the slot is free as soon as its box is empty, but a leaf of a gatherv may still read `displs_` there
(umpi.cc:978) and the last process of a scan its partial sums, when the root of another gatherv or the first of an
`MPI_IN_PLACE` allreduce, `UMPI_OUTSTANDING_COLLECTIVE_OPERATIONS` calls later, overwrites them.  `ScratchApart` says that no program has
two such calls for the same slot.  It cannot be dropped: `Coll_displs` is the counterexample for gatherv.  The programs of
`Coll_calls`, which checks `Completed`, satisfy it.  TLC found no violation of `DataInv` for two and three processes that make two
calls through one slot, and two processes that make three calls through two slots, with all such programs of eight operations.

### The pool and the layouts in it (`LayoutsProofs`)

* `LayoutsTypeCorrect`, `PoolSoundCorrect`, `InternedCorrect`; the inductive invariant is `LayoutsInv`.

`PoolInv` says that each list of free blocks is linear (`Linear`: as many different blocks as it counts, then the null
link) and that the blocks in lists and in use tile the pool up to the space (`Tiling`).  The lists are given by a walk along
the links in memory (`Nth`), which a write anywhere might change.  What the proofs need of the walk, that it exists and that
it is the only one with its start and its steps (`WalkExists`, `FollowsUnique`), is shown with the least number for which
it would fail (`LeastNumber`, from the well-foundedness of the natural numbers).  From it follow `ListPopped`, `ListPushed`
and `ListKept`: what one change of the head or of a link makes of the whole list.  `AllocatesSound` and `GivesBackSound`
state what `alloc` and `dealloc` promise: the invariant, a block that was nobody's, and that every other block in use keeps
its contents, though the links lie in the blocks.

On top of it, `CookieInv`: each cookie is in one place only, a request, the spare ones of one process, or its surplus, and is
a block in use.  Without it `process::finalize`, which takes the cookies of several requests at once, could give the same
block back twice.  `ListInv`: each committed layout is in a block of its own that is no cookie (`SettledIn`), and no two are
equal.  `LockInv`: who holds `shared::mutex_` has stored a layout that is none of those in the list, which nobody can change before it is linked.  `HandleInv` and `RequestInv`: a
pointer leads to an entry of the list that is still the layout of the type.  `SettledKept` is what the actions have in
common: whatever they allocate or give back, a settled layout stays as it is, since a new block overlaps with none in use
and only cookies are given back.  With that, each action has its lemma.  `PoolSound` and `Interned` follow from `LayoutsInv`.

### Only model-checked

* Collective with failed transfers beyond types, slots and lists: that the counts of the cookies still in a list are right then, too
  (`Coll_failures`).
* `ArrivesIntact` and `AcceptsWhatFits` of Layouts: which bytes go where depends on what the constructors build and on the lists of
  pieces, which are flattened by recursion over data; and they hold for the types of the instance only (see `Regular` and
  `MPI_Type_contiguous` above).
* Liveness (`WaitReturns`, `ProbeReturns`, `AllReturn`, `AllDown`): beyond the prover.

## 6. Plan

Modelled: Rendezvous, PointToPoint, Collective with all its operations, MemoryPool, Datatypes, Layouts, Launcher.

What would add most next:

1. An abstract specification of a collective call (who contributed, what each leaves with), and Collective shown to implement it;
   `Completed` and `DataInv` are most of what the refinement needs.
2. `MPI_Test` on the requests of collective calls, and its proofs.

## 7. Not modelled

* `MPI_Test` on a collective request.  The root of a gather or an allgather that comes last borrows a cookie another process
  owns; `MPI_Test` reads its `busy_` as it does in PointToPoint.
* Calls that the root of a gather, gatherv or scatter rejects after it took its turn (umpi.cc:960, 1022, 1078): they return with the slot locked
  for good, as `ExchangeFails` and `ScanRejects` do.
* `MPI_Allgatherv` (a gatherv to every rank in turn, kept apart by barriers) and the blocking forms of collectives, which are
  compositions of calls that are modelled.
* Jobs of one process: there a root borrows the last of an empty list (umpi.cc:664), and an allgather waits for
  a notification nobody sends.  Collective assumes more than one.
* Blocks of different lengths in a gatherv, whose buffer size is the sum of the counts (umpi.cc:990), and `umpi_copy`, the same lists
  within one process.
* Types of no bytes, and types used before they are committed: erroneous, as their layout lies on one process's heap.
* The allocation of the map itself (arguments, `mkstemp`, `ftruncate`, `mmap`) and the environment of a program started
  without mpiexec: one process doing file I/O.
* Reductions' arithmetic and packing (sequential, on the caller's buffers), `mpicc` (runs the compiler),
  communicators and queries (argument checks around constants).
* Tags beyond 16 bits: the type of the field allows them to be sent and never matched (umpi.hh:130); the runs' tags fit.
