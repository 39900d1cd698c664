------------------------- MODULE PointToPointProofs -------------------------
(***************************************************************************)
(* Proofs about PointToPoint, for every number of processes, cookies,      *)
(* request variables and tags: the counting of references, what the        *)
(* cookies in the lists stand for, who moves their data, and what a        *)
(* completed request returns.                                              *)
(***************************************************************************)
EXTENDS PointToPoint, SequenceLemmas, FiniteSetTheorems, TLAPS

-----------------------------------------------------------------------------
(* Type correctness                                                        *)

\* A call in progress works on a request of its process.
PcOK ==
  \A p \in Procs :
    /\ pc[p] \in {"transfer", "notify", "wait", "leave"}
         => slot[p] \in Requests /\ reqs[p][slot[p]] \in Cookies
    /\ pc[p] = "wait" => waiting[p] = reqs[p][slot[p]]

TypeInv == TypeOK /\ PcOK

LEMMA Int16Type == \A t \in Int : Int16(t) \in Int
BY DEF Int16

LEMMA AnyTagType == AnyTag \in Int /\ Tags \subseteq Int /\ AnyTag \notin Tags
BY TagsAssumption DEF AnyTag

LEMMA AskedType == Asked \subseteq RecvTags
BY TagsAssumption DEF RecvTags

LEMMA TypeInit == Init => TypeInv
<1> SUFFICES ASSUME Init PROVE TypeInv
  OBVIOUS
<1> USE DEF Init, Requests, Sources, RecvTags
<1>1. <<>> \in Seq(Cookies)
  BY EmptySeq
<1>2. 0 \in 0..Slots /\ 0 \in 0..MaxPosted
  BY BoundsAssumption
<1>3. cookie \in [Cookies -> CookieRecords]
  BY DEF CookieRecords, MPI_SUCCESS
<1>4. /\ ret    \in [Procs -> {MPI_SUCCESS, MPI_FAIL}]
      /\ want   \in [Procs -> [src: Sources, tag: RecvTags]]
      /\ probed \in [Procs -> [cookie: Cookies \cup {NoCookie}, src: Sources, tag: RecvTags]]
  BY DEF NoWant, NoProbe
<1>5. TypeOK
  <2>1. /\ inbox \in [Procs -> Seq(Cookies)] /\ outbox \in [Procs -> Seq(Cookies)]
        /\ pending \in [Procs -> SUBSET Cookies] /\ free \in [Procs -> SUBSET Cookies]
    BY <1>1
  <2>2. /\ waiting \in [Procs -> Cookies \cup {NoCookie}]
        /\ reqs \in [Procs -> [Requests -> Cookies \cup {NoCookie}]]
    OBVIOUS
  <2>3. /\ slot \in [Procs -> 0..Slots] /\ posted \in [Procs -> 0..MaxPosted]
    BY <1>2
  <2>4. /\ used \in [Cookies -> Int] /\ busy \in [Cookies -> Int] /\ lost \in [Cookies -> Nat]
    OBVIOUS
  <2> QED  BY <1>3, <1>4, <2>1, <2>2, <2>3, <2>4 DEF TypeOK
<1>6. PcOK
  BY DEF PcOK
<1> QED  BY <1>5, <1>6 DEF TypeInv

\* The messages and receives that requests stand for.
LEMMA RequestTypes ==
  ASSUME TypeOK, NEW p \in Procs, NEW d \in Procs, posted[p] < MaxPosted
  PROVE  /\ \A t \in Tags : Message(p, d, t) \in Messages
         /\ \A s \in Sources, t \in RecvTags : Receive(p, s, t) \in Receives
<1>1. posted[p] + 1 \in 1..MaxPosted
  BY BoundsAssumption DEF TypeOK
<1> QED  BY <1>1 DEF Message, Receive, Messages, Receives

LEMMA CreatedType ==
  ASSUME NEW p \in Procs, NEW s \in Sources, NEW t \in RecvTags,
         NEW m \in Messages \cup {NoMsg}, NEW r \in Receives \cup {NoRecv}
  PROVE  Created(p, s, t, m, r) \in CookieRecords
<1>1. t \in Int
  BY AnyTagType DEF RecvTags
<1>2. Int16(t) \in Int
  BY <1>1, Int16Type
<1> QED  BY <1>2 DEF Created, CookieRecords, Sources, MPI_SUCCESS

LEMMA CreatesType ==
  ASSUME TypeOK, NEW p \in Procs, NEW i \in Requests, NEW d \in Procs, NEW c \in Cookies,
         NEW f \in CookieRecords, Creates(p, i, d, c, f)
  PROVE  /\ free' \in [Procs -> SUBSET Cookies]
         /\ cookie' \in [Cookies -> CookieRecords]
         /\ used' \in [Cookies -> Int]
         /\ busy' \in [Cookies -> Int]
         /\ reqs' \in [Procs -> [Requests -> Cookies \cup {NoCookie}]]
BY DEF TypeOK, Creates, Holds

LEMMA PostsType ==
  ASSUME TypeOK, NEW p \in Procs, posted[p] < MaxPosted, Posts(p)
  PROVE  posted' \in [Procs -> 0..MaxPosted]
BY BoundsAssumption DEF TypeOK, Posts

LEMMA JoinsType ==
  ASSUME TypeOK, NEW p \in Procs, NEW i \in Requests, NEW c \in Cookies, Joins(p, i, c)
  PROVE  /\ used' \in [Cookies -> Int]
         /\ reqs' \in [Procs -> [Requests -> Cookies \cup {NoCookie}]]
         /\ slot' \in [Procs -> 0..Slots]
         /\ pc' \in [Procs -> {"idle", "transfer", "notify", "wait", "wait_any", "probe", "leave"}]
BY BoundsAssumption DEF TypeOK, Joins, Holds, Counted, Requests

\* An action of process p leaves the calls of the others alone.
LEMMA PcFrame ==
  ASSUME TypeInv, NEW p \in Procs,
         pc' \in [Procs -> {"idle", "transfer", "notify", "wait", "wait_any", "probe", "leave"}],
         \A q \in Procs \ {p} : /\ pc'[q] = pc[q] /\ slot'[q] = slot[q]
                                /\ reqs'[q] = reqs[q] /\ waiting'[q] = waiting[q],
         pc'[p] \in {"transfer", "notify", "wait", "leave"}
           => slot'[p] \in Requests /\ reqs'[p][slot'[p]] \in Cookies,
         pc'[p] = "wait" => waiting'[p] = reqs'[p][slot'[p]]
  PROVE  PcOK'
BY DEF TypeInv, PcOK

LEMMA TypeIssendMatched ==
  ASSUME TypeInv, NEW p \in Procs, NEW i \in Requests, NEW d \in Procs, NEW t \in Tags,
         IssendMatched(p, i, d, t)
  PROVE  TypeInv'
<1> USE DEF TypeInv
<1>1. PICK k \in Awaited(d, p, t) :
        /\ outbox'  = Taken(outbox, d, k)
        /\ pending' = [pending EXCEPT ![d] = @ \cup {outbox[d][k]}]
        /\ cookie'  = MeetsSend(outbox[d][k], p, t, Message(p, d, t))
        /\ Joins(p, i, outbox[d][k])
  BY DEF IssendMatched
<1> DEFINE c == outbox[d][k]
<1>2. outbox[d] \in Seq(Cookies) /\ k \in DOMAIN outbox[d] /\ c \in Cookies
  BY MembersAre DEF TypeOK, Awaited
<1>3. outbox' \in [Procs -> Seq(Cookies)]
  BY <1>1, <1>2, RemoveAtProperties DEF Taken, TypeOK
<1>4. pending' \in [Procs -> SUBSET Cookies]
  BY <1>1, <1>2 DEF TypeOK
<1>5. posted[p] < MaxPosted /\ Posts(p)
  BY DEF IssendMatched, Posting
<1>6. cookie' \in [Cookies -> CookieRecords]
  <2>1. Message(p, d, t) \in Messages /\ Int16(t) \in Int /\ p \in Sources
    BY <1>5, RequestTypes, AnyTagType, Int16Type DEF Sources
  <2>2. cookie[c] \in CookieRecords
    BY <1>2 DEF TypeOK
  <2>3. [cookie[c] EXCEPT !.src = p, !.tag = Int16(t), !.msg = Message(p, d, t)] \in CookieRecords
    BY <2>1, <2>2 DEF CookieRecords
  <2> QED  BY <1>1, <1>2, <2>3 DEF MeetsSend, TypeOK
<1> HIDE DEF c
<1>7. posted' \in [Procs -> 0..MaxPosted]
  BY <1>5, PostsType
<1>8. UNCHANGED <<inbox, free, busy, conds, ret, want, exited, lost, probed, outcome>>
  BY DEF IssendMatched
<1>9. TypeOK'
  BY <1>1, <1>2, <1>3, <1>4, <1>6, <1>7, <1>8, JoinsType DEF TypeOK, conds, c
<1>10. pc[p] = "idle" /\ reqs[p][i] = NoCookie
  BY DEF IssendMatched, Posting, Idle
<1>11. PcOK'
  <2>1. \A q \in Procs \ {p} : /\ pc'[q] = pc[q] /\ slot'[q] = slot[q]
                               /\ reqs'[q] = reqs[q] /\ waiting'[q] = waiting[q]
    BY <1>1, <1>8 DEF TypeOK, Joins, Holds, conds
  <2>2. pc'[p] = "transfer" /\ slot'[p] = i /\ reqs'[p][i] = c
    BY <1>1 DEF TypeOK, Joins, Holds, c
  <2> QED  BY <1>2, <1>9, <2>1, <2>2, PcFrame DEF TypeOK
<1> QED  BY <1>9, <1>11

LEMMA TypeIrecvMatched ==
  ASSUME TypeInv, NEW p \in Procs, NEW i \in Requests, NEW s \in Sources, NEW t \in RecvTags,
         IrecvMatched(p, i, s, t)
  PROVE  TypeInv'
<1> USE DEF TypeInv
<1>1. PICK k \in Incoming(p, s, t) :
        /\ inbox'   = Taken(inbox, p, k)
        /\ pending' = [pending EXCEPT ![p] = @ \cup {inbox[p][k]}]
        /\ cookie'  = [cookie EXCEPT ![inbox[p][k]].recv = Receive(p, s, t)]
        /\ Joins(p, i, inbox[p][k])
  BY DEF IrecvMatched
<1> DEFINE c == inbox[p][k]
<1>2. inbox[p] \in Seq(Cookies) /\ k \in DOMAIN inbox[p] /\ c \in Cookies
  BY MembersAre DEF TypeOK, Incoming
<1>3. inbox' \in [Procs -> Seq(Cookies)]
  BY <1>1, <1>2, RemoveAtProperties DEF Taken, TypeOK
<1>4. pending' \in [Procs -> SUBSET Cookies]
  BY <1>1, <1>2 DEF TypeOK
<1>5. posted[p] < MaxPosted /\ Posts(p)
  BY DEF IrecvMatched, Posting
<1>6. cookie' \in [Cookies -> CookieRecords]
  <2>1. Receive(p, s, t) \in Receives
    BY <1>5, RequestTypes
  <2>2. cookie[c] \in CookieRecords
    BY <1>2 DEF TypeOK
  <2>3. [cookie[c] EXCEPT !.recv = Receive(p, s, t)] \in CookieRecords
    BY <2>1, <2>2 DEF CookieRecords
  <2> QED  BY <1>1, <1>2, <2>3 DEF TypeOK
<1> HIDE DEF c
<1>7. posted' \in [Procs -> 0..MaxPosted]
  BY <1>5, PostsType
<1>8. UNCHANGED <<outbox, free, busy, conds, ret, want, exited, lost, outcome>>
  BY DEF IrecvMatched
<1>9. probed' \in [Procs -> [cookie: Cookies \cup {NoCookie}, src: Sources, tag: RecvTags]]
  BY DEF IrecvMatched, TypeOK, NoProbe, Sources, RecvTags
<1>10. TypeOK'
  BY <1>1, <1>2, <1>3, <1>4, <1>6, <1>7, <1>8, <1>9, JoinsType DEF TypeOK, conds, c
<1>11. PcOK'
  <2>1. \A q \in Procs \ {p} : /\ pc'[q] = pc[q] /\ slot'[q] = slot[q]
                               /\ reqs'[q] = reqs[q] /\ waiting'[q] = waiting[q]
    BY <1>1, <1>8 DEF TypeOK, Joins, Holds, conds
  <2>2. pc'[p] = "transfer" /\ slot'[p] = i /\ reqs'[p][i] = c
    BY <1>1 DEF TypeOK, Joins, Holds, c
  <2> QED  BY <1>2, <1>10, <2>1, <2>2, PcFrame DEF TypeOK
<1> QED  BY <1>10, <1>11

\* A process that posts a request is idle and stays so.
LEMMA IdleFrame ==
  ASSUME TypeInv, NEW p \in Procs, NEW i \in Requests, NEW c, pc[p] = "idle", Holds(p, i, c),
         UNCHANGED <<pc, slot, waiting>>
  PROVE  PcOK'
<1>1. \A q \in Procs \ {p} : reqs'[q] = reqs[q]
  BY DEF TypeInv, TypeOK, Holds
<1> QED  BY <1>1 DEF TypeInv, PcOK

LEMMA TypeIssendPosted ==
  ASSUME TypeInv, NEW p \in Procs, NEW i \in Requests, NEW d \in Procs, NEW t \in Tags,
         IssendPosted(p, i, d, t)
  PROVE  TypeInv'
<1> USE DEF TypeInv
<1> DEFINE f == Created(p, p, t, Message(p, d, t), NoRecv)
<1>1. PICK c \in Cookies : Creates(p, i, d, c, f) /\ inbox' = Appended(inbox, d, c)
  BY DEF IssendPosted
<1>2. pc[p] = "idle" /\ posted[p] < MaxPosted /\ Posts(p)
  BY DEF IssendPosted, Posting, Idle
<1>3. f \in CookieRecords
  BY <1>2, RequestTypes, CreatedType DEF Sources, RecvTags
<1> HIDE DEF f
<1>4. inbox' \in [Procs -> Seq(Cookies)]
  BY <1>1, AppendMembers DEF Appended, TypeOK
<1>5. signal' \in [Procs -> BOOLEAN]
  BY Zenon DEF IssendPosted, Alerts, TypeOK
<1>6. UNCHANGED <<outbox, pending, waitingFor, waiting, calls, exited, lost, probed, outcome>>
  BY DEF IssendPosted
<1>7. posted' \in [Procs -> 0..MaxPosted]
  BY <1>2, PostsType
<1>8. TypeOK'
  BY <1>1, <1>3, <1>4, <1>5, <1>6, <1>7, CreatesType DEF TypeOK, calls
<1>9. PcOK'
  BY <1>1, <1>2, <1>6, IdleFrame DEF Creates, calls
<1> QED  BY <1>8, <1>9

LEMMA TypeIrecvPosted ==
  ASSUME TypeInv, NEW p \in Procs, NEW i \in Requests, NEW s \in Sources, NEW t \in RecvTags,
         IrecvPosted(p, i, s, t)
  PROVE  TypeInv'
<1> USE DEF TypeInv
<1> DEFINE f == Created(p, s, t, NoMsg, Receive(p, s, t))
<1>1. PICK c \in Cookies : Creates(p, i, p, c, f) /\ outbox' = Appended(outbox, p, c)
  BY DEF IrecvPosted
<1>2. pc[p] = "idle" /\ posted[p] < MaxPosted /\ Posts(p)
  BY DEF IrecvPosted, Posting, Idle
<1>3. f \in CookieRecords
  BY <1>2, RequestTypes, CreatedType
<1> HIDE DEF f
<1>4. outbox' \in [Procs -> Seq(Cookies)]
  BY <1>1, AppendMembers DEF Appended, TypeOK
<1>5. probed' \in [Procs -> [cookie: Cookies \cup {NoCookie}, src: Sources, tag: RecvTags]]
  BY DEF IrecvPosted, TypeOK, NoProbe, Sources, RecvTags
<1>6. UNCHANGED <<inbox, pending, conds, calls, exited, lost, outcome>>
  BY DEF IrecvPosted
<1>7. posted' \in [Procs -> 0..MaxPosted]
  BY <1>2, PostsType
<1>8. TypeOK'
  BY <1>1, <1>3, <1>4, <1>5, <1>6, <1>7, CreatesType DEF TypeOK, calls, conds
<1>9. PcOK'
  BY <1>1, <1>2, <1>6, IdleFrame DEF Creates, calls, conds
<1> QED  BY <1>8, <1>9

LEMMA TypePoolExhausted ==
  ASSUME TypeInv, NEW p \in Procs, NEW i \in Requests, NEW d \in Procs, PoolExhausted(p, d, i)
  PROVE  TypeInv'
BY DEF TypeInv, PoolExhausted, TypeOK, PcOK, boxes, cookies, conds, calls, history

LEMMA TypeTransfer ==
  ASSUME TypeInv, NEW p \in Procs, Transfer(p)
  PROVE  TypeInv'
<1> USE DEF TypeInv
<1>1. pc[p] = "transfer" /\ slot[p] \in Requests /\ Current(p) \in Cookies
  BY DEF Transfer, PcOK, Current
<1>2. PICK err \in {MPI_SUCCESS, MPI_FAIL} :
        /\ ret' = [ret EXCEPT ![p] = err]
        /\ outcome' = outcome \cup {[msg |-> cookie[Current(p)].msg,
                                     recv |-> cookie[Current(p)].recv, err |-> err]}
  BY DEF Transfer
<1>3. cookie[Current(p)] \in CookieRecords
  BY <1>1 DEF TypeOK
<1>4. outcome' \subseteq [msg: Messages \cup {NoMsg}, recv: Receives \cup {NoRecv},
                          err: {MPI_SUCCESS, MPI_FAIL}]
  BY <1>2, <1>3 DEF TypeOK, CookieRecords
<1>5. /\ UNCHANGED <<boxes, cookies, conds, slot, want, reqs, exited, posted, lost, probed>>
      /\ pc' = [pc EXCEPT ![p] = "notify"]
  BY DEF Transfer
<1>6. TypeOK'
  BY <1>2, <1>4, <1>5 DEF TypeOK, boxes, cookies, conds
<1>7. PcOK'
  BY <1>1, <1>5 DEF PcOK, TypeOK, conds, Current
<1> QED  BY <1>6, <1>7

\* A process that returns from the library works on no request.
LEMMA ReturnsFrame ==
  ASSUME TypeInv, NEW p \in Procs, Returns(p), UNCHANGED waiting,
         \A q \in Procs \ {p} : reqs'[q] = reqs[q]
  PROVE  /\ pc' \in [Procs -> {"idle", "transfer", "notify", "wait", "wait_any", "probe", "leave"}]
         /\ slot' \in [Procs -> 0..Slots]
         /\ ret' \in [Procs -> {MPI_SUCCESS, MPI_FAIL}]
         /\ PcOK'
<1>1. /\ pc' \in [Procs -> {"idle", "transfer", "notify", "wait", "wait_any", "probe", "leave"}]
      /\ slot' \in [Procs -> 0..Slots]
      /\ ret' \in [Procs -> {MPI_SUCCESS, MPI_FAIL}]
  BY BoundsAssumption DEF TypeInv, TypeOK, Returns
<1>2. \A q \in Procs \ {p} : pc'[q] = pc[q] /\ slot'[q] = slot[q]
  BY DEF TypeInv, TypeOK, Returns
<1>3. pc'[p] = "idle"
  BY DEF TypeInv, TypeOK, Returns
<1> QED  BY <1>1, <1>2, <1>3 DEF TypeInv, PcOK

LEMMA TypeNotifyDone ==
  ASSUME TypeInv, NEW p \in Procs, NotifyDone(p)
  PROVE  TypeInv'
<1> USE DEF TypeInv
<1> DEFINE c == Current(p)
           o == cookie[c].owner
<1>1. pc[p] = "notify" /\ slot[p] \in Requests /\ c \in Cookies
  BY DEF NotifyDone, PcOK, Current
<1>2. /\ cookie' = [cookie EXCEPT ![c].err = IF @ # MPI_SUCCESS THEN @ ELSE ret[p]]
      /\ busy' = [busy EXCEPT ![c] = @ - 1]
      /\ signal' = [signal EXCEPT ![o] = @ \/ Wakens(o, c)]
      /\ Returns(p)
      /\ UNCHANGED <<boxes, used, waitingFor, waiting, want, exited, posted, probed, outcome>>
  BY DEF NotifyDone
<1>3. \/ UNCHANGED <<reqs, lost>>
      \/ Holds(p, slot[p], NoCookie) /\ lost' = [lost EXCEPT ![c] = @ + 1]
  BY DEF NotifyDone
<1> HIDE DEF c, o
<1>4. cookie' \in [Cookies -> CookieRecords]
  <2>1. cookie[c] \in CookieRecords /\ ret[p] \in {MPI_SUCCESS, MPI_FAIL}
    BY <1>1 DEF TypeOK
  <2>2. \A x \in {MPI_SUCCESS, MPI_FAIL} : [cookie[c] EXCEPT !.err = x] \in CookieRecords
    BY <2>1 DEF CookieRecords
  <2>3. (IF cookie[c].err # MPI_SUCCESS THEN cookie[c].err ELSE ret[p]) \in {MPI_SUCCESS, MPI_FAIL}
    BY <2>1 DEF CookieRecords
  <2> QED  BY <1>1, <1>2, <2>2, <2>3 DEF TypeOK
<1>5. busy' \in [Cookies -> Int]
  BY <1>1, <1>2 DEF TypeOK
<1>6. signal' \in [Procs -> BOOLEAN]
  BY <1>2, Zenon DEF TypeOK
<1>7. /\ reqs' \in [Procs -> [Requests -> Cookies \cup {NoCookie}]]
      /\ lost' \in [Cookies -> Nat]
      /\ \A q \in Procs \ {p} : reqs'[q] = reqs[q]
  <2>1. CASE UNCHANGED <<reqs, lost>>
    BY <2>1 DEF TypeOK
  <2>2. CASE Holds(p, slot[p], NoCookie) /\ lost' = [lost EXCEPT ![c] = @ + 1]
    <3>1. reqs' \in [Procs -> [Requests -> Cookies \cup {NoCookie}]]
          /\ \A q \in Procs \ {p} : reqs'[q] = reqs[q]
      BY <1>1, <2>2 DEF TypeOK, Holds
    <3>2. lost' \in [Cookies -> Nat]
      BY <1>1, <2>2 DEF TypeOK
    <3> QED  BY <3>1, <3>2
  <2> QED  BY <1>3, <2>1, <2>2
<1>8. /\ pc' \in [Procs -> {"idle", "transfer", "notify", "wait", "wait_any", "probe", "leave"}]
      /\ slot' \in [Procs -> 0..Slots]
      /\ ret' \in [Procs -> {MPI_SUCCESS, MPI_FAIL}]
      /\ PcOK'
  BY <1>2, <1>7, ReturnsFrame
<1>9. TypeOK'
  BY <1>2, <1>4, <1>5, <1>6, <1>7, <1>8 DEF TypeOK, boxes
<1> QED  BY <1>8, <1>9

\* Going to sleep, and waking up, on a request or otherwise.
LEMMA SleepsType ==
  ASSUME TypeInv, NEW p \in Procs, NEW for \in {"incoming", "any_cookie", "cookie"},
         NEW c \in Cookies \cup {NoCookie}, NEW where \in {"wait", "wait_any", "probe"},
         Sleeps(p, for, c, where)
  PROVE  /\ waitingFor' \in [Procs -> {"not_waiting", "incoming", "any_cookie", "cookie"}]
         /\ waiting' \in [Procs -> Cookies \cup {NoCookie}]
         /\ signal' \in [Procs -> BOOLEAN]
         /\ pc' \in [Procs -> {"idle", "transfer", "notify", "wait", "wait_any", "probe", "leave"}]
         /\ \A q \in Procs \ {p} : pc'[q] = pc[q] /\ waiting'[q] = waiting[q]
         /\ pc'[p] = where /\ waiting'[p] = c
BY DEF TypeInv, TypeOK, Sleeps

LEMMA StopsWaitingType ==
  ASSUME TypeInv, NEW p \in Procs, NEW where \in {"leave", "idle"}, StopsWaiting(p, where)
  PROVE  /\ waitingFor' \in [Procs -> {"not_waiting", "incoming", "any_cookie", "cookie"}]
         /\ waiting' \in [Procs -> Cookies \cup {NoCookie}]
         /\ signal' \in [Procs -> BOOLEAN]
         /\ pc' \in [Procs -> {"idle", "transfer", "notify", "wait", "wait_any", "probe", "leave"}]
         /\ \A q \in Procs \ {p} : pc'[q] = pc[q] /\ waiting'[q] = waiting[q]
         /\ pc'[p] = where
BY DEF TypeInv, TypeOK, StopsWaiting

LEMMA TypeWait ==
  ASSUME TypeInv, NEW p \in Procs, NEW i \in Requests, Wait(p, i)
  PROVE  TypeInv'
<1> USE DEF TypeInv
<1> DEFINE c == reqs[p][i]
<1>1. c \in Cookies /\ slot' = [slot EXCEPT ![p] = i]
      /\ UNCHANGED <<boxes, cookies, ret, want, reqs, exited, history>>
  BY DEF Wait, TypeOK
<1>2. slot' \in [Procs -> 0..Slots] /\ slot'[p] = i
      /\ \A q \in Procs \ {p} : slot'[q] = slot[q]
  BY <1>1, BoundsAssumption DEF TypeOK, Requests
<1>3. CASE Sleeps(p, "cookie", c, "wait")
  <2>1. TypeOK'
    BY <1>1, <1>2, <1>3, SleepsType DEF TypeOK, boxes, cookies, history
  <2>2. PcOK'
    <3>1. \A q \in Procs \ {p} : /\ pc'[q] = pc[q] /\ slot'[q] = slot[q]
                                 /\ reqs'[q] = reqs[q] /\ waiting'[q] = waiting[q]
      BY <1>1, <1>2, <1>3, SleepsType
    <3>2. pc'[p] = "wait" /\ slot'[p] = i /\ reqs' = reqs /\ waiting'[p] = c
      BY <1>1, <1>2, <1>3, SleepsType
    <3> QED  BY ZenonT(60), <1>1, <2>1, <3>1, <3>2, PcFrame DEF TypeOK
  <2> QED  BY <2>1, <2>2
<1>4. CASE pc' = [pc EXCEPT ![p] = "leave"] /\ UNCHANGED conds
  <2>1. TypeOK'
    BY <1>1, <1>2, <1>4 DEF TypeOK, boxes, cookies, conds, history
  <2>2. PcOK'
    BY <1>1, <1>2, <1>4, <2>1, PcFrame DEF TypeOK, conds
  <2> QED  BY <2>1, <2>2
<1> QED  BY <1>3, <1>4 DEF Wait

LEMMA TypeWaitWakes ==
  ASSUME TypeInv, NEW p \in Procs, WaitWakes(p)
  PROVE  TypeInv'
<1> USE DEF TypeInv
<1>1. /\ slot[p] \in Requests /\ waiting[p] \in Cookies /\ waiting[p] = reqs[p][slot[p]]
      /\ UNCHANGED <<boxes, cookies, slot, ret, want, reqs, exited, history>>
  BY DEF WaitWakes, PcOK
<1>2. CASE Sleeps(p, "cookie", waiting[p], "wait")
  <2>1. TypeOK'
    BY <1>1, <1>2, SleepsType DEF TypeOK, boxes, cookies, history
  <2>2. PcOK'
    <3>1. \A q \in Procs \ {p} : /\ pc'[q] = pc[q] /\ slot'[q] = slot[q]
                                 /\ reqs'[q] = reqs[q] /\ waiting'[q] = waiting[q]
      BY <1>1, <1>2, SleepsType
    <3>2. pc'[p] = "wait" /\ slot'[p] = slot[p] /\ reqs' = reqs /\ waiting'[p] = waiting[p]
      BY <1>1, <1>2, SleepsType
    <3> QED  BY <1>1, <2>1, <3>1, <3>2, PcFrame DEF TypeOK
  <2> QED  BY <2>1, <2>2
<1>3. CASE StopsWaiting(p, "leave")
  <2>1. TypeOK'
    BY <1>1, <1>3, StopsWaitingType DEF TypeOK, boxes, cookies, history
  <2>2. PcOK'
    <3>1. \A q \in Procs \ {p} : /\ pc'[q] = pc[q] /\ slot'[q] = slot[q]
                                 /\ reqs'[q] = reqs[q] /\ waiting'[q] = waiting[q]
      BY <1>1, <1>3, StopsWaitingType
    <3>2. pc'[p] = "leave" /\ slot'[p] = slot[p] /\ reqs' = reqs
      BY <1>1, <1>3, StopsWaitingType
    <3> QED  BY <1>1, <2>1, <3>1, <3>2, PcFrame DEF TypeOK
  <2> QED  BY <2>1, <2>2
<1> QED  BY <1>2, <1>3 DEF WaitWakes

LEMMA TypeTest ==
  ASSUME TypeInv, NEW p \in Procs, NEW i \in Requests, Test(p, i)
  PROVE  TypeInv'
<1> USE DEF TypeInv
<1>1. /\ slot' = [slot EXCEPT ![p] = i] /\ pc' = [pc EXCEPT ![p] = "leave"]
      /\ reqs[p][i] \in Cookies
      /\ UNCHANGED <<boxes, cookies, conds, ret, want, reqs, exited, history>>
  BY DEF Test, TypeOK
<1>2. TypeOK'
  BY <1>1, BoundsAssumption DEF TypeOK, Requests, boxes, cookies, conds, history
<1>3. PcOK'
  BY SMTT(30), <1>1, <1>2, PcFrame DEF TypeOK, conds
<1> QED  BY <1>2, <1>3

LEMMA WaitanyCompletesType ==
  ASSUME TypeInv, NEW p \in Procs, NEW i \in Requests, WaitanyCompletes(p, i),
         UNCHANGED <<boxes, cookies, ret, want, reqs, history>>,
         pc[p] \in {"idle", "wait_any"}
  PROVE  TypeInv'
<1> USE DEF TypeInv
<1>1. slot' = [slot EXCEPT ![p] = i]
  BY DEF WaitanyCompletes
<1>2. slot' \in [Procs -> 0..Slots] /\ slot'[p] = i /\ \A q \in Procs \ {p} : slot'[q] = slot[q]
  BY <1>1, BoundsAssumption DEF TypeOK, Requests
<1>3. CASE reqs[p][i] = NoCookie
  <2>1. exited' = TRUE /\ UNCHANGED <<pc, conds>>
    BY <1>3 DEF WaitanyCompletes
  <2>2. TypeOK'
    BY <1>2, <2>1 DEF TypeOK, boxes, cookies, conds, history
  <2>3. PcOK'
    <3>1. \A q \in Procs \ {p} : /\ pc'[q] = pc[q] /\ slot'[q] = slot[q]
                                 /\ reqs'[q] = reqs[q] /\ waiting'[q] = waiting[q]
      BY <1>2, <2>1 DEF conds
    <3>2. pc'[p] \in {"idle", "wait_any"}
      BY <2>1
    <3> QED  BY <2>2, <3>1, <3>2, PcFrame DEF TypeOK
  <2> QED  BY <2>2, <2>3
<1>4. CASE reqs[p][i] # NoCookie
  <2>1. StopsWaiting(p, "leave") /\ UNCHANGED exited
    BY <1>4 DEF WaitanyCompletes
  <2>2. TypeOK'
    BY <1>2, <2>1, StopsWaitingType DEF TypeOK, boxes, cookies, history
  <2>3. PcOK'
    <3>1. \A q \in Procs \ {p} : /\ pc'[q] = pc[q] /\ slot'[q] = slot[q]
                                 /\ reqs'[q] = reqs[q] /\ waiting'[q] = waiting[q]
      BY <1>2, <2>1, StopsWaitingType
    <3>2. pc'[p] = "leave" /\ slot'[p] = i /\ reqs'[p][i] \in Cookies
      BY SMTT(30), <1>2, <1>4, <2>1, StopsWaitingType DEF TypeOK
    <3> QED  BY <2>2, <3>1, <3>2, PcFrame DEF TypeOK
  <2> QED  BY <2>2, <2>3
<1> QED  BY <1>3, <1>4

LEMMA WaitanyServesType ==
  ASSUME TypeInv, NEW p \in Procs, WaitanyServes(p) \/ WaitanySleeps(p),
         UNCHANGED <<boxes, cookies, ret, want, reqs, history>>,
         pc[p] \in {"idle", "wait_any"}
  PROVE  TypeInv'
<1>1. CASE WaitanyServes(p)
  <2>1. PICK k \in Finished(p), begin \in Active(p) :
          begin <= k /\ WaitanyCompletes(p, k - begin + 1)
    BY <1>1 DEF WaitanyServes, IsFirst, Finished
  <2>2. k - begin + 1 \in Requests
    BY <2>1, BoundsAssumption DEF Finished, Active, Requests
  <2> QED  BY <2>1, <2>2, WaitanyCompletesType
<1>2. CASE WaitanySleeps(p)
  <2>1. Sleeps(p, "any_cookie", NoCookie, "wait_any") /\ UNCHANGED <<slot, exited>>
    BY <1>2 DEF WaitanySleeps
  <2>2. TypeOK'
    BY <2>1, SleepsType DEF TypeInv, TypeOK, boxes, cookies, history
  <2>3. PcOK'
    <3>1. \A q \in Procs \ {p} : /\ pc'[q] = pc[q] /\ slot'[q] = slot[q]
                                 /\ reqs'[q] = reqs[q] /\ waiting'[q] = waiting[q]
      BY <2>1, SleepsType
    <3>2. pc'[p] = "wait_any"
      BY <2>1, SleepsType
    <3> QED  BY <2>2, <3>1, <3>2, PcFrame DEF TypeOK
  <2> QED  BY <2>2, <2>3 DEF TypeInv
<1> QED  BY <1>1, <1>2

LEMMA TypeWaitany ==
  ASSUME TypeInv, NEW p \in Procs, Waitany(p)
  PROVE  TypeInv'
<1>1. pc[p] = "idle" /\ UNCHANGED <<boxes, cookies, ret, want, reqs, history>>
  BY DEF Waitany, Idle
<1>2. CASE \E i \in Foreign(p) : WaitanyCompletes(p, i)
  BY <1>1, <1>2, WaitanyCompletesType DEF Foreign, Active
<1>3. CASE WaitanyServes(p) \/ WaitanySleeps(p)
  BY <1>1, <1>3, WaitanyServesType
<1> QED  BY <1>2, <1>3 DEF Waitany

LEMMA TypeWaitanyWakes ==
  ASSUME TypeInv, NEW p \in Procs, WaitanyWakes(p)
  PROVE  TypeInv'
BY WaitanyServesType DEF WaitanyWakes

LEMMA TypeLeave ==
  ASSUME TypeInv, NEW p \in Procs, Leave(p)
  PROVE  TypeInv'
<1> USE DEF TypeInv
<1> DEFINE c == Current(p)
           o == cookie[c].owner
<1>1. slot[p] \in Requests /\ c \in Cookies
  BY DEF Leave, PcOK, Current
<1>2. PICK K \in SUBSET (free[o] \cup Unused(o)) : free' = [free EXCEPT ![o] = K]
  BY DEF Leave
<1>3. /\ used' = [used EXCEPT ![c] = @ - 1]
      /\ pending' = [pending EXCEPT ![o] = @ \ Unused(o)]
      /\ Holds(p, slot[p], NoCookie)
      /\ Returns(p)
      /\ UNCHANGED <<inbox, outbox, cookie, busy, conds, want, exited, history>>
  BY DEF Leave
<1> HIDE DEF c, o
<1>4. used' \in [Cookies -> Int]
  BY <1>1, <1>3 DEF TypeOK
<1>5. pending' \in [Procs -> SUBSET Cookies] /\ free' \in [Procs -> SUBSET Cookies]
  BY <1>2, <1>3 DEF TypeOK, Unused
<1>6. reqs' \in [Procs -> [Requests -> Cookies \cup {NoCookie}]]
      /\ \A q \in Procs \ {p} : reqs'[q] = reqs[q]
  BY <1>1, <1>3 DEF TypeOK, Holds
<1>7. /\ pc' \in [Procs -> {"idle", "transfer", "notify", "wait", "wait_any", "probe", "leave"}]
      /\ slot' \in [Procs -> 0..Slots]
      /\ ret' \in [Procs -> {MPI_SUCCESS, MPI_FAIL}]
      /\ PcOK'
  BY <1>3, <1>6, ReturnsFrame DEF conds
<1>8. TypeOK'
  BY <1>3, <1>4, <1>5, <1>6, <1>7 DEF TypeOK, conds, history
<1> QED  BY <1>7, <1>8

LEMMA ReportsType ==
  ASSUME TypeInv, NEW p \in Procs, NEW s \in Sources, NEW t \in RecvTags, Reports(p, s, t)
  PROVE  probed' \in [Procs -> [cookie: Cookies \cup {NoCookie}, src: Sources, tag: RecvTags]]
<1>1. PICK k \in Incoming(p, s, t) :
        probed' = [probed EXCEPT ![p] = [cookie |-> inbox[p][k], src |-> s, tag |-> t]]
  BY DEF Reports
<1>2. inbox[p][k] \in Cookies
  BY MembersAre DEF TypeInv, TypeOK, Incoming
<1> QED  BY <1>1, <1>2 DEF TypeInv, TypeOK

\* p goes to sleep in, or goes on sleeping in, MPI_Probe.
LEMMA ProbeSleepsType ==
  ASSUME TypeInv, NEW p \in Procs, Sleeps(p, "incoming", NoCookie, "probe"), UNCHANGED probed,
         want' \in [Procs -> [src: Sources, tag: RecvTags]],
         UNCHANGED <<boxes, cookies, slot, ret, reqs, exited, posted, lost, outcome>>
  PROVE  TypeInv'
<1>1. TypeOK'
  BY SleepsType DEF TypeInv, TypeOK, boxes, cookies
<1>2. PcOK'
  <2>1. \A q \in Procs \ {p} : /\ pc'[q] = pc[q] /\ slot'[q] = slot[q]
                               /\ reqs'[q] = reqs[q] /\ waiting'[q] = waiting[q]
    BY SleepsType
  <2>2. pc'[p] = "probe"
    BY SleepsType
  <2> QED  BY <1>1, <2>1, <2>2, PcFrame DEF TypeOK
<1> QED  BY <1>1, <1>2 DEF TypeInv

LEMMA TypeIprobe ==
  ASSUME TypeInv, NEW p \in Procs, NEW s \in Sources, NEW t \in RecvTags, Iprobe(p, s, t)
  PROVE  TypeInv'
<1>1. /\ probed' \in [Procs -> [cookie: Cookies \cup {NoCookie}, src: Sources, tag: RecvTags]]
      /\ UNCHANGED <<boxes, cookies, conds, calls, reqs, exited, posted, lost, outcome>>
  BY ReportsType DEF Iprobe
<1> QED  BY <1>1 DEF TypeInv, TypeOK, PcOK, boxes, cookies, conds, calls

LEMMA TypeProbe ==
  ASSUME TypeInv, NEW p \in Procs, NEW s \in Sources, NEW t \in RecvTags, Probe(p, s, t)
  PROVE  TypeInv'
<1>1. UNCHANGED <<boxes, cookies, slot, ret, reqs, exited, posted, lost, outcome>>
  BY DEF Probe
<1>2. CASE Reports(p, s, t) /\ UNCHANGED <<conds, pc, want>>
  BY <1>1, <1>2, ReportsType DEF TypeInv, TypeOK, PcOK, boxes, cookies, conds
<1>3. CASE /\ Sleeps(p, "incoming", NoCookie, "probe")
           /\ want' = [want EXCEPT ![p] = [src |-> s, tag |-> t]]
           /\ UNCHANGED probed
  <2>1. want' \in [Procs -> [src: Sources, tag: RecvTags]]
    BY <1>3 DEF TypeInv, TypeOK
  <2> QED  BY <1>1, <1>3, <2>1, ProbeSleepsType
<1> QED  BY <1>2, <1>3 DEF Probe

LEMMA TypeProbeWakes ==
  ASSUME TypeInv, NEW p \in Procs, ProbeWakes(p)
  PROVE  TypeInv'
<1> DEFINE s == want[p].src
           t == want[p].tag
<1>1. UNCHANGED <<boxes, cookies, slot, ret, reqs, exited, posted, lost, outcome>>
  BY DEF ProbeWakes
<1>2. CASE /\ Reports(p, s, t)
           /\ StopsWaiting(p, "idle")
           /\ want' = [want EXCEPT ![p] = NoWant]
  <2>1. s \in Sources /\ t \in RecvTags
    BY DEF TypeInv, TypeOK
  <2>2. probed' \in [Procs -> [cookie: Cookies \cup {NoCookie}, src: Sources, tag: RecvTags]]
    BY <1>2, <2>1, ReportsType
  <2>3. want' \in [Procs -> [src: Sources, tag: RecvTags]]
    BY <1>2 DEF TypeInv, TypeOK, NoWant, Sources, RecvTags
  <2>4. TypeOK'
    BY <1>1, <1>2, <2>2, <2>3, StopsWaitingType DEF TypeInv, TypeOK, boxes, cookies
  <2>5. PcOK'
    <3>1. \A q \in Procs \ {p} : /\ pc'[q] = pc[q] /\ slot'[q] = slot[q]
                                 /\ reqs'[q] = reqs[q] /\ waiting'[q] = waiting[q]
      BY <1>1, <1>2, StopsWaitingType
    <3>2. pc'[p] = "idle"
      BY <1>2, StopsWaitingType
    <3> QED  BY <2>4, <3>1, <3>2, PcFrame DEF TypeOK
  <2> QED  BY <2>4, <2>5 DEF TypeInv
<1>3. CASE Sleeps(p, "incoming", NoCookie, "probe") /\ UNCHANGED <<want, probed>>
  <2>1. want' \in [Procs -> [src: Sources, tag: RecvTags]]
    BY <1>3 DEF TypeInv, TypeOK
  <2> QED  BY <1>1, <1>3, <2>1, ProbeSleepsType
<1> QED  BY <1>2, <1>3 DEF ProbeWakes

LEMMA TypeStep == TypeInv /\ [Next]_vars => TypeInv'
<1> SUFFICES ASSUME TypeInv, [Next]_vars PROVE TypeInv'
  OBVIOUS
<1>1. CASE UNCHANGED vars
  BY <1>1 DEF vars, boxes, cookies, conds, calls, history, TypeInv, TypeOK, PcOK
<1>2. CASE Next
  <2>1. PICK p \in Procs : Step(p)
    BY <1>2 DEF Next
  <2>2. CASE Call(p)
    BY <2>2, TypeIssendMatched, TypeIssendPosted, TypeIrecvMatched, TypeIrecvPosted,
       TypePoolExhausted, TypeWait, TypeTest, AskedType DEF Call
  <2>3. CASE Peek(p)
    BY <2>3, TypeIprobe, TypeProbe, AskedType DEF Peek
  <2>4. CASE Wakes(p)
    BY <2>4, TypeWaitWakes, TypeWaitanyWakes, TypeProbeWakes DEF Wakes
  <2>5. CASE Waitany(p) \/ Transfer(p) \/ NotifyDone(p) \/ Leave(p)
    BY <2>5, TypeWaitany, TypeTransfer, TypeNotifyDone, TypeLeave
  <2> QED  BY <2>1, <2>2, <2>3, <2>4, <2>5 DEF Step
<1> QED  BY <1>1, <1>2

LEMMA TypeInvariant == Spec => []TypeInv
BY TypeInit, TypeStep, PTL DEF Spec

\* Every variable keeps its type whatever the processes do: no call works on a
\* request variable outside of its array, no list holds anything but cookies.
THEOREM TypeCorrect == Spec => []TypeOK
BY TypeInvariant, PTL DEF TypeInv

-----------------------------------------------------------------------------
(* References                                                              *)

LEMMA RefsFinite ==
  ASSUME NEW c  PROVE IsFiniteSet(Refs(c)) /\ Cardinality(Refs(c)) \in Nat
<1>1. IsFiniteSet(Procs \X Requests)
  <2>1. IsFiniteSet(Requests)
    BY FS_Interval, BoundsAssumption DEF Requests
  <2> QED  BY <2>1, FS_Product, ProcsAssumption
<1>2. Refs(c) \in SUBSET (Procs \X Requests)
  BY DEF Refs
<1>3. IsFiniteSet(Refs(c))
  BY <1>1, <1>2, FS_Subset
<1> QED  BY <1>3, FS_CardinalityType

\* A request variable takes hold of a cookie.
LEMMA HoldsAdds ==
  ASSUME TypeOK, NEW p \in Procs, NEW i \in Requests, NEW c \in Cookies,
         reqs[p][i] = NoCookie, Holds(p, i, c)
  PROVE  /\ Cardinality(Refs(c)') = Cardinality(Refs(c)) + 1
         /\ \A x \in Cookies \ {c} : Cardinality(Refs(x)') = Cardinality(Refs(x))
<1>1. \A q \in Procs, j \in Requests :
        reqs'[q][j] = IF q = p /\ j = i THEN c ELSE reqs[q][j]
  BY DEF TypeOK, Holds
<1>2. Refs(c)' = Refs(c) \cup {<<p, i>>} /\ <<p, i>> \notin Refs(c)
  BY <1>1, CookiesAssumption DEF Refs
<1>3. \A x \in Cookies \ {c} : Refs(x)' = Refs(x)
  <2> TAKE x \in Cookies \ {c}
  <2>1. \A r \in Procs \X Requests : reqs'[r[1]][r[2]] = x <=> reqs[r[1]][r[2]] = x
    BY <1>1, CookiesAssumption
  <2> QED  BY <2>1 DEF Refs
<1> QED  BY <1>2, <1>3, RefsFinite, FS_AddElement

\* A request variable lets its cookie go.
LEMMA HoldsDrops ==
  ASSUME TypeOK, NEW p \in Procs, NEW i \in Requests, NEW c \in Cookies,
         reqs[p][i] = c, Holds(p, i, NoCookie)
  PROVE  /\ Cardinality(Refs(c)') = Cardinality(Refs(c)) - 1
         /\ \A x \in Cookies \ {c} : Cardinality(Refs(x)') = Cardinality(Refs(x))
<1>1. \A q \in Procs, j \in Requests :
        reqs'[q][j] = IF q = p /\ j = i THEN NoCookie ELSE reqs[q][j]
  BY DEF TypeOK, Holds
<1>2. Refs(c)' = Refs(c) \ {<<p, i>>} /\ <<p, i>> \in Refs(c)
  BY <1>1, CookiesAssumption DEF Refs
<1>3. \A x \in Cookies \ {c} : Refs(x)' = Refs(x)
  <2> TAKE x \in Cookies \ {c}
  <2>1. \A r \in Procs \X Requests : reqs'[r[1]][r[2]] = x <=> reqs[r[1]][r[2]] = x
    BY <1>1, CookiesAssumption
  <2> QED  BY <2>1 DEF Refs
<1> QED  BY <1>2, <1>3, RefsFinite, FS_RemoveElement

\* The invariant of the reference counts: a cookie somebody uses is in a list of
\* requests in progress.  Finalize relies on all three parts: it recycles a cookie
\* by its count alone.
UsedIsLive == \A c \in Cookies : used[c] # 0 => \E d \in Procs : InBox(c, d)

OwnInv == OnePlace /\ RefCount /\ UsedIsLive

LEMMA OwnInit == Init => OwnInv
<1> SUFFICES ASSUME Init PROVE OwnInv
  OBVIOUS
<1>1. OnePlace
  BY DEF Init, OnePlace, Members, ToSet, IsInjective, Lists
<1>2. \A c \in Cookies : Refs(c) = {}
  BY CookiesAssumption DEF Init, Refs
<1>3. RefCount
  <2> SUFFICES ASSUME NEW c \in Cookies PROVE used[c] = Cardinality(Refs(c)) + lost[c]
    BY DEF RefCount
  <2>1. used[c] = 0 /\ lost[c] = 0
    BY DEF Init
  <2>2. Cardinality(Refs(c)) = 0
    BY <1>2, FS_EmptySet
  <2> QED  BY <2>1, <2>2
<1>4. UsedIsLive
  BY DEF Init, UsedIsLive
<1> QED  BY <1>1, <1>3, <1>4 DEF OwnInv

LEMMA OwnFrame ==
  ASSUME OwnInv, UNCHANGED <<boxes, used, reqs, lost>>
  PROVE  OwnInv'
<1>1. OnePlace'
  <2>1. \A a \in Lists, d \in Procs : Members(a, d)' = Members(a, d)
    BY DEF Members, boxes
  <2>2. OnePlace
    BY DEF OwnInv
  <2> QED  BY <2>1, <2>2 DEF OnePlace, boxes
<1>2. RefCount'
  BY DEF OwnInv, RefCount, Refs
<1>3. UsedIsLive'
  BY DEF OwnInv, UsedIsLive, InBox, boxes
<1> QED  BY <1>1, <1>2, <1>3 DEF OwnInv

\* Cookie c goes to the list of kind b of process d and stays in no other.
LEMMA SpliceOnePlace ==
  ASSUME OnePlace, NEW c, NEW b \in Lists, NEW d \in Procs,
         \A a \in Lists, e \in Procs : \A x \in Members(a, e)' :
           \/ x # c /\ x \in Members(a, e)
           \/ x = c /\ a = b /\ e = d,
         \A e \in Procs : IsInjective(inbox'[e]) /\ IsInjective(outbox'[e])
  PROVE  OnePlace'
<1> SUFFICES ASSUME NEW a1 \in Lists, NEW a2 \in Lists, NEW e1 \in Procs, NEW e2 \in Procs,
                    NEW x \in Members(a1, e1)', x \in Members(a2, e2)'
             PROVE  a1 = a2 /\ e1 = e2
  BY DEF OnePlace
<1>1. CASE x = c
  BY <1>1
<1>2. CASE x # c
  <2>1. x \in Members(a1, e1) /\ x \in Members(a2, e2)
    BY <1>2
  <2> QED  BY <2>1 DEF OnePlace
<1> QED  BY <1>1, <1>2

\* Process p joins cookie c of a list of process d, which moves to pending.
LEMMA JoinsRefs ==
  ASSUME TypeOK, OwnInv, NEW p \in Procs, NEW i \in Requests, NEW c \in Cookies,
         Joins(p, i, c), reqs[p][i] = NoCookie, lost' = lost
  PROVE  RefCount'
<1>1. used' = [used EXCEPT ![c] = @ + 1] /\ Holds(p, i, c)
  BY DEF Joins, Counted
<1>2. \A x \in Cookies : used'[x] = IF x = c THEN used[c] + 1 ELSE used[x]
  BY <1>1 DEF TypeOK
<1>3. /\ Cardinality(Refs(c)') = Cardinality(Refs(c)) + 1
      /\ \A x \in Cookies \ {c} : Cardinality(Refs(x)') = Cardinality(Refs(x))
  BY <1>1, HoldsAdds
<1> SUFFICES ASSUME NEW x \in Cookies PROVE used'[x] = Cardinality(Refs(x)') + lost'[x]
  BY DEF RefCount
<1>4. used[x] = Cardinality(Refs(x)) + lost[x] /\ lost[x] \in Nat /\ Cardinality(Refs(x)) \in Nat
  BY RefsFinite DEF OwnInv, RefCount, TypeOK
<1> QED  BY <1>2, <1>3, <1>4

LEMMA OwnIssendMatched ==
  ASSUME TypeOK, OwnInv, NEW p \in Procs, NEW i \in Requests, NEW d \in Procs, NEW t \in Tags,
         IssendMatched(p, i, d, t)
  PROVE  OwnInv'
<1>1. PICK k \in Awaited(d, p, t) :
        /\ outbox'  = Taken(outbox, d, k)
        /\ pending' = [pending EXCEPT ![d] = @ \cup {outbox[d][k]}]
        /\ Joins(p, i, outbox[d][k])
  BY DEF IssendMatched
<1>2. /\ reqs[p][i] = NoCookie
      /\ inbox' = inbox /\ free' = free /\ lost' = lost
  BY DEF IssendMatched, Posting
<1>3. PICK c \in Cookies : /\ c = outbox[d][k] /\ c \in ToSet(outbox[d])
                          /\ outbox[d] \in Seq(Cookies) /\ k \in DOMAIN outbox[d]
  BY MembersAre DEF TypeOK, Awaited, ToSet
<1>4. /\ ToSet(outbox'[d]) = ToSet(outbox[d]) \ {c}
      /\ IsInjective(outbox'[d])
      /\ \A e \in Procs \ {d} : outbox'[e] = outbox[e]
  BY <1>1, <1>3, RemoveAtMembers DEF Taken, TypeOK, OwnInv, OnePlace
<1>5. \A e \in Procs : pending'[e] = IF e = d THEN pending[d] \cup {c} ELSE pending[e]
  BY <1>1, <1>3 DEF TypeOK
<1>6. c \in Members("outbox", d) /\ "outbox" \in Lists /\ "pending" \in Lists
  BY <1>3 DEF Members, Lists
<1>7. \A a \in Lists, e \in Procs : c \in Members(a, e) => a = "outbox" /\ e = d
  BY <1>6 DEF OwnInv, OnePlace
<1>8. \A a \in Lists, e \in Procs : \A x \in Members(a, e)' :
        (x # c /\ x \in Members(a, e)) \/ (x = c /\ a = "pending" /\ e = d)
  BY <1>2, <1>4, <1>5, <1>7 DEF Members, Lists
<1>9. OnePlace'
  BY <1>2, <1>4, <1>6, <1>8, SpliceOnePlace DEF OwnInv, OnePlace
<1>10. RefCount'
  BY <1>1, <1>2, <1>3, JoinsRefs
<1>11. UsedIsLive'
  <2>1. \A x \in Cookies, e \in Procs : InBox(x, e) => InBox(x, e)'
    BY <1>2, <1>4, <1>5 DEF InBox
  <2>2. \A x \in Cookies \ {c} : used'[x] = used[x]
    BY <1>1, <1>3 DEF Joins, Counted, TypeOK
  <2>3. InBox(c, d)'
    BY <1>5 DEF InBox
  <2> QED  BY <2>1, <2>2, <2>3 DEF UsedIsLive, OwnInv
<1> QED  BY <1>9, <1>10, <1>11 DEF OwnInv

LEMMA OwnIrecvMatched ==
  ASSUME TypeOK, OwnInv, NEW p \in Procs, NEW i \in Requests, NEW s \in Sources, NEW t \in RecvTags,
         IrecvMatched(p, i, s, t)
  PROVE  OwnInv'
<1>1. PICK k \in Incoming(p, s, t) :
        /\ inbox'   = Taken(inbox, p, k)
        /\ pending' = [pending EXCEPT ![p] = @ \cup {inbox[p][k]}]
        /\ Joins(p, i, inbox[p][k])
  BY DEF IrecvMatched
<1>2. /\ reqs[p][i] = NoCookie
      /\ outbox' = outbox /\ free' = free /\ lost' = lost
  BY DEF IrecvMatched, Posting
<1>3. PICK c \in Cookies : /\ c = inbox[p][k] /\ c \in ToSet(inbox[p])
                          /\ inbox[p] \in Seq(Cookies) /\ k \in DOMAIN inbox[p]
  BY MembersAre DEF TypeOK, Incoming, ToSet
<1>4. /\ ToSet(inbox'[p]) = ToSet(inbox[p]) \ {c}
      /\ IsInjective(inbox'[p])
      /\ \A e \in Procs \ {p} : inbox'[e] = inbox[e]
  BY <1>1, <1>3, RemoveAtMembers DEF Taken, TypeOK, OwnInv, OnePlace
<1>5. \A e \in Procs : pending'[e] = IF e = p THEN pending[p] \cup {c} ELSE pending[e]
  BY <1>1, <1>3 DEF TypeOK
<1>6. c \in Members("inbox", p) /\ "inbox" \in Lists /\ "pending" \in Lists
  BY <1>3 DEF Members, Lists
<1>7. \A a \in Lists, e \in Procs : c \in Members(a, e) => a = "inbox" /\ e = p
  BY <1>6 DEF OwnInv, OnePlace
<1>8. \A a \in Lists, e \in Procs : \A x \in Members(a, e)' :
        (x # c /\ x \in Members(a, e)) \/ (x = c /\ a = "pending" /\ e = p)
  BY <1>2, <1>4, <1>5, <1>7 DEF Members, Lists
<1>9. OnePlace'
  BY <1>2, <1>4, <1>6, <1>8, SpliceOnePlace DEF OwnInv, OnePlace
<1>10. RefCount'
  BY <1>1, <1>2, <1>3, JoinsRefs
<1>11. UsedIsLive'
  <2>1. \A x \in Cookies, e \in Procs : InBox(x, e) => InBox(x, e)'
    BY <1>2, <1>4, <1>5 DEF InBox
  <2>2. \A x \in Cookies \ {c} : used'[x] = used[x]
    BY <1>1, <1>3 DEF Joins, Counted, TypeOK
  <2>3. InBox(c, p)'
    BY <1>5 DEF InBox
  <2> QED  BY <2>1, <2>2, <2>3 DEF UsedIsLive, OwnInv
<1> QED  BY <1>9, <1>10, <1>11 DEF OwnInv

\* A cookie that create_request may take is in use by nobody.
LEMMA AvailableUnused ==
  ASSUME TypeOK, OwnInv, NEW d \in Procs, NEW c \in Cookies, c \in Available(d)
  PROVE  /\ \A e \in Procs : ~ InBox(c, e)
         /\ \A e \in Procs : c \in free[e] => e = d /\ c \in free[d]
         /\ Cardinality(Refs(c)) = 0 /\ lost[c] = 0
<1>1. /\ \A e \in Procs : ~ InBox(c, e)
      /\ \A e \in Procs : c \in free[e] => e = d /\ c \in free[d]
  <2>1. CASE c \in free[d]
    <3>1. c \in Members("free", d)
      BY <2>1 DEF Members
    <3>2. \A a \in Lists, e \in Procs : c \in Members(a, e) => a = "free" /\ e = d
      BY <3>1 DEF OwnInv, OnePlace, Lists
    <3> QED  BY <2>1, <3>2 DEF Members, Lists, InBox
  <2>2. CASE c \in Unallocated
    BY <2>2 DEF Unallocated
  <2> QED  BY <2>1, <2>2 DEF Available
<1>2. used[c] = 0
  BY <1>1 DEF OwnInv, UsedIsLive
<1>3. used[c] = Cardinality(Refs(c)) + lost[c] /\ lost[c] \in Nat /\ Cardinality(Refs(c)) \in Nat
  BY RefsFinite DEF OwnInv, RefCount, TypeOK
<1> QED  BY <1>1, <1>2, <1>3

\* The new cookie counts the request variable it is created for.
LEMMA CreatesRefs ==
  ASSUME TypeOK, OwnInv, NEW p \in Procs, NEW i \in Requests, NEW d \in Procs, NEW c \in Cookies,
         NEW f, Creates(p, i, d, c, f), reqs[p][i] = NoCookie, lost' = lost
  PROVE  RefCount'
<1>1. c \in Available(d) /\ used' = [used EXCEPT ![c] = 1] /\ Holds(p, i, c)
  BY DEF Creates
<1>2. \A x \in Cookies : used'[x] = IF x = c THEN 1 ELSE used[x]
  BY <1>1 DEF TypeOK
<1>3. /\ Cardinality(Refs(c)') = Cardinality(Refs(c)) + 1
      /\ \A x \in Cookies \ {c} : Cardinality(Refs(x)') = Cardinality(Refs(x))
  BY <1>1, HoldsAdds
<1>4. Cardinality(Refs(c)) = 0 /\ lost[c] = 0
  BY <1>1, AvailableUnused
<1> SUFFICES ASSUME NEW x \in Cookies PROVE used'[x] = Cardinality(Refs(x)') + lost'[x]
  BY DEF RefCount
<1>5. used[x] = Cardinality(Refs(x)) + lost[x]
  BY DEF OwnInv, RefCount
<1> QED  BY <1>2, <1>3, <1>4, <1>5

LEMMA OwnIssendPosted ==
  ASSUME TypeOK, OwnInv, NEW p \in Procs, NEW i \in Requests, NEW d \in Procs, NEW t \in Tags,
         IssendPosted(p, i, d, t)
  PROVE  OwnInv'
<1> DEFINE f == Created(p, p, t, Message(p, d, t), NoRecv)
<1>1. PICK c \in Cookies : Creates(p, i, d, c, f) /\ inbox' = Appended(inbox, d, c)
  BY DEF IssendPosted
<1>2. /\ reqs[p][i] = NoCookie
      /\ outbox' = outbox /\ pending' = pending /\ lost' = lost
  BY DEF IssendPosted, Posting
<1>3. c \in Available(d) /\ free' = [free EXCEPT ![d] = @ \ {c}] /\ used' = [used EXCEPT ![c] = 1]
  BY <1>1 DEF Creates
<1>4. /\ \A e \in Procs : ~ InBox(c, e)
      /\ \A e \in Procs : c \in free[e] => e = d
  BY <1>3, AvailableUnused
<1>5. /\ ToSet(inbox'[d]) = ToSet(inbox[d]) \cup {c}
      /\ IsInjective(inbox'[d])
      /\ \A e \in Procs \ {d} : inbox'[e] = inbox[e]
  BY <1>1, <1>4, AppendMembers DEF Appended, TypeOK, OwnInv, OnePlace, InBox
<1>6. \A e \in Procs : free'[e] = free[e] \ {c}
  BY <1>3, <1>4 DEF TypeOK
<1>7. \A a \in Lists, e \in Procs : \A x \in Members(a, e)' :
        (x # c /\ x \in Members(a, e)) \/ (x = c /\ a = "inbox" /\ e = d)
  BY <1>2, <1>4, <1>5, <1>6 DEF Members, Lists, InBox
<1>8. OnePlace'
  <2>1. "inbox" \in Lists
    BY DEF Lists
  <2> QED  BY <1>2, <1>5, <1>7, <2>1, SpliceOnePlace DEF OwnInv, OnePlace
<1>9. RefCount'
  BY <1>1, <1>2, CreatesRefs
<1>10. UsedIsLive'
  <2>1. \A x \in Cookies, e \in Procs : InBox(x, e) => InBox(x, e)'
    BY <1>2, <1>5 DEF InBox
  <2>2. \A x \in Cookies \ {c} : used'[x] = used[x]
    BY <1>3 DEF TypeOK
  <2>3. InBox(c, d)'
    BY <1>5 DEF InBox
  <2> QED  BY <2>1, <2>2, <2>3 DEF UsedIsLive, OwnInv
<1> QED  BY <1>8, <1>9, <1>10 DEF OwnInv

LEMMA OwnIrecvPosted ==
  ASSUME TypeOK, OwnInv, NEW p \in Procs, NEW i \in Requests, NEW s \in Sources, NEW t \in RecvTags,
         IrecvPosted(p, i, s, t)
  PROVE  OwnInv'
<1> DEFINE f == Created(p, s, t, NoMsg, Receive(p, s, t))
<1>1. PICK c \in Cookies : Creates(p, i, p, c, f) /\ outbox' = Appended(outbox, p, c)
  BY DEF IrecvPosted
<1>2. /\ reqs[p][i] = NoCookie
      /\ inbox' = inbox /\ pending' = pending /\ lost' = lost
  BY DEF IrecvPosted, Posting
<1>3. c \in Available(p) /\ free' = [free EXCEPT ![p] = @ \ {c}] /\ used' = [used EXCEPT ![c] = 1]
  BY <1>1 DEF Creates
<1>4. /\ \A e \in Procs : ~ InBox(c, e)
      /\ \A e \in Procs : c \in free[e] => e = p
  BY <1>3, AvailableUnused
<1>5. /\ ToSet(outbox'[p]) = ToSet(outbox[p]) \cup {c}
      /\ IsInjective(outbox'[p])
      /\ \A e \in Procs \ {p} : outbox'[e] = outbox[e]
  BY <1>1, <1>4, AppendMembers DEF Appended, TypeOK, OwnInv, OnePlace, InBox
<1>6. \A e \in Procs : free'[e] = free[e] \ {c}
  BY <1>3, <1>4 DEF TypeOK
<1>7. \A a \in Lists, e \in Procs : \A x \in Members(a, e)' :
        (x # c /\ x \in Members(a, e)) \/ (x = c /\ a = "outbox" /\ e = p)
  BY <1>2, <1>4, <1>5, <1>6 DEF Members, Lists, InBox
<1>8. OnePlace'
  <2>1. "outbox" \in Lists
    BY DEF Lists
  <2> QED  BY <1>2, <1>5, <1>7, <2>1, SpliceOnePlace DEF OwnInv, OnePlace
<1>9. RefCount'
  BY <1>1, <1>2, CreatesRefs
<1>10. UsedIsLive'
  <2>1. \A x \in Cookies, e \in Procs : InBox(x, e) => InBox(x, e)'
    BY <1>2, <1>5 DEF InBox
  <2>2. \A x \in Cookies \ {c} : used'[x] = used[x]
    BY <1>3 DEF TypeOK
  <2>3. InBox(c, p)'
    BY <1>5 DEF InBox
  <2> QED  BY <2>1, <2>2, <2>3 DEF UsedIsLive, OwnInv
<1> QED  BY <1>8, <1>9, <1>10 DEF OwnInv

\* A blocking call that fails turns a reference it holds into a lost one.
LEMMA OwnNotifyDone ==
  ASSUME TypeInv, OwnInv, NEW p \in Procs, NotifyDone(p)
  PROVE  OwnInv'
<1> DEFINE i == slot[p]
<1>1. PICK c \in Cookies : c = reqs[p][i] /\ i \in Requests
  BY DEF NotifyDone, TypeInv, PcOK
<1>2. UNCHANGED <<boxes, used>>
  BY DEF NotifyDone
<1>3. CASE UNCHANGED <<reqs, lost>>
  BY <1>2, <1>3, OwnFrame
<1>4. CASE Holds(p, i, NoCookie) /\ lost' = [lost EXCEPT ![c] = @ + 1]
  <2>1. /\ Cardinality(Refs(c)') = Cardinality(Refs(c)) - 1
        /\ \A x \in Cookies \ {c} : Cardinality(Refs(x)') = Cardinality(Refs(x))
    BY <1>1, <1>4, HoldsDrops DEF TypeInv
  <2>2. \A x \in Cookies : lost'[x] = IF x = c THEN lost[c] + 1 ELSE lost[x]
    BY <1>4 DEF TypeInv, TypeOK
  <2>3. ASSUME NEW x \in Cookies  PROVE used'[x] = Cardinality(Refs(x)') + lost'[x]
    <3>1. used[x] = Cardinality(Refs(x)) + lost[x] /\ lost[x] \in Nat /\ Cardinality(Refs(x)) \in Nat
      BY RefsFinite DEF OwnInv, RefCount, TypeInv, TypeOK
    <3> QED  BY <1>2, <2>1, <2>2, <3>1
  <2>4. RefCount'
    BY <2>3 DEF RefCount
  <2>5. OnePlace'
    <3>1. \A a \in Lists, d \in Procs : Members(a, d)' = Members(a, d)
      BY <1>2 DEF Members, boxes
    <3> QED  BY <1>2, <3>1 DEF OwnInv, OnePlace, boxes
  <2>6. UsedIsLive'
    BY <1>2 DEF OwnInv, UsedIsLive, InBox, boxes
  <2> QED  BY <2>4, <2>5, <2>6 DEF OwnInv
<1> QED  BY <1>1, <1>3, <1>4 DEF NotifyDone, Current

\* process::finalize recycles only what nobody holds: its cookies leave pending
\* for the free list of the same process, or for the pool.
LEMMA OwnLeave ==
  ASSUME TypeInv, OwnInv, NEW p \in Procs, Leave(p)
  PROVE  OwnInv'
<1> DEFINE i == slot[p]
<1>1. PICK c \in Cookies : c = reqs[p][i] /\ i \in Requests
  BY DEF Leave, TypeInv, PcOK
<1>2. PICK o : o = cookie[c].owner
  OBVIOUS
<1>3. PICK K \in SUBSET (free[o] \cup Unused(o)) : free' = [free EXCEPT ![o] = K]
  BY <1>1, <1>2 DEF Leave, Current
<1>4. /\ used' = [used EXCEPT ![c] = @ - 1]
      /\ pending' = [pending EXCEPT ![o] = @ \ Unused(o)]
      /\ Holds(p, i, NoCookie)
      /\ inbox' = inbox /\ outbox' = outbox /\ lost' = lost
  BY <1>1, <1>2 DEF Leave, Current, history
<1>5. /\ \A e \in Procs : pending'[e] = IF e = o THEN pending[e] \ Unused(o) ELSE pending[e]
      /\ \A e \in Procs : free'[e] \subseteq IF e = o THEN free[e] \cup Unused(o) ELSE free[e]
      /\ Unused(o) \subseteq pending[o]
      /\ \A x \in Unused(o) : used'[x] = 0
  BY <1>3, <1>4 DEF TypeInv, TypeOK, Unused
<1>6. RefCount'
  <2>1. /\ Cardinality(Refs(c)') = Cardinality(Refs(c)) - 1
        /\ \A x \in Cookies \ {c} : Cardinality(Refs(x)') = Cardinality(Refs(x))
    BY <1>1, <1>4, HoldsDrops DEF TypeInv
  <2>2. \A x \in Cookies : used'[x] = IF x = c THEN used[c] - 1 ELSE used[x]
    BY <1>4 DEF TypeInv, TypeOK
  <2>3. ASSUME NEW x \in Cookies  PROVE used'[x] = Cardinality(Refs(x)') + lost'[x]
    <3>1. used[x] = Cardinality(Refs(x)) + lost[x] /\ lost[x] \in Nat /\ Cardinality(Refs(x)) \in Nat
      BY RefsFinite DEF OwnInv, RefCount, TypeInv, TypeOK
    <3> QED  BY <1>4, <2>1, <2>2, <3>1
  <2> QED  BY <2>3 DEF RefCount
<1>7. OnePlace'
  <2>1. ASSUME NEW a \in Lists, NEW e \in Procs, NEW x \in Members(a, e)'
        PROVE  \/ x \in Members(a, e) /\ ~ (a = "pending" /\ e = o /\ x \in Unused(o))
               \/ a = "free" /\ e = o /\ x \in Unused(o) /\ x \in Members("pending", e)
    BY <1>4, <1>5, <2>1 DEF Members, Lists
  <2>2. ASSUME NEW a1 \in Lists, NEW a2 \in Lists, NEW e1 \in Procs, NEW e2 \in Procs,
               NEW x \in Members(a1, e1)', x \in Members(a2, e2)'
        PROVE  a1 = a2 /\ e1 = e2
    <3>1. "pending" \in Lists /\ "free" \in Lists
      BY DEF Lists
    <3>2. \A a, b \in Lists, d, e \in Procs :
            x \in Members(a, d) /\ x \in Members(b, e) => a = b /\ d = e
      BY DEF OwnInv, OnePlace
    <3> QED  BY <2>1, <2>2, <3>1, <3>2
  <2> QED  BY <1>4, <2>2 DEF OnePlace, OwnInv
<1>8. UsedIsLive'
  <2> SUFFICES ASSUME NEW x \in Cookies, used'[x] # 0 PROVE \E d \in Procs : InBox(x, d)'
    BY DEF UsedIsLive
  <2>1. used[x] # 0
    <3>1. CASE x = c
      <4>1. <<p, i>> \in Refs(c)
        BY <1>1, <3>1 DEF Refs
      <4>2. Cardinality(Refs(c)) # 0
        BY <4>1, RefsFinite, FS_EmptySet
      <4> QED  BY <3>1, <4>2, RefsFinite DEF OwnInv, RefCount, TypeInv, TypeOK
    <3>2. CASE x # c
      BY <1>4, <3>2 DEF TypeInv, TypeOK
    <3> QED  BY <3>1, <3>2
  <2>2. PICK d \in Procs : InBox(x, d)
    BY <2>1 DEF OwnInv, UsedIsLive
  <2>3. x \notin Unused(o)
    BY <1>5
  <2> QED  BY <1>4, <1>5, <2>2, <2>3 DEF InBox
<1> QED  BY <1>6, <1>7, <1>8 DEF OwnInv

LEMMA OwnStep == TypeInv /\ OwnInv /\ [Next]_vars => OwnInv'
<1> SUFFICES ASSUME TypeInv, OwnInv, [Next]_vars PROVE OwnInv'
  OBVIOUS
<1>1. CASE UNCHANGED vars
  <2>1. UNCHANGED <<boxes, used, reqs, lost>>
    BY <1>1 DEF vars, cookies, history
  <2> QED  BY <2>1, OwnFrame
<1>2. CASE Next
  <2>1. PICK p \in Procs : Step(p)
    BY <1>2 DEF Next
  <2>2. CASE Call(p)
    <3>1. PICK i \in Requests :
            \/ \E d \in Procs, t \in Tags : IssendMatched(p, i, d, t) \/ IssendPosted(p, i, d, t)
            \/ \E s \in Sources, t \in RecvTags : IrecvMatched(p, i, s, t) \/ IrecvPosted(p, i, s, t)
            \/ \E d \in Procs : PoolExhausted(p, d, i)
            \/ Wait(p, i)
            \/ Test(p, i)
      BY <2>2, AskedType DEF Call
    <3>2. CASE (\E d \in Procs : PoolExhausted(p, d, i)) \/ Wait(p, i) \/ Test(p, i)
      <4>1. UNCHANGED <<boxes, used, reqs, lost>>
        BY <3>2 DEF PoolExhausted, Wait, Test, cookies, history
      <4> QED  BY <4>1, OwnFrame
    <3> QED  BY <3>1, <3>2, OwnIssendMatched, OwnIssendPosted, OwnIrecvMatched, OwnIrecvPosted
             DEF TypeInv
  <2>3. CASE Peek(p)
    BY <2>3, OwnFrame DEF Peek, Iprobe, Probe, cookies
  <2>4. CASE Wakes(p)
    BY <2>4, OwnFrame DEF Wakes, WaitWakes, WaitanyWakes, ProbeWakes, cookies, history
  <2>5. CASE Waitany(p) \/ Transfer(p)
    BY <2>5, OwnFrame DEF Waitany, Transfer, cookies, history
  <2>6. CASE NotifyDone(p) \/ Leave(p)
    BY <2>6, OwnNotifyDone, OwnLeave
  <2> QED  BY <2>1, <2>2, <2>3, <2>4, <2>5, <2>6 DEF Step
<1> QED  BY <1>1, <1>2

LEMMA OwnInvariant == Spec => []OwnInv
BY TypeInvariant, OwnInit, OwnStep, PTL DEF Spec

\* used_ is the number of request variables that hold the cookie, plus those a
\* failed blocking call forgot, in every interleaving of join and leave.
THEOREM RefCountCorrect == Spec => []RefCount
BY OwnInvariant, PTL DEF OwnInv

\* The splices between the lists of all processes never put a cookie into two of
\* them or into one of them twice.
THEOREM OnePlaceCorrect == Spec => []OnePlace
BY OwnInvariant, PTL DEF OwnInv

\* No cookie is recycled, or given back to the pool, under a request variable that
\* still holds it, however the leaves of its users interleave.
THEOREM HeldIsLiveCorrect == Spec => []HeldIsLive
<1>1. TypeOK /\ OwnInv => HeldIsLive
  <2> SUFFICES ASSUME TypeOK, OwnInv, NEW p \in Procs, NEW i \in Active(p)
               PROVE  \E d \in Procs : InBox(reqs[p][i], d)
    BY DEF HeldIsLive
  <2>1. PICK c \in Cookies : c = reqs[p][i]
    BY DEF TypeOK, Active
  <2>2. <<p, i>> \in Refs(c)
    BY <2>1 DEF Refs, Active
  <2>3. Cardinality(Refs(c)) # 0
    BY <2>2, RefsFinite, FS_EmptySet
  <2>4. used[c] # 0
    BY <2>3, RefsFinite DEF OwnInv, RefCount, TypeOK
  <2> QED  BY <2>1, <2>4 DEF OwnInv, UsedIsLive
<1> QED  BY <1>1, TypeInvariant, OwnInvariant, PTL DEF TypeInv

-----------------------------------------------------------------------------
(* What cookies stand for                                                  *)

\* A cookie in the inbox of d is a send to d, one in its outbox a receive of d, and a
\* pending one a pair of both. The tag is what is left of it in 16 bits.
IsSend(c, d) ==
  /\ cookie[c].msg \in Messages /\ cookie[c].msg.to = d /\ cookie[c].recv = NoRecv
  /\ cookie[c].owner = cookie[c].msg.from /\ cookie[c].src = cookie[c].msg.from
  /\ cookie[c].tag = Int16(cookie[c].msg.tag)
  /\ cookie[c].err = MPI_SUCCESS /\ busy[c] = 1

IsRecv(c, d) ==
  /\ cookie[c].recv \in Receives /\ cookie[c].recv.at = d /\ cookie[c].msg = NoMsg
  /\ cookie[c].owner = d /\ cookie[c].src = cookie[c].recv.src
  /\ cookie[c].tag = Int16(cookie[c].recv.tag)
  /\ cookie[c].err = MPI_SUCCESS /\ busy[c] = 1

IsPair(c, d) ==
  /\ cookie[c].msg \in Messages /\ cookie[c].msg.to = d
  /\ cookie[c].recv \in Receives /\ cookie[c].recv.at = d
  /\ cookie[c].owner \in Procs /\ cookie[c].src = cookie[c].msg.from
  /\ cookie[c].tag = Int16(cookie[c].msg.tag)
  /\ busy[c] = 1 => cookie[c].err = MPI_SUCCESS

Contents ==
  \A d \in Procs :
    /\ \A c \in ToSet(inbox[d]) : IsSend(c, d)
    /\ \A c \in ToSet(outbox[d]) : IsRecv(c, d)
    /\ \A c \in pending[d] : IsPair(c, d)

\* The outcome of the pair c stands for, with error err.
Outcome(c, err) == [msg |-> cookie[c].msg, recv |-> cookie[c].recv, err |-> err]

\* A cookie that waits for a match has no mover, a pending one as long as it is busy.
OneEach ==
  \A d \in Procs :
    /\ \A c \in ToSet(inbox[d]) \cup ToSet(outbox[d]) : Movers(c) = {}
    /\ \A c \in pending[d] :
         \/ busy[c] = 1 /\ \E p \in Procs : Movers(c) = {p}
         \/ busy[c] = 0 /\ Movers(c) = {} /\ Outcome(c, cookie[c].err) \in outcome

\* A mover knows what has become of the data when it tells the owner.
Moved == \A p \in Procs : pc[p] = "notify" => Outcome(Current(p), ret[p]) \in outcome

\* Who holds the cookie of another process is its mover, or was.
ForeignMoved ==
  \A p \in Procs, i \in Requests :
    reqs[p][i] # NoCookie /\ cookie[reqs[p][i]].owner # p =>
      busy[reqs[p][i]] = 0 \/ (pc[p] \in {"transfer", "notify"} /\ slot[p] = i)

\* MPI_Wait and MPI_Test let go of a request only when its data has been moved.
LeavesDone == \A p \in Procs : pc[p] = "leave" => busy[Current(p)] = 0

MoveInv == Contents /\ OneEach /\ Moved /\ ForeignMoved

-----------------------------------------------------------------------------
(* Facts about cookies and their movers                                    *)

\* A cookie is in one list: what OnePlace says of each kind.
LEMMA Placed ==
  ASSUME OwnInv, NEW d \in Procs, NEW e \in Procs, NEW c
  PROVE  /\ c \in ToSet(inbox[d]) => c \notin ToSet(outbox[e]) /\ c \notin pending[e]
         /\ c \in ToSet(outbox[d]) => c \notin pending[e]
         /\ c \in ToSet(inbox[d]) \cap ToSet(inbox[e]) => d = e
         /\ c \in ToSet(outbox[d]) \cap ToSet(outbox[e]) => d = e
         /\ c \in pending[d] \cap pending[e] => d = e
<1>1. "inbox" \in Lists /\ "outbox" \in Lists /\ "pending" \in Lists
  BY DEF Lists
<1>2. /\ Members("inbox", d) = ToSet(inbox[d]) /\ Members("inbox", e) = ToSet(inbox[e])
      /\ Members("outbox", d) = ToSet(outbox[d]) /\ Members("outbox", e) = ToSet(outbox[e])
      /\ Members("pending", d) = pending[d] /\ Members("pending", e) = pending[e]
  BY DEF Members
<1>3. \A a, b \in Lists : c \in Members(a, d) /\ c \in Members(b, e) => a = b /\ d = e
  BY DEF OwnInv, OnePlace
<1> QED  BY <1>1, <1>2, <1>3

\* A cookie in a request variable is used and in the list of a request in progress.
LEMMA HeldLives ==
  ASSUME TypeInv, OwnInv, NEW p \in Procs, NEW i \in Requests, NEW c \in Cookies, reqs[p][i] = c
  PROVE  /\ used[c] > 0
         /\ \E d \in Procs : c \in ToSet(inbox[d]) \/ c \in ToSet(outbox[d]) \/ c \in pending[d]
<1>1. <<p, i>> \in Refs(c)
  BY DEF Refs
<1>2. Cardinality(Refs(c)) # 0
  BY <1>1, RefsFinite, FS_EmptySet
<1>3. used[c] > 0
  BY <1>2, RefsFinite DEF OwnInv, RefCount, TypeInv, TypeOK
<1> QED  BY <1>3 DEF OwnInv, UsedIsLive, InBox

\* So nobody holds a cookie that may be created.
LEMMA AvailableFree ==
  ASSUME TypeInv, OwnInv, NEW d \in Procs, NEW c \in Cookies, c \in Available(d)
  PROVE  /\ \A e \in Procs : c \notin ToSet(inbox[e]) /\ c \notin ToSet(outbox[e]) /\ c \notin pending[e]
         /\ \A p \in Procs, i \in Requests : reqs[p][i] # c
<1>1. \A e \in Procs : ~ InBox(c, e)
  BY AvailableUnused DEF TypeInv
<1>2. \A e \in Procs : c \notin ToSet(inbox[e]) /\ c \notin ToSet(outbox[e]) /\ c \notin pending[e]
  BY <1>1 DEF InBox
<1> QED  BY <1>2, HeldLives

\* The request of a call in progress.
LEMMA CurrentType ==
  ASSUME TypeInv, NEW p \in Procs, pc[p] \in {"transfer", "notify", "wait", "leave"}
  PROVE  slot[p] \in Requests /\ Current(p) \in Cookies /\ Current(p) = reqs[p][slot[p]]
BY DEF TypeInv, PcOK, Current

\* Where p stays out of its transfers nobody becomes a mover or ceases to be one.
LEMMA MoversFrame ==
  ASSUME NEW p \in Procs, {pc[p], pc'[p]} \cap {"transfer", "notify"} = {},
         \A q \in Procs \ {p} : pc'[q] = pc[q] /\ slot'[q] = slot[q] /\ reqs'[q] = reqs[q]
  PROVE  /\ \A c : Movers(c)' = Movers(c)
         /\ \A q \in Procs \ {p} : Current(q)' = Current(q)
<1>1. \A q \in Procs \ {p} : Current(q)' = Current(q)
  BY DEF Current
<1> QED  BY <1>1 DEF Movers

\* p joins a cookie and becomes its mover.
LEMMA JoinsMovers ==
  ASSUME TypeInv, NEW p \in Procs, NEW i \in Requests, NEW c \in Cookies,
         pc[p] = "idle", Joins(p, i, c)
  PROVE  /\ Movers(c)' = Movers(c) \cup {p}
         /\ \A x : x # c => Movers(x)' = Movers(x)
         /\ \A q \in Procs \ {p} : Current(q)' = Current(q) /\ pc'[q] = pc[q] /\ slot'[q] = slot[q]
         /\ pc'[p] = "transfer" /\ slot'[p] = i /\ Current(p)' = c
         /\ \A q \in Procs, j \in Requests : reqs'[q][j] = IF q = p /\ j = i THEN c ELSE reqs[q][j]
<1>1. /\ pc'[p] = "transfer" /\ slot'[p] = i
      /\ \A q \in Procs \ {p} : pc'[q] = pc[q] /\ slot'[q] = slot[q] /\ reqs'[q] = reqs[q]
      /\ \A q \in Procs, j \in Requests : reqs'[q][j] = IF q = p /\ j = i THEN c ELSE reqs[q][j]
  BY DEF Joins, Holds, TypeInv, TypeOK
<1>2. Current(p)' = c /\ \A q \in Procs \ {p} : Current(q)' = Current(q)
  BY <1>1 DEF Current
<1>3. Movers(c)' = Movers(c) \cup {p}
  BY <1>1, <1>2 DEF Movers
<1>4. \A x : x # c => Movers(x)' = Movers(x)
  BY <1>1, <1>2 DEF Movers
<1> QED  BY <1>1, <1>2, <1>3, <1>4

\* p returns from its call, having been a mover or not.
LEMMA ReturnsMovers ==
  ASSUME TypeInv, NEW p \in Procs, pc[p] \in {"transfer", "notify", "leave"}, Returns(p),
         \A q \in Procs \ {p} : reqs'[q] = reqs[q]
  PROVE  /\ \A x : Movers(x)' = Movers(x) \ {p}
         /\ \A q \in Procs \ {p} : Current(q)' = Current(q) /\ pc'[q] = pc[q] /\ ret'[q] = ret[q]
         /\ pc'[p] = "idle"
<1>1. /\ pc'[p] = "idle"
      /\ \A q \in Procs \ {p} : pc'[q] = pc[q] /\ slot'[q] = slot[q] /\ reqs'[q] = reqs[q] /\ ret'[q] = ret[q]
  BY DEF Returns, TypeInv, TypeOK
<1>2. \A q \in Procs \ {p} : Current(q)' = Current(q)
  BY <1>1 DEF Current
<1> QED  BY <1>1, <1>2 DEF Movers

-----------------------------------------------------------------------------
(* The steps that matter to the requests                                   *)

\* p goes to sleep, wakes up, decides that a request is done, or looks at its inbox.
Waits(p) ==
  /\ {pc[p], pc'[p]} \cap {"transfer", "notify"} = {}
  /\ \A q \in Procs \ {p} : pc'[q] = pc[q] /\ slot'[q] = slot[q]
  /\ UNCHANGED <<boxes, cookies, ret, reqs, posted, lost, outcome>>
  /\ UNCHANGED probed \/ \E s \in Sources, t \in RecvTags : Reports(p, s, t)

LEMMA WaitSteps ==
  ASSUME TypeInv, NEW p \in Procs,
         \/ Waitany(p) \/ Wakes(p) \/ Peek(p)
         \/ \E i \in Requests : Wait(p, i) \/ Test(p, i) \/ \E d \in Procs : PoolExhausted(p, d, i)
  PROVE  Waits(p)
<1> USE DEF TypeInv, TypeOK, history
<1>1. ASSUME NEW i \in Requests, Wait(p, i)  PROVE Waits(p)
  BY <1>1 DEF Wait, Idle, Sleeps, Waits
<1>2. ASSUME NEW i \in Requests, Test(p, i)  PROVE Waits(p)
  BY <1>2 DEF Test, Idle, Waits
<1>3. ASSUME NEW i \in Requests, NEW d \in Procs, PoolExhausted(p, d, i)  PROVE Waits(p)
  BY <1>3 DEF PoolExhausted, Posting, Idle, Waits, calls
<1>4. CASE WaitWakes(p)
  BY <1>4 DEF WaitWakes, Sleeps, StopsWaiting, Waits
<1>5. CASE ProbeWakes(p)
  BY <1>5 DEF ProbeWakes, Sleeps, StopsWaiting, Waits
<1>6. CASE Waitany(p) \/ WaitanyWakes(p)
  <2>1. /\ pc[p] \in {"idle", "wait_any"} /\ UNCHANGED <<boxes, cookies, ret, reqs, history>>
        /\ (\E j : WaitanyCompletes(p, j)) \/ WaitanySleeps(p)
    BY <1>6 DEF Waitany, WaitanyWakes, WaitanyServes, Idle
  <2>2. ASSUME NEW j, WaitanyCompletes(p, j)  PROVE Waits(p)
    BY <2>1, <2>2 DEF WaitanyCompletes, StopsWaiting, Waits
  <2>3. CASE WaitanySleeps(p)
    BY <2>1, <2>3 DEF WaitanySleeps, Sleeps, Waits
  <2> QED  BY <2>1, <2>2, <2>3
<1>7. CASE Peek(p)
  <2>1. PICK s \in Sources, t \in RecvTags : Iprobe(p, s, t) \/ Probe(p, s, t)
    BY <1>7, AskedType DEF Peek
  <2>2. CASE Iprobe(p, s, t)
    BY <2>2 DEF Iprobe, Idle, Waits, calls
  <2>3. CASE Probe(p, s, t)
    BY <2>3 DEF Probe, Idle, Sleeps, Waits
  <2> QED  BY <2>1, <2>2, <2>3
<1> QED  BY <1>1, <1>2, <1>3, <1>4, <1>5, <1>6, <1>7 DEF Wakes

\* Every step is one of these seven, or leaves everything as it was.
LEMMA Kinds ==
  ASSUME TypeInv, [Next]_vars
  PROVE  \/ UNCHANGED vars
         \/ \E p \in Procs :
              \/ \E i \in Requests, d \in Procs, t \in Tags : IssendMatched(p, i, d, t) \/ IssendPosted(p, i, d, t)
              \/ \E i \in Requests, s \in Sources, t \in RecvTags : IrecvMatched(p, i, s, t) \/ IrecvPosted(p, i, s, t)
              \/ Transfer(p) \/ NotifyDone(p) \/ Leave(p) \/ Waits(p)
<1> SUFFICES ASSUME NEW p \in Procs, Step(p), ~ Waits(p)
             PROVE  \/ \E i \in Requests, d \in Procs, t \in Tags : IssendMatched(p, i, d, t) \/ IssendPosted(p, i, d, t)
                    \/ \E i \in Requests, s \in Sources, t \in RecvTags : IrecvMatched(p, i, s, t) \/ IrecvPosted(p, i, s, t)
                    \/ Transfer(p) \/ NotifyDone(p) \/ Leave(p)
  BY DEF Next
<1>1. CASE Call(p)
  BY <1>1, WaitSteps, AskedType DEF Call
<1> QED  BY <1>1, WaitSteps DEF Step

-----------------------------------------------------------------------------
(* What posting a request does                                             *)

\* What MPI_Issend does when it has found the receive c, the kth in the outbox of d.
FoundRecv(p, i, d, t, k, c) ==
  /\ k \in Awaited(d, p, t) /\ IsFirst(k, Awaited(d, p, t))
  /\ c = outbox[d][k] /\ c \in ToSet(outbox[d])
  /\ outbox' = Taken(outbox, d, k)
  /\ ToSet(outbox'[d]) = ToSet(outbox[d]) \ {c}
  /\ \A e \in Procs \ {d} : outbox'[e] = outbox[e]
  /\ \A e \in Procs : pending'[e] = IF e = d THEN pending[e] \cup {c} ELSE pending[e]
  /\ cookie'[c].src = p /\ cookie'[c].tag = Int16(t) /\ cookie'[c].msg = Message(p, d, t)
  /\ cookie'[c].recv = cookie[c].recv /\ cookie'[c].owner = cookie[c].owner
  /\ cookie'[c].err = cookie[c].err
  /\ \A x \in Cookies \ {c} : cookie'[x] = cookie[x]
  /\ Joins(p, i, c)

\* MPI_Issend has found the receive c.
LEMMA SendMeets ==
  ASSUME TypeInv, OwnInv, NEW p \in Procs, NEW i \in Requests, NEW d \in Procs, NEW t \in Tags,
         IssendMatched(p, i, d, t)
  PROVE  \E k \in DOMAIN outbox[d], c \in Cookies : FoundRecv(p, i, d, t, k, c)
<1>1. PICK k \in Awaited(d, p, t) :
        /\ IsFirst(k, Awaited(d, p, t))
        /\ outbox'  = Taken(outbox, d, k)
        /\ pending' = [pending EXCEPT ![d] = @ \cup {outbox[d][k]}]
        /\ cookie'  = MeetsSend(outbox[d][k], p, t, Message(p, d, t))
        /\ Joins(p, i, outbox[d][k])
  BY DEF IssendMatched
<1>2. PICK c \in Cookies : /\ c = outbox[d][k] /\ c \in ToSet(outbox[d])
                          /\ outbox[d] \in Seq(Cookies) /\ k \in DOMAIN outbox[d]
  BY MembersAre DEF TypeInv, TypeOK, Awaited, ToSet
<1>3. /\ ToSet(outbox'[d]) = ToSet(outbox[d]) \ {c}
      /\ \A e \in Procs \ {d} : outbox'[e] = outbox[e]
  BY <1>1, <1>2, RemoveAtMembers DEF Taken, TypeInv, TypeOK, OwnInv, OnePlace
<1>4. \A e \in Procs : pending'[e] = IF e = d THEN pending[e] \cup {c} ELSE pending[e]
  BY <1>1, <1>2 DEF TypeInv, TypeOK
<1>5. /\ cookie'[c] = [cookie[c] EXCEPT !.src = p, !.tag = Int16(t), !.msg = Message(p, d, t)]
      /\ \A x \in Cookies \ {c} : cookie'[x] = cookie[x]
  BY <1>1, <1>2 DEF MeetsSend, TypeInv, TypeOK
<1>6. cookie[c] \in CookieRecords
  BY DEF TypeInv, TypeOK
<1>7. /\ cookie'[c].src = p /\ cookie'[c].tag = Int16(t) /\ cookie'[c].msg = Message(p, d, t)
      /\ cookie'[c].recv = cookie[c].recv /\ cookie'[c].owner = cookie[c].owner
      /\ cookie'[c].err = cookie[c].err
  BY <1>5, <1>6 DEF CookieRecords
<1> QED  BY <1>1, <1>2, <1>3, <1>4, <1>5, <1>7 DEF FoundRecv

\* What MPI_Irecv does when it has found the send c, the kth in the inbox of p.
FoundSend(p, i, s, t, k, c) ==
  /\ k \in Incoming(p, s, t) /\ IsFirst(k, Incoming(p, s, t))
  /\ c = inbox[p][k] /\ c \in ToSet(inbox[p])
  /\ inbox' = Taken(inbox, p, k)
  /\ ToSet(inbox'[p]) = ToSet(inbox[p]) \ {c}
  /\ \A e \in Procs \ {p} : inbox'[e] = inbox[e]
  /\ \A e \in Procs : pending'[e] = IF e = p THEN pending[e] \cup {c} ELSE pending[e]
  /\ cookie'[c].recv = Receive(p, s, t)
  /\ cookie'[c].src = cookie[c].src /\ cookie'[c].tag = cookie[c].tag
  /\ cookie'[c].msg = cookie[c].msg /\ cookie'[c].owner = cookie[c].owner
  /\ cookie'[c].err = cookie[c].err
  /\ \A x \in Cookies \ {c} : cookie'[x] = cookie[x]
  /\ Joins(p, i, c)

\* MPI_Irecv has found the send c.
LEMMA RecvMeets ==
  ASSUME TypeInv, OwnInv, NEW p \in Procs, NEW i \in Requests, NEW s \in Sources, NEW t \in RecvTags,
         IrecvMatched(p, i, s, t)
  PROVE  \E k \in DOMAIN inbox[p], c \in Cookies : FoundSend(p, i, s, t, k, c)
<1>1. PICK k \in Incoming(p, s, t) :
        /\ IsFirst(k, Incoming(p, s, t))
        /\ inbox'   = Taken(inbox, p, k)
        /\ pending' = [pending EXCEPT ![p] = @ \cup {inbox[p][k]}]
        /\ cookie'  = [cookie EXCEPT ![inbox[p][k]].recv = Receive(p, s, t)]
        /\ Joins(p, i, inbox[p][k])
  BY DEF IrecvMatched
<1>2. PICK c \in Cookies : /\ c = inbox[p][k] /\ c \in ToSet(inbox[p])
                          /\ inbox[p] \in Seq(Cookies) /\ k \in DOMAIN inbox[p]
  BY MembersAre DEF TypeInv, TypeOK, Incoming, ToSet
<1>3. /\ ToSet(inbox'[p]) = ToSet(inbox[p]) \ {c}
      /\ \A e \in Procs \ {p} : inbox'[e] = inbox[e]
  BY <1>1, <1>2, RemoveAtMembers DEF Taken, TypeInv, TypeOK, OwnInv, OnePlace
<1>4. \A e \in Procs : pending'[e] = IF e = p THEN pending[e] \cup {c} ELSE pending[e]
  BY <1>1, <1>2 DEF TypeInv, TypeOK
<1>5. /\ cookie'[c] = [cookie[c] EXCEPT !.recv = Receive(p, s, t)]
      /\ \A x \in Cookies \ {c} : cookie'[x] = cookie[x]
  BY <1>1, <1>2 DEF TypeInv, TypeOK
<1>6. cookie[c] \in CookieRecords
  BY DEF TypeInv, TypeOK
<1>7. /\ cookie'[c].recv = Receive(p, s, t)
      /\ cookie'[c].src = cookie[c].src /\ cookie'[c].tag = cookie[c].tag
      /\ cookie'[c].msg = cookie[c].msg /\ cookie'[c].owner = cookie[c].owner
      /\ cookie'[c].err = cookie[c].err
  BY <1>5, <1>6 DEF CookieRecords
<1> QED  BY <1>1, <1>2, <1>3, <1>4, <1>5, <1>7 DEF FoundSend

\* MPI_Issend or MPI_Irecv of p has made the new cookie c, with fields f, for a list of d.
LEMMA CreatesNew ==
  ASSUME TypeInv, OwnInv, NEW p \in Procs, NEW i \in Requests, NEW d \in Procs, NEW c \in Cookies,
         NEW f, pc[p] = "idle", UNCHANGED calls, Creates(p, i, d, c, f)
  PROVE  /\ \A e \in Procs : c \notin ToSet(inbox[e]) /\ c \notin ToSet(outbox[e]) /\ c \notin pending[e]
         /\ \A q \in Procs, j \in Requests : reqs[q][j] # c
         /\ cookie'[c] = f /\ \A x \in Cookies \ {c} : cookie'[x] = cookie[x]
         /\ busy'[c] = 1 /\ \A x \in Cookies \ {c} : busy'[x] = busy[x]
         /\ \A q \in Procs, j \in Requests : reqs'[q][j] = IF q = p /\ j = i THEN c ELSE reqs[q][j]
         /\ \A x : Movers(x)' = Movers(x)
         /\ \A q \in Procs \ {p} : Current(q)' = Current(q)
         /\ Movers(c) = {}
<1>1. /\ c \in Available(d) /\ Holds(p, i, c)
      /\ cookie' = [cookie EXCEPT ![c] = f] /\ busy' = [busy EXCEPT ![c] = 1]
  BY DEF Creates
<1>2. /\ \A e \in Procs : c \notin ToSet(inbox[e]) /\ c \notin ToSet(outbox[e]) /\ c \notin pending[e]
      /\ \A q \in Procs, j \in Requests : reqs[q][j] # c
  BY <1>1, AvailableFree
<1>3. /\ \A q \in Procs, j \in Requests : reqs'[q][j] = IF q = p /\ j = i THEN c ELSE reqs[q][j]
      /\ \A q \in Procs \ {p} : reqs'[q] = reqs[q]
  BY <1>1 DEF Holds, TypeInv, TypeOK
<1>4. pc'[p] = "idle" /\ \A q \in Procs \ {p} : pc'[q] = pc[q] /\ slot'[q] = slot[q]
  BY DEF calls
<1>5. /\ \A x : Movers(x)' = Movers(x)
      /\ \A q \in Procs \ {p} : Current(q)' = Current(q)
  BY <1>3, <1>4, MoversFrame
<1>6. Movers(c) = {}
  BY <1>2, CurrentType DEF Movers
<1>7. /\ cookie'[c] = f /\ \A x \in Cookies \ {c} : cookie'[x] = cookie[x]
      /\ busy'[c] = 1 /\ \A x \in Cookies \ {c} : busy'[x] = busy[x]
  BY <1>1 DEF TypeInv, TypeOK
<1> QED  BY <1>2, <1>3, <1>5, <1>6, <1>7

\* MPI_Issend has put the new send c into the inbox of d.
LEMMA SendWaits ==
  ASSUME TypeInv, OwnInv, NEW p \in Procs, NEW i \in Requests, NEW d \in Procs, NEW t \in Tags,
         IssendPosted(p, i, d, t)
  PROVE  \E c \in Cookies :
           /\ Creates(p, i, d, c, Created(p, p, t, Message(p, d, t), NoRecv))
           /\ inbox' = Appended(inbox, d, c)
           /\ ToSet(inbox'[d]) = ToSet(inbox[d]) \cup {c}
           /\ \A e \in Procs \ {d} : inbox'[e] = inbox[e]
<1>1. PICK c \in Cookies : /\ Creates(p, i, d, c, Created(p, p, t, Message(p, d, t), NoRecv))
                          /\ inbox' = Appended(inbox, d, c)
  BY DEF IssendPosted
<1>2. /\ ToSet(inbox'[d]) = ToSet(inbox[d]) \cup {c}
      /\ \A e \in Procs \ {d} : inbox'[e] = inbox[e]
  BY <1>1, AppendMembers DEF Appended, TypeInv, TypeOK
<1> QED  BY <1>1, <1>2

\* MPI_Irecv has put the new receive c into the outbox of p.
LEMMA RecvWaits ==
  ASSUME TypeInv, OwnInv, NEW p \in Procs, NEW i \in Requests, NEW s \in Sources, NEW t \in RecvTags,
         IrecvPosted(p, i, s, t)
  PROVE  \E c \in Cookies :
           /\ Creates(p, i, p, c, Created(p, s, t, NoMsg, Receive(p, s, t)))
           /\ outbox' = Appended(outbox, p, c)
           /\ ToSet(outbox'[p]) = ToSet(outbox[p]) \cup {c}
           /\ \A e \in Procs \ {p} : outbox'[e] = outbox[e]
<1>1. PICK c \in Cookies : /\ Creates(p, i, p, c, Created(p, s, t, NoMsg, Receive(p, s, t)))
                          /\ outbox' = Appended(outbox, p, c)
  BY DEF IrecvPosted
<1>2. /\ ToSet(outbox'[p]) = ToSet(outbox[p]) \cup {c}
      /\ \A e \in Procs \ {p} : outbox'[e] = outbox[e]
  BY <1>1, AppendMembers DEF Appended, TypeInv, TypeOK
<1> QED  BY <1>1, <1>2

-----------------------------------------------------------------------------
(* Each step preserves the invariant                                       *)

LEMMA SameCookie ==
  ASSUME NEW x, cookie'[x] = cookie[x], busy'[x] = busy[x], NEW d
  PROVE  /\ IsSend(x, d) => IsSend(x, d)'
         /\ IsRecv(x, d) => IsRecv(x, d)'
         /\ IsPair(x, d) => IsPair(x, d)'
BY DEF IsSend, IsRecv, IsPair

LEMMA ListTypes ==
  ASSUME TypeInv, NEW d \in Procs
  PROVE  ToSet(inbox[d]) \subseteq Cookies /\ ToSet(outbox[d]) \subseteq Cookies /\ pending[d] \subseteq Cookies
BY MembersAre DEF TypeInv, TypeOK

LEMMA MoveInit == Init => MoveInv
<1> SUFFICES ASSUME Init PROVE MoveInv
  OBVIOUS
<1>1. \A d \in Procs : ToSet(inbox[d]) = {} /\ ToSet(outbox[d]) = {} /\ pending[d] = {}
  BY DEF Init, ToSet
<1> QED  BY <1>1 DEF Init, MoveInv, Contents, OneEach, Moved, ForeignMoved

\* Where no cookie changes its list, its fields or its mover.
LEMMA MoveFrame ==
  ASSUME TypeInv, MoveInv, NEW p \in Procs, Waits(p)
  PROVE  MoveInv'
<1>1. /\ {pc[p], pc'[p]} \cap {"transfer", "notify"} = {}
      /\ \A q \in Procs \ {p} : pc'[q] = pc[q] /\ slot'[q] = slot[q]
      /\ UNCHANGED <<inbox, outbox, pending, cookie, busy, ret, reqs, outcome>>
  BY DEF Waits, boxes, cookies
<1>2. /\ \A c : Movers(c)' = Movers(c)
      /\ \A q \in Procs \ {p} : Current(q)' = Current(q)
  BY <1>1, MoversFrame
<1>3. Contents'
  BY <1>1 DEF MoveInv, Contents, IsSend, IsRecv, IsPair
<1>4. OneEach'
  BY <1>1, <1>2 DEF MoveInv, OneEach, Outcome
<1>5. Moved'
  BY <1>1, <1>2 DEF MoveInv, Moved, Outcome
<1>6. ForeignMoved'
  <2> SUFFICES ASSUME NEW q \in Procs, NEW j \in Requests, reqs[q][j] # NoCookie, cookie[reqs[q][j]].owner # q
               PROVE  busy[reqs[q][j]] = 0 \/ (pc'[q] \in {"transfer", "notify"} /\ slot'[q] = j)
    BY <1>1 DEF ForeignMoved
  <2>1. busy[reqs[q][j]] = 0 \/ (pc[q] \in {"transfer", "notify"} /\ slot[q] = j)
    BY DEF MoveInv, ForeignMoved
  <2> QED  BY <1>1, <2>1
<1> QED  BY <1>3, <1>4, <1>5, <1>6 DEF MoveInv

\* p has matched cookie c, which goes from inbox or outbox of d to its pending cookies.
LEMMA MoveMeets ==
  ASSUME TypeInv, OwnInv, MoveInv, NEW p \in Procs, NEW i \in Requests, NEW c \in Cookies, NEW d \in Procs,
         pc[p] = "idle", Joins(p, i, c), c \in ToSet(inbox[d]) \cup ToSet(outbox[d]),
         \A e \in Procs : ToSet(inbox'[e]) \subseteq ToSet(inbox[e]) \ {c},
         \A e \in Procs : ToSet(outbox'[e]) \subseteq ToSet(outbox[e]) \ {c},
         \A e \in Procs : pending'[e] = IF e = d THEN pending[e] \cup {c} ELSE pending[e],
         \A x \in Cookies \ {c} : cookie'[x] = cookie[x],
         cookie'[c].owner = cookie[c].owner,
         UNCHANGED <<busy, ret, outcome>>,
         IsPair(c, d)'
  PROVE  MoveInv'
<1>1. /\ Movers(c)' = Movers(c) \cup {p}
      /\ \A x : x # c => Movers(x)' = Movers(x)
      /\ \A q \in Procs \ {p} : Current(q)' = Current(q) /\ pc'[q] = pc[q] /\ slot'[q] = slot[q]
      /\ pc'[p] = "transfer" /\ slot'[p] = i
      /\ \A q \in Procs, j \in Requests : reqs'[q][j] = IF q = p /\ j = i THEN c ELSE reqs[q][j]
  BY JoinsMovers
<1>2. Movers(c) = {} /\ busy[c] = 1
  <2>1. IsSend(c, d) \/ IsRecv(c, d)
    BY DEF MoveInv, Contents
  <2>2. Movers(c) = {}
    BY DEF MoveInv, OneEach
  <2> QED  BY <2>1, <2>2 DEF IsSend, IsRecv
<1> DEFINE Old(e) == /\ \A x \in ToSet(inbox'[e]) : x \in ToSet(inbox[e]) /\ x \in Cookies \ {c}
                     /\ \A x \in ToSet(outbox'[e]) : x \in ToSet(outbox[e]) /\ x \in Cookies \ {c}
                     /\ \A x \in pending'[e] : (x = c /\ e = d) \/ (x \in pending[e] /\ x \in Cookies \ {c})
<1>0. ASSUME NEW e \in Procs  PROVE Old(e)
  <2>1. c \notin pending[e]
    BY Placed
  <2>2. ToSet(inbox[e]) \subseteq Cookies /\ ToSet(outbox[e]) \subseteq Cookies /\ pending[e] \subseteq Cookies
    BY ListTypes
  <2>3. ASSUME NEW x \in pending'[e]  PROVE (x = c /\ e = d) \/ (x \in pending[e] /\ x \in Cookies \ {c})
    BY ZenonT(60), <2>1, <2>2
  <2> QED  BY <2>2, <2>3
<1> HIDE DEF Old
<1>3. Contents'
  <2> SUFFICES ASSUME NEW e \in Procs
               PROVE  /\ \A x \in ToSet(inbox'[e]) : IsSend(x, e)'
                      /\ \A x \in ToSet(outbox'[e]) : IsRecv(x, e)'
                      /\ \A x \in pending'[e] : IsPair(x, e)'
    BY DEF Contents
  <2>1. /\ \A x \in ToSet(inbox[e]) : IsSend(x, e)
        /\ \A x \in ToSet(outbox[e]) : IsRecv(x, e)
        /\ \A x \in pending[e] : IsPair(x, e)
    BY DEF MoveInv, Contents
  <2>2. \A x \in Cookies \ {c} : cookie'[x] = cookie[x] /\ busy'[x] = busy[x]
    OBVIOUS
  <2> QED  BY <1>0, <2>1, <2>2, SameCookie DEF Old
<1>4. OneEach'
  <2> SUFFICES ASSUME NEW e \in Procs
               PROVE  /\ \A x \in ToSet(inbox'[e]) \cup ToSet(outbox'[e]) : Movers(x)' = {}
                      /\ \A x \in pending'[e] :
                           \/ busy[x] = 1 /\ \E q \in Procs : Movers(x)' = {q}
                           \/ busy[x] = 0 /\ Movers(x)' = {} /\ Outcome(x, cookie[x].err)' \in outcome
    BY DEF OneEach, Outcome
  <2>1. \A x \in ToSet(inbox'[e]) \cup ToSet(outbox'[e]) : Movers(x)' = {}
    <3>1. \A x \in ToSet(inbox[e]) \cup ToSet(outbox[e]) : Movers(x) = {}
      BY DEF MoveInv, OneEach
    <3> QED  BY <1>1, <1>0, <3>1 DEF Old
  <2>2. ASSUME NEW x \in pending'[e]
        PROVE  \/ busy[x] = 1 /\ \E q \in Procs : Movers(x)' = {q}
               \/ busy[x] = 0 /\ Movers(x)' = {} /\ Outcome(x, cookie[x].err)' \in outcome
    <3>1. CASE x = c
      BY <1>1, <1>2, <3>1
    <3>2. CASE x # c
      <4>1. x \in pending[e] /\ x \in Cookies \ {c}
        BY <1>0, <3>2 DEF Old
      <4>2. Outcome(x, cookie[x].err)' = Outcome(x, cookie[x].err)
        BY <4>1 DEF Outcome
      <4> QED  BY <1>1, <3>2, <4>1, <4>2 DEF MoveInv, OneEach
    <3> QED  BY <3>1, <3>2
  <2> QED  BY <2>1, <2>2
<1>5. Moved'
  <2> SUFFICES ASSUME NEW q \in Procs, pc'[q] = "notify"
               PROVE  Outcome(Current(q), ret[q])' \in outcome
    BY DEF Moved, Outcome
  <2>1. q # p /\ pc[q] = "notify" /\ Current(q)' = Current(q) /\ Current(q) \in Cookies
    BY <1>1, CurrentType
  <2>2. Current(q) # c
    BY <1>2, <2>1 DEF Movers
  <2>3. cookie'[Current(q)] = cookie[Current(q)] /\ Outcome(Current(q), ret[q]) \in outcome
    BY <2>1, <2>2 DEF MoveInv, Moved
  <2> QED  BY <2>1, <2>3 DEF Outcome
<1>6. ForeignMoved'
  <2> SUFFICES ASSUME NEW q \in Procs, NEW j \in Requests, reqs'[q][j] # NoCookie, cookie'[reqs'[q][j]].owner # q
               PROVE  busy[reqs'[q][j]] = 0 \/ (pc'[q] \in {"transfer", "notify"} /\ slot'[q] = j)
    BY DEF ForeignMoved
  <2>1. CASE q = p /\ j = i
    BY <1>1, <2>1
  <2>2. CASE ~(q = p /\ j = i)
    <3>1. reqs'[q][j] = reqs[q][j] /\ reqs[q][j] \in Cookies
      BY <1>1, <2>2 DEF TypeInv, TypeOK
    <3>2. cookie[reqs[q][j]].owner # q
      BY <3>1
    <3>3. busy[reqs[q][j]] = 0 \/ (pc[q] \in {"transfer", "notify"} /\ slot[q] = j)
      BY <3>1, <3>2 DEF MoveInv, ForeignMoved
    <3> QED  BY <1>1, <3>1, <3>3
  <2> QED  BY <2>1, <2>2
<1> QED  BY <1>3, <1>4, <1>5, <1>6 DEF MoveInv

\* p has created cookie c in the inbox of d, or in its own outbox.
LEMMA MoveCreates ==
  ASSUME TypeInv, OwnInv, MoveInv, NEW p \in Procs, NEW i \in Requests, NEW d \in Procs, NEW c \in Cookies,
         NEW f, f.owner = p, pc[p] = "idle", UNCHANGED calls, Creates(p, i, d, c, f),
         \A e \in Procs : \A x \in ToSet(inbox'[e]) : x \in ToSet(inbox[e]) \/ (x = c /\ IsSend(c, e)'),
         \A e \in Procs : \A x \in ToSet(outbox'[e]) : x \in ToSet(outbox[e]) \/ (x = c /\ IsRecv(c, e)'),
         UNCHANGED <<pending, outcome>>
  PROVE  MoveInv'
<1>1. /\ \A e \in Procs : c \notin ToSet(inbox[e]) /\ c \notin ToSet(outbox[e]) /\ c \notin pending[e]
      /\ \A q \in Procs, j \in Requests : reqs[q][j] # c
      /\ cookie'[c] = f /\ \A x \in Cookies \ {c} : cookie'[x] = cookie[x]
      /\ \A x \in Cookies \ {c} : busy'[x] = busy[x]
      /\ \A q \in Procs, j \in Requests : reqs'[q][j] = IF q = p /\ j = i THEN c ELSE reqs[q][j]
      /\ \A x : Movers(x)' = Movers(x)
      /\ \A q \in Procs \ {p} : Current(q)' = Current(q)
      /\ Movers(c) = {}
  BY CreatesNew
<1>2. UNCHANGED <<pc, slot, ret>>
  BY DEF calls
<1>3. Contents'
  <2> SUFFICES ASSUME NEW e \in Procs
               PROVE  /\ \A x \in ToSet(inbox'[e]) : IsSend(x, e)'
                      /\ \A x \in ToSet(outbox'[e]) : IsRecv(x, e)'
                      /\ \A x \in pending'[e] : IsPair(x, e)'
    BY DEF Contents
  <2>1. /\ \A x \in ToSet(inbox[e]) : IsSend(x, e) /\ x \in Cookies \ {c}
        /\ \A x \in ToSet(outbox[e]) : IsRecv(x, e) /\ x \in Cookies \ {c}
        /\ \A x \in pending[e] : IsPair(x, e) /\ x \in Cookies \ {c}
    BY <1>1, ListTypes DEF MoveInv, Contents
  <2> QED  BY <1>1, <2>1, SameCookie
<1>4. OneEach'
  <2> SUFFICES ASSUME NEW e \in Procs
               PROVE  /\ \A x \in ToSet(inbox'[e]) \cup ToSet(outbox'[e]) : Movers(x)' = {}
                      /\ \A x \in pending[e] :
                           \/ busy'[x] = 1 /\ \E q \in Procs : Movers(x)' = {q}
                           \/ busy'[x] = 0 /\ Movers(x)' = {} /\ Outcome(x, cookie[x].err)' \in outcome
    BY DEF OneEach, Outcome
  <2>1. \A x \in ToSet(inbox'[e]) \cup ToSet(outbox'[e]) : Movers(x)' = {}
    BY <1>1 DEF MoveInv, OneEach
  <2>2. ASSUME NEW x \in pending[e]
        PROVE  \/ busy'[x] = 1 /\ \E q \in Procs : Movers(x)' = {q}
               \/ busy'[x] = 0 /\ Movers(x)' = {} /\ Outcome(x, cookie[x].err)' \in outcome
    <3>1. x \in Cookies \ {c}
      BY <1>1, ListTypes
    <3>2. cookie'[x] = cookie[x] /\ busy'[x] = busy[x]
      BY <1>1, <3>1
    <3>3. Outcome(x, cookie[x].err)' = Outcome(x, cookie[x].err)
      BY <3>2 DEF Outcome
    <3> QED  BY <1>1, <3>2, <3>3 DEF MoveInv, OneEach
  <2> QED  BY <2>1, <2>2
<1>5. Moved'
  <2> SUFFICES ASSUME NEW q \in Procs, pc[q] = "notify"
               PROVE  Outcome(Current(q), ret[q])' \in outcome
    BY <1>2 DEF Moved, Outcome
  <2>1. q # p /\ Current(q)' = Current(q) /\ Current(q) \in Cookies \ {c}
    BY <1>1, CurrentType
  <2>2. cookie'[Current(q)] = cookie[Current(q)] /\ Outcome(Current(q), ret[q]) \in outcome
    BY <1>1, <2>1 DEF MoveInv, Moved
  <2> QED  BY <1>2, <2>1, <2>2 DEF Outcome
<1>6. ForeignMoved'
  <2> SUFFICES ASSUME NEW q \in Procs, NEW j \in Requests, reqs'[q][j] # NoCookie, cookie'[reqs'[q][j]].owner # q
               PROVE  busy'[reqs'[q][j]] = 0 \/ (pc[q] \in {"transfer", "notify"} /\ slot[q] = j)
    BY <1>2 DEF ForeignMoved
  <2>1. ~(q = p /\ j = i)
    BY <1>1
  <2>2. reqs'[q][j] = reqs[q][j] /\ reqs[q][j] \in Cookies \ {c}
    BY <1>1, <2>1 DEF TypeInv, TypeOK
  <2>3. cookie[reqs[q][j]].owner # q /\ busy'[reqs[q][j]] = busy[reqs[q][j]]
    BY <1>1, <2>2
  <2> QED  BY <2>2, <2>3 DEF MoveInv, ForeignMoved
<1> QED  BY <1>3, <1>4, <1>5, <1>6 DEF MoveInv

\* The data of a pair is moved: its mover knows the outcome.
LEMMA MoveTransfer ==
  ASSUME TypeInv, MoveInv, NEW p \in Procs, Transfer(p)
  PROVE  MoveInv'
<1>1. PICK err \in {MPI_SUCCESS, MPI_FAIL} :
        /\ ret' = [ret EXCEPT ![p] = err]
        /\ outcome' = outcome \cup {Outcome(Current(p), err)}
  BY DEF Transfer, Outcome
<1>2. /\ pc[p] = "transfer" /\ pc'[p] = "notify" /\ ret'[p] = err
      /\ \A q \in Procs \ {p} : pc'[q] = pc[q] /\ ret'[q] = ret[q]
      /\ UNCHANGED <<inbox, outbox, pending, cookie, busy, slot, reqs>>
  BY <1>1 DEF Transfer, TypeInv, TypeOK, boxes, cookies
<1>3. /\ \A q \in Procs : Current(q)' = Current(q)
      /\ \A x : Movers(x)' = Movers(x)
  BY <1>2 DEF Movers, Current
<1>4. Contents'
  BY <1>2 DEF MoveInv, Contents, IsSend, IsRecv, IsPair
<1>5. OneEach'
  BY <1>1, <1>2, <1>3 DEF MoveInv, OneEach, Outcome
<1>6. Moved'
  <2> SUFFICES ASSUME NEW q \in Procs, pc'[q] = "notify"
               PROVE  Outcome(Current(q), ret[q])' \in outcome'
    BY DEF Moved, Outcome
  <2>1. Outcome(Current(q), ret[q])' = Outcome(Current(q), ret'[q])
    BY <1>2, <1>3 DEF Outcome
  <2>2. CASE q = p
    BY <1>1, <1>2, <2>1, <2>2
  <2>3. CASE q # p
    BY <1>1, <1>2, <2>1, <2>3 DEF MoveInv, Moved
  <2> QED  BY <2>2, <2>3
<1>7. ForeignMoved'
  <2> SUFFICES ASSUME NEW q \in Procs, NEW j \in Requests, reqs[q][j] # NoCookie, cookie[reqs[q][j]].owner # q
               PROVE  busy[reqs[q][j]] = 0 \/ (pc'[q] \in {"transfer", "notify"} /\ slot[q] = j)
    BY <1>2 DEF ForeignMoved
  <2>1. busy[reqs[q][j]] = 0 \/ (pc[q] \in {"transfer", "notify"} /\ slot[q] = j)
    BY DEF MoveInv, ForeignMoved
  <2> QED  BY <1>2, <2>1
<1> QED  BY <1>4, <1>5, <1>6, <1>7 DEF MoveInv

\* The mover's cookie, before it tells the owner.
LEMMA MoverOf ==
  ASSUME TypeInv, OwnInv, MoveInv, NEW p \in Procs, pc[p] \in {"transfer", "notify"}
  PROVE  /\ Current(p) \in Cookies /\ slot[p] \in Requests /\ Current(p) = reqs[p][slot[p]]
         /\ Movers(Current(p)) = {p} /\ busy[Current(p)] = 1 /\ cookie[Current(p)].err = MPI_SUCCESS
         /\ \E d \in Procs : Current(p) \in pending[d] /\ IsPair(Current(p), d)
<1> DEFINE c == Current(p)
<1>1. c \in Cookies /\ slot[p] \in Requests /\ c = reqs[p][slot[p]]
  BY CurrentType
<1>2. p \in Movers(c)
  BY DEF Movers
<1>3. PICK d \in Procs : c \in ToSet(inbox[d]) \/ c \in ToSet(outbox[d]) \/ c \in pending[d]
  BY <1>1, HeldLives
<1>4. c \in pending[d] /\ busy[c] = 1 /\ \E q \in Procs : Movers(c) = {q}
  BY <1>2, <1>3 DEF MoveInv, OneEach
<1>5. IsPair(c, d)
  BY <1>4 DEF MoveInv, Contents
<1> QED  BY <1>1, <1>2, <1>4, <1>5 DEF IsPair

\* The owner is told: the cookie is no longer busy, and has the error of its transfer.
LEMMA MoveNotify ==
  ASSUME TypeInv, OwnInv, MoveInv, NEW p \in Procs, NotifyDone(p)
  PROVE  MoveInv'
<1>1. /\ pc[p] = "notify" /\ Returns(p)
      /\ UNCHANGED <<inbox, outbox, pending, outcome>>
      /\ UNCHANGED reqs \/ Holds(p, slot[p], NoCookie)
  BY DEF NotifyDone, boxes
<1>2. PICK c \in Cookies, d \in Procs :
        /\ slot[p] \in Requests /\ c = Current(p) /\ c = reqs[p][slot[p]]
        /\ Movers(c) = {p} /\ busy[c] = 1 /\ cookie[c].err = MPI_SUCCESS
        /\ c \in pending[d] /\ IsPair(c, d)
  BY <1>1, MoverOf
<1>3. \A q \in Procs, j \in Requests : reqs'[q][j] # NoCookie => reqs'[q][j] = reqs[q][j]
  <2>1. CASE UNCHANGED reqs
    BY <2>1
  <2>2. CASE Holds(p, slot[p], NoCookie)
    <3>1. \A q \in Procs, j \in Requests :
            reqs'[q][j] = IF q = p /\ j = slot[p] THEN NoCookie ELSE reqs[q][j]
      BY <2>2, <1>2 DEF Holds, TypeInv, TypeOK
    <3> QED  BY <3>1
  <2> QED  BY <1>1, <2>1, <2>2
<1>4. \A q \in Procs \ {p} : reqs'[q] = reqs[q]
  BY <1>1 DEF Holds, TypeInv, TypeOK
<1>5. /\ \A x : Movers(x)' = Movers(x) \ {p}
      /\ \A q \in Procs \ {p} : Current(q)' = Current(q) /\ pc'[q] = pc[q] /\ ret'[q] = ret[q]
      /\ pc'[p] = "idle"
  BY <1>1, <1>4, ReturnsMovers
<1>6. \A x : x # c => Movers(x)' = Movers(x)
  BY <1>2, <1>5 DEF Movers
<1>7. /\ busy'[c] = 0
      /\ \A x \in Cookies \ {c} : busy'[x] = busy[x] /\ cookie'[x] = cookie[x]
  BY <1>2 DEF NotifyDone, TypeInv, TypeOK
<1>8. /\ cookie'[c].err = ret[p] /\ cookie'[c].msg = cookie[c].msg /\ cookie'[c].recv = cookie[c].recv
      /\ cookie'[c].owner = cookie[c].owner /\ cookie'[c].src = cookie[c].src /\ cookie'[c].tag = cookie[c].tag
  <2>1. cookie[c] \in CookieRecords
    BY DEF TypeInv, TypeOK
  <2>2. cookie'[c] = [cookie[c] EXCEPT !.err = IF @ # MPI_SUCCESS THEN @ ELSE ret[p]]
    BY <1>2 DEF NotifyDone, TypeInv, TypeOK
  <2> QED  BY <1>2, <2>1, <2>2 DEF CookieRecords
<1>9. Contents'
  <2>1. \A e \in Procs : c \notin ToSet(inbox[e]) /\ c \notin ToSet(outbox[e])
    BY <1>2, Placed
  <2>2. \A e \in Procs : c \in pending[e] => e = d
    BY <1>2, Placed
  <2>3. IsPair(c, d)'
    BY <1>2, <1>7, <1>8 DEF IsPair
  <2> SUFFICES ASSUME NEW e \in Procs
               PROVE  /\ \A x \in ToSet(inbox[e]) : IsSend(x, e)'
                      /\ \A x \in ToSet(outbox[e]) : IsRecv(x, e)'
                      /\ \A x \in pending[e] : IsPair(x, e)'
    BY <1>1 DEF Contents
  <2>4. /\ \A x \in ToSet(inbox[e]) : IsSend(x, e) /\ x \in Cookies \ {c}
        /\ \A x \in ToSet(outbox[e]) : IsRecv(x, e) /\ x \in Cookies \ {c}
        /\ \A x \in pending[e] : IsPair(x, e) /\ x \in Cookies
    BY <2>1, ListTypes DEF MoveInv, Contents
  <2> QED  BY <1>7, <2>2, <2>3, <2>4, SameCookie
<1>10. OneEach'
  <2> SUFFICES ASSUME NEW e \in Procs
               PROVE  /\ \A x \in ToSet(inbox[e]) \cup ToSet(outbox[e]) : Movers(x)' = {}
                      /\ \A x \in pending[e] :
                           \/ busy'[x] = 1 /\ \E q \in Procs : Movers(x)' = {q}
                           \/ busy'[x] = 0 /\ Movers(x)' = {} /\ Outcome(x, cookie[x].err)' \in outcome
    BY <1>1 DEF OneEach, Outcome
  <2>1. \A x \in ToSet(inbox[e]) \cup ToSet(outbox[e]) : Movers(x)' = {}
    BY <1>5 DEF MoveInv, OneEach
  <2>2. ASSUME NEW x \in pending[e]
        PROVE  \/ busy'[x] = 1 /\ \E q \in Procs : Movers(x)' = {q}
               \/ busy'[x] = 0 /\ Movers(x)' = {} /\ Outcome(x, cookie[x].err)' \in outcome
    <3>1. CASE x = c
      <4>1. Outcome(c, ret[p]) \in outcome
        BY <1>1, <1>2 DEF MoveInv, Moved
      <4>2. Outcome(c, cookie[c].err)' = Outcome(c, ret[p])
        BY <1>8 DEF Outcome
      <4>3. Movers(c)' = {}
        BY <1>2, <1>5
      <4> QED  BY <1>7, <3>1, <4>1, <4>2, <4>3
    <3>2. CASE x # c
      <4>1. cookie'[x] = cookie[x] /\ busy'[x] = busy[x]
        BY <1>7, <3>2, ListTypes
      <4>2. Outcome(x, cookie[x].err)' = Outcome(x, cookie[x].err)
        BY <4>1 DEF Outcome
      <4> QED  BY <1>6, <3>2, <4>1, <4>2 DEF MoveInv, OneEach
    <3> QED  BY <3>1, <3>2
  <2> QED  BY <2>1, <2>2
<1>11. Moved'
  <2> SUFFICES ASSUME NEW q \in Procs, pc'[q] = "notify"
               PROVE  Outcome(Current(q), ret[q])' \in outcome
    BY <1>1 DEF Moved, Outcome
  <2>1. q # p /\ pc[q] = "notify" /\ Current(q)' = Current(q) /\ ret'[q] = ret[q]
    BY <1>5
  <2>2. Current(q) \in Cookies \ {c}
    BY <1>2, <2>1, CurrentType DEF Movers
  <2>3. cookie'[Current(q)] = cookie[Current(q)] /\ Outcome(Current(q), ret[q]) \in outcome
    BY <1>7, <2>1, <2>2 DEF MoveInv, Moved
  <2> QED  BY <2>1, <2>3 DEF Outcome
<1>12. ForeignMoved'
  <2> SUFFICES ASSUME NEW q \in Procs, NEW j \in Requests, reqs'[q][j] # NoCookie, cookie'[reqs'[q][j]].owner # q
               PROVE  busy'[reqs'[q][j]] = 0 \/ (pc'[q] \in {"transfer", "notify"} /\ slot'[q] = j)
    BY DEF ForeignMoved
  <2>1. reqs'[q][j] = reqs[q][j] /\ reqs[q][j] \in Cookies
    BY <1>3 DEF TypeInv, TypeOK
  <2>2. CASE reqs[q][j] = c
    BY <1>7, <2>1, <2>2
  <2>3. CASE reqs[q][j] # c
    <3>1. cookie[reqs[q][j]].owner # q /\ busy'[reqs[q][j]] = busy[reqs[q][j]]
      BY <1>7, <2>1, <2>3
    <3>2. busy[reqs[q][j]] = 0 \/ (pc[q] \in {"transfer", "notify"} /\ slot[q] = j)
      BY <2>1, <3>1 DEF MoveInv, ForeignMoved
    <3>3. q = p => slot[q] # j
      BY <1>2, <2>3
    <3>4. q # p => slot'[q] = slot[q]
      BY <1>1 DEF Returns, TypeInv, TypeOK
    <3> QED  BY <1>5, <2>1, <3>1, <3>2, <3>3, <3>4
  <2> QED  BY <2>2, <2>3
<1> QED  BY <1>9, <1>10, <1>11, <1>12 DEF MoveInv

\* The last reference but one, or the last, is given up.
LEMMA MoveLeave ==
  ASSUME TypeInv, MoveInv, NEW p \in Procs, Leave(p)
  PROVE  MoveInv'
<1>1. /\ pc[p] = "leave" /\ Returns(p) /\ Holds(p, slot[p], NoCookie)
      /\ UNCHANGED <<inbox, outbox, cookie, busy, outcome>>
      /\ slot[p] \in Requests
  BY CurrentType DEF Leave, history
<1>2. \A e \in Procs : pending'[e] \subseteq pending[e]
  BY DEF Leave, TypeInv, TypeOK
<1>3. /\ \A q \in Procs, j \in Requests :
           reqs'[q][j] = IF q = p /\ j = slot[p] THEN NoCookie ELSE reqs[q][j]
      /\ \A q \in Procs \ {p} : reqs'[q] = reqs[q]
  BY <1>1 DEF Holds, TypeInv, TypeOK
<1>4. /\ \A x : Movers(x)' = Movers(x) \ {p}
      /\ \A q \in Procs \ {p} : Current(q)' = Current(q) /\ pc'[q] = pc[q] /\ ret'[q] = ret[q]
      /\ pc'[p] = "idle"
  BY <1>1, <1>3, ReturnsMovers
<1>5. \A x : Movers(x)' = Movers(x)
  BY <1>1, <1>4 DEF Movers
<1>6. Contents'
  BY <1>1, <1>2 DEF MoveInv, Contents, IsSend, IsRecv, IsPair
<1>7. OneEach'
  BY <1>1, <1>2, <1>5 DEF MoveInv, OneEach, Outcome
<1>8. Moved'
  BY <1>1, <1>4 DEF MoveInv, Moved, Outcome
<1>9. ForeignMoved'
  <2> SUFFICES ASSUME NEW q \in Procs, NEW j \in Requests, reqs'[q][j] # NoCookie, cookie[reqs'[q][j]].owner # q
               PROVE  busy[reqs'[q][j]] = 0 \/ (pc'[q] \in {"transfer", "notify"} /\ slot'[q] = j)
    BY <1>1 DEF ForeignMoved
  <2>1. reqs'[q][j] = reqs[q][j]
    BY <1>3
  <2>2. busy[reqs[q][j]] = 0 \/ (pc[q] \in {"transfer", "notify"} /\ slot[q] = j)
    BY <2>1 DEF MoveInv, ForeignMoved
  <2>3. q # p => slot'[q] = slot[q]
    BY <1>1 DEF Returns, TypeInv, TypeOK
  <2> QED  BY <1>1, <1>4, <2>1, <2>2, <2>3
<1> QED  BY <1>6, <1>7, <1>8, <1>9 DEF MoveInv

LEMMA MoveSend ==
  ASSUME TypeInv, OwnInv, MoveInv, NEW p \in Procs, NEW i \in Requests, NEW d \in Procs, NEW t \in Tags,
         IssendMatched(p, i, d, t) \/ IssendPosted(p, i, d, t)
  PROVE  MoveInv'
<1>1. pc[p] = "idle" /\ Message(p, d, t) \in Messages
  BY RequestTypes DEF IssendMatched, IssendPosted, Posting, Idle, TypeInv
<1>2. CASE IssendMatched(p, i, d, t)
  <2>1. PICK k \in DOMAIN outbox[d], c \in Cookies : FoundRecv(p, i, d, t, k, c)
    BY <1>2, SendMeets
  <2>2. UNCHANGED <<inbox, busy, ret, outcome>>
    BY <1>2 DEF IssendMatched
  <2>3. \A e \in Procs : c \notin ToSet(inbox[e]) /\ (c \in ToSet(outbox[e]) => e = d)
    BY <2>1, Placed DEF FoundRecv
  <2>4. IsRecv(c, d)
    BY <2>1 DEF MoveInv, Contents, FoundRecv
  <2>5. IsPair(c, d)'
    BY <1>1, <2>1, <2>2, <2>4 DEF IsRecv, IsPair, Message, FoundRecv
  <2>6. /\ \A e \in Procs : ToSet(inbox'[e]) \subseteq ToSet(inbox[e]) \ {c}
        /\ \A e \in Procs : ToSet(outbox'[e]) \subseteq ToSet(outbox[e]) \ {c}
    BY <2>1, <2>2, <2>3 DEF FoundRecv
  <2>7. /\ Joins(p, i, c) /\ c \in ToSet(inbox[d]) \cup ToSet(outbox[d])
        /\ \A e \in Procs : pending'[e] = IF e = d THEN pending[e] \cup {c} ELSE pending[e]
        /\ \A x \in Cookies \ {c} : cookie'[x] = cookie[x]
        /\ cookie'[c].owner = cookie[c].owner
        /\ UNCHANGED <<busy, ret, outcome>>
    BY <2>1, <2>2 DEF FoundRecv
  <2> QED  BY <1>1, <2>5, <2>6, <2>7, MoveMeets
<1>3. CASE IssendPosted(p, i, d, t)
  <2>1. PICK c \in Cookies :
           /\ Creates(p, i, d, c, Created(p, p, t, Message(p, d, t), NoRecv))
           /\ ToSet(inbox'[d]) = ToSet(inbox[d]) \cup {c}
           /\ \A e \in Procs \ {d} : inbox'[e] = inbox[e]
    BY <1>3, SendWaits
  <2>2. UNCHANGED <<outbox, pending, calls, outcome>>
    BY <1>3 DEF IssendPosted
  <2>3. cookie'[c] = Created(p, p, t, Message(p, d, t), NoRecv) /\ busy'[c] = 1
    BY <1>1, <2>1, <2>2, CreatesNew
  <2>4. IsSend(c, d)'
    BY <1>1, <2>3 DEF IsSend, Created, Message
  <2>5. Created(p, p, t, Message(p, d, t), NoRecv).owner = p
    BY DEF Created
  <2>6. \A e \in Procs : \A x \in ToSet(inbox'[e]) : x \in ToSet(inbox[e]) \/ (x = c /\ IsSend(c, e)')
    BY <2>1, <2>4
  <2>7. \A e \in Procs : \A x \in ToSet(outbox'[e]) : x \in ToSet(outbox[e]) \/ (x = c /\ IsRecv(c, e)')
    BY <2>2
  <2> QED  BY <1>1, <2>1, <2>2, <2>5, <2>6, <2>7, MoveCreates
<1> QED  BY <1>2, <1>3

LEMMA MoveRecv ==
  ASSUME TypeInv, OwnInv, MoveInv, NEW p \in Procs, NEW i \in Requests, NEW s \in Sources, NEW t \in RecvTags,
         IrecvMatched(p, i, s, t) \/ IrecvPosted(p, i, s, t)
  PROVE  MoveInv'
<1>1. pc[p] = "idle" /\ Receive(p, s, t) \in Receives
  BY RequestTypes DEF IrecvMatched, IrecvPosted, Posting, Idle, TypeInv
<1>2. CASE IrecvMatched(p, i, s, t)
  <2>1. PICK k \in DOMAIN inbox[p], c \in Cookies : FoundSend(p, i, s, t, k, c)
    BY <1>2, RecvMeets
  <2>2. UNCHANGED <<outbox, busy, ret, outcome>>
    BY <1>2 DEF IrecvMatched
  <2>3. \A e \in Procs : c \notin ToSet(outbox[e]) /\ (c \in ToSet(inbox[e]) => e = p)
    BY <2>1, Placed DEF FoundSend
  <2>4. IsSend(c, p)
    BY <2>1 DEF MoveInv, Contents, FoundSend
  <2>5. IsPair(c, p)'
    BY <1>1, <2>1, <2>2, <2>4 DEF IsSend, IsPair, Receive, Messages, FoundSend
  <2>6. /\ \A e \in Procs : ToSet(inbox'[e]) \subseteq ToSet(inbox[e]) \ {c}
        /\ \A e \in Procs : ToSet(outbox'[e]) \subseteq ToSet(outbox[e]) \ {c}
    BY <2>1, <2>2, <2>3 DEF FoundSend
  <2>7. /\ Joins(p, i, c) /\ c \in ToSet(inbox[p]) \cup ToSet(outbox[p])
        /\ \A e \in Procs : pending'[e] = IF e = p THEN pending[e] \cup {c} ELSE pending[e]
        /\ \A x \in Cookies \ {c} : cookie'[x] = cookie[x]
        /\ cookie'[c].owner = cookie[c].owner
        /\ UNCHANGED <<busy, ret, outcome>>
    BY <2>1, <2>2 DEF FoundSend
  <2> QED  BY <1>1, <2>5, <2>6, <2>7, MoveMeets
<1>3. CASE IrecvPosted(p, i, s, t)
  <2>1. PICK c \in Cookies :
           /\ Creates(p, i, p, c, Created(p, s, t, NoMsg, Receive(p, s, t)))
           /\ ToSet(outbox'[p]) = ToSet(outbox[p]) \cup {c}
           /\ \A e \in Procs \ {p} : outbox'[e] = outbox[e]
    BY <1>3, RecvWaits
  <2>2. UNCHANGED <<inbox, pending, calls, outcome>>
    BY <1>3 DEF IrecvPosted
  <2>3. cookie'[c] = Created(p, s, t, NoMsg, Receive(p, s, t)) /\ busy'[c] = 1
    BY <1>1, <2>1, <2>2, CreatesNew
  <2>4. IsRecv(c, p)'
    BY <1>1, <2>3 DEF IsRecv, Created, Receive
  <2>5. Created(p, s, t, NoMsg, Receive(p, s, t)).owner = p
    BY DEF Created
  <2>6. \A e \in Procs : \A x \in ToSet(outbox'[e]) : x \in ToSet(outbox[e]) \/ (x = c /\ IsRecv(c, e)')
    BY <2>1, <2>4
  <2>7. \A e \in Procs : \A x \in ToSet(inbox'[e]) : x \in ToSet(inbox[e]) \/ (x = c /\ IsSend(c, e)')
    BY <2>2
  <2> QED  BY <1>1, <2>1, <2>2, <2>5, <2>6, <2>7, MoveCreates
<1> QED  BY <1>2, <1>3

LEMMA MoveStep == TypeInv /\ OwnInv /\ MoveInv /\ [Next]_vars => MoveInv'
<1> SUFFICES ASSUME TypeInv, OwnInv, MoveInv, [Next]_vars PROVE MoveInv'
  OBVIOUS
<1>1. CASE UNCHANGED vars
  <2>1. UNCHANGED <<inbox, outbox, pending, cookie, busy, pc, slot, ret, reqs, outcome>>
    BY <1>1 DEF vars, boxes, cookies, calls, history
  <2>2. \A x : Movers(x)' = Movers(x)
    BY <2>1 DEF Movers, Current
  <2>3. Contents'
    BY <2>1 DEF MoveInv, Contents, IsSend, IsRecv, IsPair
  <2>6. OneEach'
    BY <2>1, <2>2 DEF MoveInv, OneEach, Outcome
  <2>4. Moved'
    <3>1. \A q \in Procs : Current(q)' = Current(q)
      BY <2>1 DEF Current
    <3> QED  BY <2>1, <3>1 DEF MoveInv, Moved, Outcome
  <2>5. ForeignMoved'
    BY <2>1 DEF MoveInv, ForeignMoved
  <2> QED  BY <2>3, <2>4, <2>5, <2>6 DEF MoveInv
<1> QED  BY <1>1, Kinds, MoveSend, MoveRecv, MoveTransfer, MoveNotify, MoveLeave, MoveFrame

LEMMA MoveInvariant == Spec => []MoveInv
BY TypeInvariant, OwnInvariant, MoveInit, MoveStep, PTL DEF Spec

-----------------------------------------------------------------------------
(* Who moves the data, and what may change meanwhile                       *)

\* cookie::busy_ is set as long as the cookie waits for a match or for its data, and
\* of a matched cookie exactly one process moves it, the one that will call
\* notify_done: the data of no pair is moved twice, by two processes or by none.
THEOREM OneMoverCorrect == Spec => []OneMover
<1>1. MoveInv => OneMover
  <2> SUFFICES ASSUME MoveInv, NEW d \in Procs
               PROVE  /\ \A c \in ToSet(inbox[d]) \cup ToSet(outbox[d]) : busy[c] = 1 /\ Movers(c) = {}
                      /\ \A c \in pending[d] : \/ busy[c] = 1 /\ Cardinality(Movers(c)) = 1
                                               \/ busy[c] = 0 /\ Movers(c) = {}
    BY DEF OneMover
  <2>1. \A c \in ToSet(inbox[d]) \cup ToSet(outbox[d]) : busy[c] = 1
    BY DEF MoveInv, Contents, IsSend, IsRecv
  <2>2. \A q \in Procs : Cardinality({q}) = 1
    BY FS_Singleton
  <2> QED  BY <2>1, <2>2 DEF MoveInv, OneEach
<1> QED  BY <1>1, MoveInvariant, PTL

\* What a step does to a matched cookie: notify_done sets its error, and nothing else
\* touches it before it is recycled.
LEMMA PairStable ==
  ASSUME TypeInv, OwnInv, MoveInv, [Next]_vars, NEW e \in Procs, NEW c \in pending[e]
  PROVE  /\ cookie'[c].msg = cookie[c].msg /\ cookie'[c].recv = cookie[c].recv
         /\ cookie'[c].owner = cookie[c].owner
         /\ busy[c] = 0 => cookie'[c] = cookie[c]
<1>0. c \in Cookies /\ \A d \in Procs : c \notin ToSet(inbox[d]) /\ c \notin ToSet(outbox[d])
  BY Placed, ListTypes
<1>1. CASE UNCHANGED vars
  BY <1>1 DEF vars, cookies
<1>2. ASSUME NEW p \in Procs, NEW i \in Requests, NEW d \in Procs, NEW t \in Tags, IssendMatched(p, i, d, t)
      PROVE  cookie'[c] = cookie[c]
  BY <1>0, <1>2, SendMeets DEF FoundRecv
<1>3. ASSUME NEW p \in Procs, NEW i \in Requests, NEW d \in Procs, NEW t \in Tags, IssendPosted(p, i, d, t)
      PROVE  cookie'[c] = cookie[c]
  <2>1. PICK x \in Cookies : Creates(p, i, d, x, Created(p, p, t, Message(p, d, t), NoRecv))
    BY <1>3, SendWaits
  <2>2. pc[p] = "idle" /\ UNCHANGED calls
    BY <1>3 DEF IssendPosted, Posting, Idle
  <2> QED  BY <1>0, <2>1, <2>2, CreatesNew
<1>4. ASSUME NEW p \in Procs, NEW i \in Requests, NEW s \in Sources, NEW t \in RecvTags, IrecvMatched(p, i, s, t)
      PROVE  cookie'[c] = cookie[c]
  BY <1>0, <1>4, RecvMeets DEF FoundSend
<1>5. ASSUME NEW p \in Procs, NEW i \in Requests, NEW s \in Sources, NEW t \in RecvTags, IrecvPosted(p, i, s, t)
      PROVE  cookie'[c] = cookie[c]
  <2>1. PICK x \in Cookies : Creates(p, i, p, x, Created(p, s, t, NoMsg, Receive(p, s, t)))
    BY <1>5, RecvWaits
  <2>2. pc[p] = "idle" /\ UNCHANGED calls
    BY <1>5 DEF IrecvPosted, Posting, Idle
  <2> QED  BY <1>0, <2>1, <2>2, CreatesNew
<1>6. ASSUME NEW p \in Procs, Transfer(p) \/ Leave(p) \/ Waits(p)
      PROVE  cookie'[c] = cookie[c]
  BY <1>6 DEF Transfer, Leave, Waits, cookies
<1>7. ASSUME NEW p \in Procs, NotifyDone(p)
      PROVE  /\ cookie'[c].msg = cookie[c].msg /\ cookie'[c].recv = cookie[c].recv
             /\ cookie'[c].owner = cookie[c].owner
             /\ busy[c] = 0 => cookie'[c] = cookie[c]
  <2>1. PICK x \in Cookies : x = Current(p) /\ busy[x] = 1
    BY <1>7, MoverOf DEF NotifyDone
  <2>2. cookie'[x] = [cookie[x] EXCEPT !.err = IF @ # MPI_SUCCESS THEN @ ELSE ret[p]]
    BY <1>7, <2>1 DEF NotifyDone, TypeInv, TypeOK
  <2>3. x # c => cookie'[c] = cookie[c]
    BY <1>0, <1>7, <2>1 DEF NotifyDone, TypeInv, TypeOK
  <2>4. cookie[x] \in CookieRecords
    BY DEF TypeInv, TypeOK
  <2> QED  BY <2>1, <2>2, <2>3, <2>4 DEF CookieRecords
<1> QED  BY <1>1, <1>2, <1>3, <1>4, <1>5, <1>6, <1>7, Kinds

\* A matched cookie that is held is a pending one.
LEMMA HeldPair ==
  ASSUME TypeInv, OwnInv, MoveInv, NEW p \in Procs, NEW i \in Requests, NEW c \in Cookies, reqs[p][i] = c,
         cookie[c].msg # NoMsg, cookie[c].recv # NoRecv
  PROVE  \E e \in Procs : c \in pending[e]
BY HeldLives DEF MoveInv, Contents, IsSend, IsRecv

\* Both processes read the status and the error of a matched cookie without a mutex.
\* No step resets it while one of them holds it, and once its transfer is over no step
\* changes it at all: neither can see another request's status, or half of its own.
THEOREM StableWhileHeldCorrect == Spec => StableWhileHeld
<1>1. TypeInv /\ OwnInv /\ MoveInv /\ [Next]_vars =>
        [\A p \in Procs : \A i \in Active(p) :
           LET c == reqs[p][i] IN
           reqs'[p][i] = c /\ cookie[c].msg # NoMsg /\ cookie[c].recv # NoRecv
             => /\ Pair(c)' = Pair(c) /\ cookie'[c].owner = cookie[c].owner
                /\ busy[c] = 0 => cookie'[c] = cookie[c]]_vars
  <2> SUFFICES ASSUME TypeInv, OwnInv, MoveInv, [Next]_vars, NEW p \in Procs, NEW i \in Active(p),
                      reqs'[p][i] = reqs[p][i],
                      cookie[reqs[p][i]].msg # NoMsg, cookie[reqs[p][i]].recv # NoRecv
               PROVE  /\ Pair(reqs[p][i])' = Pair(reqs[p][i])
                      /\ cookie'[reqs[p][i]].owner = cookie[reqs[p][i]].owner
                      /\ busy[reqs[p][i]] = 0 => cookie'[reqs[p][i]] = cookie[reqs[p][i]]
    OBVIOUS
  <2>1. PICK c \in Cookies : c = reqs[p][i]
    BY DEF Active, TypeInv, TypeOK
  <2>2. i \in Requests
    BY DEF Active
  <2>3. PICK e \in Procs : c \in pending[e]
    BY <2>1, <2>2, HeldPair
  <2> QED  BY <2>1, <2>3, PairStable DEF Pair
<1> QED  BY <1>1, TypeInvariant, OwnInvariant, MoveInvariant, PTL DEF Spec, StableWhileHeld

-----------------------------------------------------------------------------
(* What a completed request returns                                        *)

\* wait_any counts from the first active request and MPI_Waitany from the first of
\* the array. With two requests the wrong index can only name a null one; with three
\* it names one that is not done, and what follows does not hold.
IndexHarmless == "Waitany" \notin Calls \/ Slots <= 2

DoneInv ==
  /\ LeavesDone
  /\ \A p \in Procs : pc[p] = "wait_any" => "Waitany" \in Calls

LEMMA DoneInit == Init => DoneInv
BY DEF Init, DoneInv, LeavesDone

\* What is over stays over: busy_ of a held cookie does not come back.
LEMMA DoneStays ==
  ASSUME TypeInv, OwnInv, MoveInv, [Next]_vars,
         NEW q \in Procs, NEW j \in Requests, NEW x \in Cookies, reqs[q][j] = x, busy[x] = 0
  PROVE  busy'[x] = 0
<1>1. CASE UNCHANGED vars
  BY <1>1 DEF vars, cookies
<1>2. ASSUME NEW p \in Procs, NEW i \in Requests, NEW d \in Procs, NEW c \in Cookies, NEW f,
             pc[p] = "idle", UNCHANGED calls, Creates(p, i, d, c, f)
      PROVE  busy'[x] = 0
  BY <1>2, CreatesNew
<1>3. ASSUME NEW p \in Procs, NEW i \in Requests, NEW d \in Procs, NEW t \in Tags,
             IssendMatched(p, i, d, t) \/ IssendPosted(p, i, d, t)
      PROVE  busy'[x] = 0
  <2>1. CASE IssendMatched(p, i, d, t)
    BY <2>1 DEF IssendMatched
  <2>2. CASE IssendPosted(p, i, d, t)
    <3>1. pc[p] = "idle" /\ UNCHANGED calls
      BY <2>2 DEF IssendPosted, Posting, Idle
    <3> QED  BY <1>2, <2>2, <3>1, SendWaits
  <2> QED  BY <1>3, <2>1, <2>2
<1>4. ASSUME NEW p \in Procs, NEW i \in Requests, NEW s \in Sources, NEW t \in RecvTags,
             IrecvMatched(p, i, s, t) \/ IrecvPosted(p, i, s, t)
      PROVE  busy'[x] = 0
  <2>1. CASE IrecvMatched(p, i, s, t)
    BY <2>1 DEF IrecvMatched
  <2>2. CASE IrecvPosted(p, i, s, t)
    <3>1. pc[p] = "idle" /\ UNCHANGED calls
      BY <2>2 DEF IrecvPosted, Posting, Idle
    <3> QED  BY <1>2, <2>2, <3>1, RecvWaits
  <2> QED  BY <1>4, <2>1, <2>2
<1>5. ASSUME NEW p \in Procs, Transfer(p) \/ Leave(p) \/ Waits(p)
      PROVE  busy'[x] = 0
  BY <1>5 DEF Transfer, Leave, Waits, cookies
<1>6. ASSUME NEW p \in Procs, NotifyDone(p)
      PROVE  busy'[x] = 0
  <2>1. PICK c \in Cookies : c = Current(p) /\ busy[c] = 1
    BY <1>6, MoverOf DEF NotifyDone
  <2>2. \A y \in Cookies \ {c} : busy'[y] = busy[y]
    BY <1>6, <2>1 DEF NotifyDone, TypeInv, TypeOK
  <2> QED  BY <2>1, <2>2
<1> QED  BY <1>1, <1>3, <1>4, <1>5, <1>6, Kinds

\* MPI_Waitany turns to a request that is done.
LEMMA WaitanyDone ==
  ASSUME TypeInv, MoveInv, IndexHarmless, "Waitany" \in Calls, NEW p \in Procs,
         pc[p] \in {"idle", "wait_any"},
         \/ \E i \in Foreign(p) : WaitanyCompletes(p, i)
         \/ WaitanyServes(p) \/ WaitanySleeps(p),
         UNCHANGED <<reqs, busy>>
  PROVE  pc'[p] = "leave" => busy[Current(p)']= 0
<1> SUFFICES ASSUME pc'[p] = "leave" PROVE busy[Current(p)'] = 0
  OBVIOUS
<1>1. ~ WaitanySleeps(p)
  BY DEF WaitanySleeps, Sleeps, TypeInv, TypeOK
<1>2. ASSUME NEW i \in Requests, WaitanyCompletes(p, i), reqs[p][i] # NoCookie => busy[reqs[p][i]] = 0
      PROVE  busy[Current(p)'] = 0
  <2>1. slot'[p] = i
    BY <1>2 DEF WaitanyCompletes, TypeInv, TypeOK
  <2>2. reqs[p][i] # NoCookie
    BY <1>2 DEF WaitanyCompletes
  <2> QED  BY <1>2, <2>1, <2>2 DEF Current
<1>3. CASE \E i \in Foreign(p) : WaitanyCompletes(p, i)
  <2>1. PICK i \in Foreign(p) : WaitanyCompletes(p, i)
    BY <1>3
  <2>2. i \in Requests /\ busy[reqs[p][i]] = 0
    BY DEF Foreign, Active, MoveInv, ForeignMoved
  <2> QED  BY <1>2, <2>1, <2>2
<1>4. CASE WaitanyServes(p)
  <2>1. PICK k \in Finished(p), begin \in Active(p) :
          /\ IsFirst(begin, Active(p)) /\ WaitanyCompletes(p, k - begin + 1)
    BY <1>4 DEF WaitanyServes
  <2>2. k \in 1..2 /\ begin \in 1..2 /\ begin <= k /\ k \in Requests
        /\ busy[reqs[p][k]] = 0
    BY <2>1, BoundsAssumption DEF IsFirst, Finished, Active, Requests, IndexHarmless
  <2>3. CASE begin = 1
    BY <1>2, <2>1, <2>2, <2>3
  <2>4. CASE begin = 2
    <3>1. k - begin + 1 = 1 /\ 1 \in Requests
      BY <2>2, <2>4, BoundsAssumption DEF Requests
    <3>2. reqs[p][1] = NoCookie
      BY <2>1, <2>4, <3>1 DEF IsFirst, Active
    <3> QED  BY <1>2, <2>1, <3>1, <3>2
  <2> QED  BY <2>2, <2>3, <2>4
<1> QED  BY <1>1, <1>3, <1>4

\* A step of p leaves the calls of the others alone, and ends where its action says.
LEMMA Enters ==
  ASSUME TypeInv, OwnInv, MoveInv, DoneInv, IndexHarmless, NEW p \in Procs, Step(p)
  PROVE  /\ \A q \in Procs \ {p} : pc'[q] = pc[q] /\ slot'[q] = slot[q] /\ reqs'[q] = reqs[q]
         /\ pc'[p] = "leave" => busy'[Current(p)'] = 0
         /\ pc'[p] = "wait_any" => "Waitany" \in Calls
<1> DEFINE Goal == /\ \A q \in Procs \ {p} : pc'[q] = pc[q] /\ slot'[q] = slot[q] /\ reqs'[q] = reqs[q]
                   /\ pc'[p] = "leave" => busy'[Current(p)'] = 0
                   /\ pc'[p] = "wait_any" => "Waitany" \in Calls
<1> SUFFICES Goal
  OBVIOUS
<1>1. ASSUME NEW i \in Requests, NEW c \in Cookies, pc[p] = "idle", Joins(p, i, c)  PROVE Goal
  BY <1>1 DEF Joins, Holds, TypeInv, TypeOK
<1>2. ASSUME NEW i \in Requests, NEW c \in Cookies, pc[p] = "idle", Holds(p, i, c), UNCHANGED calls  PROVE Goal
  BY <1>2 DEF Holds, calls, TypeInv, TypeOK
<1>3. CASE \E i \in Requests, d \in Procs, t \in Tags : IssendMatched(p, i, d, t) \/ IssendPosted(p, i, d, t)
  <2>1. PICK i \in Requests, d \in Procs, t \in Tags : IssendMatched(p, i, d, t) \/ IssendPosted(p, i, d, t)
    BY <1>3
  <2>2. pc[p] = "idle"
    BY <2>1 DEF IssendMatched, IssendPosted, Posting, Idle
  <2>3. CASE IssendMatched(p, i, d, t)
    BY <1>1, <2>2, <2>3, SendMeets DEF FoundRecv
  <2>4. CASE IssendPosted(p, i, d, t)
    <3>1. UNCHANGED calls /\ \E c \in Cookies : Holds(p, i, c)
      BY <2>4 DEF IssendPosted, Creates
    <3> QED  BY <1>2, <2>2, <3>1
  <2> QED  BY <2>1, <2>3, <2>4
<1>4. CASE \E i \in Requests, s \in Sources, t \in Asked : IrecvMatched(p, i, s, t) \/ IrecvPosted(p, i, s, t)
  <2>1. PICK i \in Requests, s \in Sources, t \in RecvTags : IrecvMatched(p, i, s, t) \/ IrecvPosted(p, i, s, t)
    BY <1>4, AskedType
  <2>2. pc[p] = "idle"
    BY <2>1 DEF IrecvMatched, IrecvPosted, Posting, Idle
  <2>3. CASE IrecvMatched(p, i, s, t)
    BY <1>1, <2>2, <2>3, RecvMeets DEF FoundSend
  <2>4. CASE IrecvPosted(p, i, s, t)
    <3>1. UNCHANGED calls /\ \E c \in Cookies : Holds(p, i, c)
      BY <2>4 DEF IrecvPosted, Creates
    <3> QED  BY <1>2, <2>2, <3>1
  <2> QED  BY <2>1, <2>3, <2>4
<1>5. ASSUME NEW i \in Requests, NEW d \in Procs, PoolExhausted(p, d, i)  PROVE Goal
  BY <1>5 DEF PoolExhausted, Posting, Idle, calls
<1>6. ASSUME NEW i \in Requests, Wait(p, i)  PROVE Goal
  <2>1. /\ pc[p] = "idle" /\ slot' = [slot EXCEPT ![p] = i] /\ UNCHANGED <<reqs, busy>> /\ reqs[p][i] # NoCookie
        /\ \/ MustWait(p, reqs[p][i]) /\ pc' = [pc EXCEPT ![p] = "wait"]
           \/ ~ MustWait(p, reqs[p][i]) /\ pc' = [pc EXCEPT ![p] = "leave"]
    BY <1>6 DEF Wait, Idle, Sleeps, cookies
  <2>2. Current(p)' = reqs[p][i] /\ \A q \in Procs \ {p} : pc'[q] = pc[q] /\ slot'[q] = slot[q]
    BY <2>1 DEF Current, TypeInv, TypeOK
  <2>3. ~ MustWait(p, reqs[p][i]) => busy[reqs[p][i]] = 0
    BY <2>1 DEF MustWait, MoveInv, ForeignMoved
  <2> QED  BY <2>1, <2>2, <2>3 DEF TypeInv, TypeOK
<1>7. ASSUME NEW i \in Requests, Test(p, i)  PROVE Goal
  BY <1>7 DEF Test, Current, cookies, TypeInv, TypeOK
<1>8. CASE WaitWakes(p)
  <2>1. /\ pc[p] = "wait" /\ UNCHANGED <<slot, reqs, busy>>
        /\ \/ pc' = [pc EXCEPT ![p] = "wait"]
           \/ busy[waiting[p]] = 0 /\ pc' = [pc EXCEPT ![p] = "leave"]
    BY <1>8 DEF WaitWakes, Sleeps, StopsWaiting, cookies
  <2>2. Current(p)' = waiting[p]
    BY <2>1 DEF Current, TypeInv, PcOK
  <2> QED  BY <2>1, <2>2 DEF TypeInv, TypeOK
<1>9. CASE Waitany(p) \/ WaitanyWakes(p)
  <2>1. /\ pc[p] \in {"idle", "wait_any"} /\ UNCHANGED <<reqs, busy>>
        /\ \/ \E i \in Foreign(p) : WaitanyCompletes(p, i)
           \/ WaitanyServes(p) \/ WaitanySleeps(p)
    BY <1>9 DEF Waitany, WaitanyWakes, Idle, cookies
  <2>2. "Waitany" \in Calls
    BY <1>9 DEF Waitany, WaitanyWakes, Idle, DoneInv
  <2>3. /\ UNCHANGED pc \/ \E where \in {"leave", "wait_any"} : pc' = [pc EXCEPT ![p] = where]
        /\ UNCHANGED slot \/ \E i : slot' = [slot EXCEPT ![p] = i]
    BY <2>1 DEF WaitanyServes, WaitanyCompletes, WaitanySleeps, Sleeps, StopsWaiting
  <2>4. \A q \in Procs \ {p} : pc'[q] = pc[q] /\ slot'[q] = slot[q]
    BY <2>3 DEF TypeInv, TypeOK
  <2>5. pc'[p] = "leave" => busy[Current(p)'] = 0
    BY <2>1, <2>2, WaitanyDone
  <2> QED  BY <2>1, <2>2, <2>4, <2>5
<1>10. CASE Peek(p) \/ ProbeWakes(p)
  <2>1. /\ pc[p] \in {"idle", "probe"} /\ UNCHANGED <<slot, reqs>>
        /\ UNCHANGED pc \/ \E where \in {"idle", "probe"} : pc' = [pc EXCEPT ![p] = where]
    BY <1>10 DEF Peek, Iprobe, Probe, ProbeWakes, Idle, Sleeps, StopsWaiting, calls
  <2> QED  BY <2>1 DEF TypeInv, TypeOK
<1>11. CASE Transfer(p)
  BY <1>11 DEF Transfer, TypeInv, TypeOK
<1>12. CASE NotifyDone(p) \/ Leave(p)
  <2>1. Returns(p) /\ (UNCHANGED reqs \/ Holds(p, slot[p], NoCookie))
    BY <1>12 DEF NotifyDone, Leave
  <2>2. \A q \in Procs \ {p} : reqs'[q] = reqs[q]
    BY <2>1 DEF Holds, TypeInv, TypeOK
  <2> QED  BY <2>1, <2>2 DEF Returns, TypeInv, TypeOK
<1>13. CASE Call(p)
  BY <1>3, <1>4, <1>5, <1>6, <1>7, <1>13 DEF Call
<1> QED  BY <1>8, <1>9, <1>10, <1>11, <1>12, <1>13 DEF Step, Wakes

LEMMA DoneStep ==
  ASSUME IndexHarmless
  PROVE  TypeInv /\ OwnInv /\ MoveInv /\ DoneInv /\ [Next]_vars => DoneInv'
<1> SUFFICES ASSUME TypeInv, OwnInv, MoveInv, DoneInv, [Next]_vars PROVE DoneInv'
  OBVIOUS
<1>1. CASE UNCHANGED vars
  BY <1>1 DEF vars, cookies, calls, DoneInv, LeavesDone, Current
<1>2. CASE Next
  <2>1. PICK p \in Procs : Step(p)
    BY <1>2 DEF Next
  <2>2. ASSUME NEW q \in Procs, pc'[q] = "leave"  PROVE busy'[Current(q)'] = 0
    <3>1. CASE q = p
      BY <2>1, <2>2, <3>1, Enters
    <3>2. CASE q # p
      <4>1. pc[q] = "leave" /\ slot'[q] = slot[q] /\ reqs'[q] = reqs[q]
        BY <2>1, <2>2, <3>2, Enters
      <4>2. PICK c \in Cookies : c = Current(q) /\ c = reqs[q][slot[q]] /\ slot[q] \in Requests
        BY <4>1, CurrentType
      <4>3. busy[c] = 0 /\ Current(q)' = c
        BY <4>1, <4>2 DEF DoneInv, LeavesDone, Current
      <4> QED  BY <4>2, <4>3, DoneStays
    <3> QED  BY <3>1, <3>2
  <2>3. \A q \in Procs : pc'[q] = "wait_any" => "Waitany" \in Calls
    BY <2>1, Enters DEF DoneInv
  <2> QED  BY <2>2, <2>3 DEF DoneInv, LeavesDone
<1> QED  BY <1>1, <1>2

LEMMA DoneInvariant ==
  ASSUME IndexHarmless
  PROVE  Spec => []DoneInv
BY TypeInvariant, OwnInvariant, MoveInvariant, DoneInit, DoneStep, PTL DEF Spec

\* The request a call completes is a matched one.
LEMMA LeavesPair ==
  ASSUME TypeInv, OwnInv, MoveInv, DoneInv, NEW p \in Procs, pc[p] = "leave"
  PROVE  \E d \in Procs, c \in Cookies : c = Current(p) /\ c \in pending[d] /\ busy[c] = 0 /\ IsPair(c, d)
<1>1. PICK c \in Cookies : c = Current(p) /\ c = reqs[p][slot[p]] /\ slot[p] \in Requests /\ busy[c] = 0
  BY CurrentType DEF DoneInv, LeavesDone
<1>2. PICK d \in Procs : c \in ToSet(inbox[d]) \/ c \in ToSet(outbox[d]) \/ c \in pending[d]
  BY <1>1, HeldLives
<1> QED  BY <1>1, <1>2 DEF MoveInv, Contents, IsSend, IsRecv

\* MPI_Wait and MPI_Test return only after process_vm_readv or process_vm_writev has
\* returned, with the error of that very transfer, although MPI_Test looks at busy_
\* without the mutex and the process that is not the owner does not wait at all.
THEOREM DoneBeforeReturnCorrect ==
  ASSUME IndexHarmless
  PROVE  Spec => []DoneBeforeReturn
<1>1. TypeInv /\ OwnInv /\ MoveInv /\ DoneInv => DoneBeforeReturn
  BY LeavesPair DEF MoveInv, OneEach, Outcome, DoneBeforeReturn
<1> QED  BY <1>1, TypeInvariant, OwnInvariant, MoveInvariant, DoneInvariant, PTL

\* cookie::tag_ is an int16_t: the tags that keep their value in it.
TagsFit == \A t \in Tags : t <= 32767

LEMMA Int16Same ==
  ASSUME TagsFit
  PROVE  /\ \A t \in RecvTags : Int16(t) = t
         /\ \A t \in Tags : t >= 0 /\ t # AnyTag
<1>1. \A t \in Int : -1 <= t /\ t <= 32767 => Int16(t) = t
  <2>1. TAKE t \in Int
  <2>2. HAVE -1 <= t /\ t <= 32767
  <2>3. (t + 32768) % 65536 = t + 32768
    BY <2>2
  <2> QED  BY <2>3 DEF Int16
<1>2. \A t \in Tags : t \in Nat /\ t <= 32767
  BY TagsAssumption DEF TagsFit
<1>3. \A t \in Nat : t \in Int /\ -1 <= t /\ t >= 0 /\ t # AnyTag
  BY DEF AnyTag
<1>4. \A t \in Tags : Int16(t) = t /\ t >= 0 /\ t # AnyTag
  BY <1>1, <1>2, <1>3
<1>5. Int16(AnyTag) = AnyTag
  BY <1>1 DEF AnyTag
<1>6. \A t \in RecvTags : t \in Tags \/ t = AnyTag
  BY Zenon DEF RecvTags
<1> QED  BY Zenon, <1>4, <1>5, <1>6

\* MPI_Status names the sender and the tag of the message the request was matched with,
\* whichever of the two processes created the cookie and whichever reads it.
THEOREM StatusCorrectCorrect ==
  ASSUME IndexHarmless, TagsFit
  PROVE  Spec => []StatusCorrect
<1>1. TypeInv /\ OwnInv /\ MoveInv /\ DoneInv => StatusCorrect
  <2> SUFFICES ASSUME TypeInv, OwnInv, MoveInv, DoneInv, NEW p \in Procs, pc[p] = "leave"
               PROVE  /\ cookie[Current(p)].src = cookie[Current(p)].msg.from
                      /\ cookie[Current(p)].tag = cookie[Current(p)].msg.tag
    BY DEF StatusCorrect
  <2>1. PICK d \in Procs, c \in Cookies : c = Current(p) /\ IsPair(c, d)
    BY LeavesPair
  <2>2. cookie[c].msg.tag \in RecvTags
    BY <2>1 DEF IsPair, Messages, RecvTags
  <2> QED  BY <2>1, <2>2, Int16Same DEF IsPair
<1> QED  BY <1>1, TypeInvariant, OwnInvariant, MoveInvariant, DoneInvariant, PTL

-----------------------------------------------------------------------------
(* Garbage                                                                 *)

LEMMA GarbageStep ==
  ASSUME TypeInv, OwnInv, MoveInv, OwnInv', TypeInv', OwnGarbageReclaimed, [Next]_vars
  PROVE  OwnGarbageReclaimed'
<1> SUFFICES ASSUME NEW d \in Procs, NEW x \in pending'[d], used'[x] = 0  PROVE cookie'[x].owner # d
  BY DEF OwnGarbageReclaimed
<1>0. x \in Cookies
  BY DEF TypeInv, TypeOK
<1>1. ASSUME x \in pending[d], used[x] = 0  PROVE cookie'[x].owner # d
  BY <1>1, PairStable DEF OwnGarbageReclaimed
<1>2. ASSUME pending' = pending, used' = used  PROVE cookie'[x].owner # d
  BY <1>1, <1>2
<1>3. CASE UNCHANGED vars
  BY <1>2, <1>3 DEF vars, boxes, cookies
<1>4. ASSUME NEW p \in Procs, NEW i \in Requests, NEW c \in Cookies, NEW e \in Procs, Joins(p, i, c),
             \A q \in Procs : pending'[q] = IF q = e THEN pending[q] \cup {c} ELSE pending[q]
      PROVE  cookie'[x].owner # d
  <2>1. reqs'[p][i] = c /\ \A y \in Cookies \ {c} : used'[y] = used[y]
    BY <1>4 DEF Joins, Counted, Holds, TypeInv, TypeOK
  <2>2. used'[c] > 0
    <3>1. <<p, i>> \in Refs(c)'
      BY <2>1 DEF Refs
    <3>2. IsFiniteSet(Refs(c)') /\ Cardinality(Refs(c)') \in Nat
      <4>1. IsFiniteSet(Requests)
        BY FS_Interval, BoundsAssumption DEF Requests
      <4>2. IsFiniteSet(Procs \X Requests)
        BY <4>1, FS_Product, ProcsAssumption
      <4>3. Refs(c)' \subseteq Procs \X Requests
        BY DEF Refs
      <4> QED  BY <4>2, <4>3, FS_Subset, FS_CardinalityType
    <3>3. Cardinality(Refs(c)') # 0
      BY <3>1, <3>2, FS_EmptySet
    <3>4. used'[c] = Cardinality(Refs(c)') + lost'[c] /\ lost'[c] \in Nat
      BY DEF OwnInv, RefCount, TypeInv, TypeOK
    <3> QED  BY <3>2, <3>3, <3>4
  <2>3. x # c
    BY <2>2
  <2>4. x \in pending[d] /\ used[x] = 0
    BY <1>0, <1>4, <2>1, <2>3
  <2> QED  BY <1>1, <2>4
<1>5. ASSUME NEW p \in Procs, NEW i \in Requests, NEW e \in Procs, NEW c \in Cookies, NEW f,
             pc[p] = "idle", UNCHANGED calls, Creates(p, i, e, c, f), UNCHANGED pending
      PROVE  cookie'[x].owner # d
  <2>1. c \notin pending[d]
    BY <1>5, CreatesNew
  <2>2. \A y \in Cookies \ {c} : used'[y] = used[y]
    BY <1>5 DEF Creates, TypeInv, TypeOK
  <2> QED  BY <1>0, <1>1, <1>5, <2>1, <2>2
<1>6. ASSUME NEW p \in Procs, NEW i \in Requests, NEW e \in Procs, NEW t \in Tags,
             IssendMatched(p, i, e, t) \/ IssendPosted(p, i, e, t)
      PROVE  cookie'[x].owner # d
  <2>1. CASE IssendMatched(p, i, e, t)
    <3>1. PICK k \in DOMAIN outbox[e] : /\ pending' = [pending EXCEPT ![e] = @ \cup {outbox[e][k]}]
                                      /\ Joins(p, i, outbox[e][k])
      BY <2>1 DEF IssendMatched, Awaited
    <3>2. outbox[e][k] \in Cookies
      BY MembersAre DEF TypeInv, TypeOK
    <3>3. \A q \in Procs : pending'[q] = IF q = e THEN pending[q] \cup {outbox[e][k]} ELSE pending[q]
      BY <3>1 DEF TypeInv, TypeOK
    <3> QED  BY <1>4, <3>1, <3>2, <3>3
  <2>2. CASE IssendPosted(p, i, e, t)
    <3>1. pc[p] = "idle" /\ UNCHANGED <<calls, pending>>
      BY <2>2 DEF IssendPosted, Posting, Idle
    <3> QED  BY <1>5, <2>2, <3>1, SendWaits
  <2> QED  BY <1>6, <2>1, <2>2
<1>7. ASSUME NEW p \in Procs, NEW i \in Requests, NEW s \in Sources, NEW t \in RecvTags,
             IrecvMatched(p, i, s, t) \/ IrecvPosted(p, i, s, t)
      PROVE  cookie'[x].owner # d
  <2>1. CASE IrecvMatched(p, i, s, t)
    <3>1. PICK k \in DOMAIN inbox[p] : /\ pending' = [pending EXCEPT ![p] = @ \cup {inbox[p][k]}]
                                     /\ Joins(p, i, inbox[p][k])
      BY <2>1 DEF IrecvMatched, Incoming
    <3>2. inbox[p][k] \in Cookies
      BY MembersAre DEF TypeInv, TypeOK
    <3>3. \A q \in Procs : pending'[q] = IF q = p THEN pending[q] \cup {inbox[p][k]} ELSE pending[q]
      BY <3>1 DEF TypeInv, TypeOK
    <3> QED  BY <1>4, <3>1, <3>2, <3>3
  <2>2. CASE IrecvPosted(p, i, s, t)
    <3>1. pc[p] = "idle" /\ UNCHANGED <<calls, pending>>
      BY <2>2 DEF IrecvPosted, Posting, Idle
    <3> QED  BY <1>5, <2>2, <3>1, RecvWaits
  <2> QED  BY <1>7, <2>1, <2>2
<1>8. ASSUME NEW p \in Procs, Transfer(p) \/ NotifyDone(p) \/ Waits(p)
      PROVE  cookie'[x].owner # d
  BY <1>2, <1>8 DEF Transfer, NotifyDone, Waits, boxes, cookies
<1>9. ASSUME NEW p \in Procs, Leave(p)
      PROVE  cookie'[x].owner # d
  <2>1. PICK c \in Cookies : c = Current(p)
    BY <1>9, CurrentType DEF Leave
  <2>2. /\ pending' = [pending EXCEPT ![cookie[c].owner] = @ \ Unused(cookie[c].owner)]
        /\ used' = [used EXCEPT ![c] = @ - 1]
        /\ UNCHANGED cookie
    BY <1>9, <2>1 DEF Leave
  <2>3. x \in pending[d] /\ \A y \in Cookies \ {c} : used'[y] = used[y]
    BY ZenonT(60), <2>2 DEF TypeInv, TypeOK
  <2>4. cookie[c].owner # d
    BY ZenonT(60), <2>2, <2>3 DEF Unused, TypeInv, TypeOK
  <2> QED  BY <1>0, <1>1, <2>2, <2>3, <2>4
<1> QED  BY <1>3, <1>6, <1>7, <1>8, <1>9, Kinds

\* process::finalize collects what nobody uses whenever the owner completes a request, so
\* a dead cookie in the list of a process is one that another process created for it:
\* the garbage left after the last MPI_Wait is that of the requests to the process only.
THEOREM OwnGarbageReclaimedCorrect == Spec => []OwnGarbageReclaimed
<1>1. Init => OwnGarbageReclaimed
  BY DEF Init, OwnGarbageReclaimed
<1>2. TypeInv /\ OwnInv /\ MoveInv /\ (TypeInv /\ OwnInv)' /\ OwnGarbageReclaimed /\ [Next]_vars
        => OwnGarbageReclaimed'
  BY GarbageStep
<1> QED  BY <1>1, <1>2, TypeInvariant, OwnInvariant, MoveInvariant, PTL DEF Spec

=============================================================================
