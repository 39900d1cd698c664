---------------------------- MODULE PromiseProofs ----------------------------
(***************************************************************************)
(* Proofs about PointToPoint, concluded: which requests wait for a match,  *)
(* which of them a probe has seen, that PointToPoint implements            *)
(* Rendezvous, and that it keeps what was proved of Rendezvous.            *)
(***************************************************************************)
EXTENDS PointToPointProofs

-----------------------------------------------------------------------------
(* Matching                                                                *)

\* cookie::recv_match says of a waiting send what Rendezvous does, as long as tags fit.
LEMMA RecvAgrees ==
  ASSUME TagsFit, NEW d \in Procs, NEW c, IsSend(c, d), NEW s \in Sources, NEW t \in RecvTags,
         NEW r, r.src = s, r.tag = t
  PROVE  RecvMatch(c, s, t) <=> Promise!Accepts(r, cookie[c].msg)
<1>1. /\ cookie[c].msg \in Messages /\ cookie[c].msg.tag \in Tags
      /\ cookie[c].src = cookie[c].msg.from /\ cookie[c].tag = Int16(cookie[c].msg.tag)
  BY DEF IsSend, Messages
<1>2. cookie[c].tag = cookie[c].msg.tag /\ cookie[c].tag >= 0
  BY <1>1, Int16Same DEF RecvTags
<1> QED  BY <1>1, <1>2 DEF RecvMatch, Promise!Accepts

\* And so does cookie::send_match of a posted receive.
LEMMA SendAgrees ==
  ASSUME TagsFit, NEW d \in Procs, NEW c, IsRecv(c, d), NEW p \in Procs, NEW t \in Tags,
         NEW m, m.from = p, m.tag = t
  PROVE  SendMatch(c, p, t) <=> Promise!Accepts(cookie[c].recv, m)
<1>1. /\ cookie[c].recv \in Receives /\ cookie[c].recv.tag \in RecvTags
      /\ cookie[c].src = cookie[c].recv.src /\ cookie[c].tag = Int16(cookie[c].recv.tag)
  BY DEF IsRecv, Receives
<1>2. cookie[c].tag = cookie[c].recv.tag
  BY <1>1, Int16Same
<1> QED  BY <1>1, <1>2 DEF SendMatch, Promise!Accepts

\* Positions and elements of the lists.
LEMMA Listed ==
  ASSUME TypeInv, NEW d \in Procs
  PROVE  /\ inbox[d] \in Seq(Cookies) /\ DOMAIN inbox[d] = 1..Len(inbox[d]) /\ Len(inbox[d]) \in Nat
         /\ outbox[d] \in Seq(Cookies) /\ DOMAIN outbox[d] = 1..Len(outbox[d]) /\ Len(outbox[d]) \in Nat
         /\ \A k \in DOMAIN inbox[d] : inbox[d][k] \in Cookies /\ inbox[d][k] \in ToSet(inbox[d])
         /\ \A k \in DOMAIN outbox[d] : outbox[d][k] \in Cookies /\ outbox[d][k] \in ToSet(outbox[d])
BY LenProperties, ElementOfSeq DEF TypeInv, TypeOK, ToSet

\* Steps that neither post nor match a request leave the lists of waiting ones alone.
LEMMA Quiet ==
  ASSUME TypeInv, OwnInv, MoveInv, NEW p \in Procs,
         Transfer(p) \/ NotifyDone(p) \/ Leave(p) \/ Waits(p)
  PROVE  /\ UNCHANGED <<inbox, outbox, posted>>
         /\ \A d \in Procs : pending'[d] \subseteq pending[d]
         /\ \A c \in Cookies : cookie'[c].msg = cookie[c].msg /\ cookie'[c].recv = cookie[c].recv
         /\ \A d \in Procs : \A c \in ToSet(inbox[d]) \cup ToSet(outbox[d]) : cookie'[c] = cookie[c]
<1>1. CASE Transfer(p) \/ Waits(p)
  BY <1>1, ListTypes DEF Transfer, Waits, boxes, cookies
<1>2. CASE Leave(p)
  <2>1. UNCHANGED <<inbox, outbox, posted, cookie>>
    BY <1>2 DEF Leave, history
  <2>2. \A d \in Procs : pending'[d] \subseteq pending[d]
    BY <1>2 DEF Leave, TypeInv, TypeOK
  <2> QED  BY <2>1, <2>2
<1>3. CASE NotifyDone(p)
  <2>1. UNCHANGED <<inbox, outbox, pending, posted>>
    BY <1>3 DEF NotifyDone, boxes
  <2>2. PICK c \in Cookies, e \in Procs : c = Current(p) /\ c \in pending[e]
    BY <1>3, MoverOf DEF NotifyDone
  <2>3. cookie'[c] = [cookie[c] EXCEPT !.err = IF @ # MPI_SUCCESS THEN @ ELSE ret[p]]
    BY <1>3, <2>2 DEF NotifyDone, TypeInv, TypeOK
  <2>4. \A x \in Cookies \ {c} : cookie'[x] = cookie[x]
    BY <1>3, <2>2 DEF NotifyDone, TypeInv, TypeOK
  <2>5. cookie[c] \in CookieRecords
    BY DEF TypeInv, TypeOK
  <2>6. cookie'[c].msg = cookie[c].msg /\ cookie'[c].recv = cookie[c].recv
    BY <2>3, <2>5 DEF CookieRecords
  <2>7. \A d \in Procs : c \notin ToSet(inbox[d]) /\ c \notin ToSet(outbox[d])
    BY <2>2, Placed
  <2>8. \A d \in Procs : \A x \in ToSet(inbox[d]) \cup ToSet(outbox[d]) : cookie'[x] = cookie[x]
    BY <2>4, <2>7, ListTypes
  <2> QED  BY <2>1, <2>4, <2>6, <2>8
<1> QED  BY <1>1, <1>2, <1>3

\* What MPI_Issend does when it has put the new send c into the inbox of d.
NewSend(p, d, t, c) ==
  /\ inbox' = Appended(inbox, d, c)
  /\ ToSet(inbox'[d]) = ToSet(inbox[d]) \cup {c}
  /\ \A e \in Procs \ {d} : inbox'[e] = inbox[e]
  /\ UNCHANGED <<outbox, pending, outcome>>
  /\ cookie'[c] = Created(p, p, t, Message(p, d, t), NoRecv)
  /\ cookie'[c].msg = Message(p, d, t)
  /\ \A x \in Cookies \ {c} : cookie'[x] = cookie[x]
  /\ \A e \in Procs : c \notin ToSet(inbox[e]) /\ c \notin ToSet(outbox[e]) /\ c \notin pending[e]
  /\ pc[p] = "idle" /\ UNCHANGED pc
  /\ \A q \in Procs \ {p} : Current(q)' = Current(q)

\* What MPI_Irecv does when it has put the new receive c into the outbox of p.
NewRecv(p, s, t, c) ==
  /\ outbox' = Appended(outbox, p, c)
  /\ ToSet(outbox'[p]) = ToSet(outbox[p]) \cup {c}
  /\ \A e \in Procs \ {p} : outbox'[e] = outbox[e]
  /\ UNCHANGED <<inbox, pending, outcome>>
  /\ cookie'[c] = Created(p, s, t, NoMsg, Receive(p, s, t))
  /\ cookie'[c].recv = Receive(p, s, t)
  /\ \A x \in Cookies \ {c} : cookie'[x] = cookie[x]
  /\ \A e \in Procs : c \notin ToSet(inbox[e]) /\ c \notin ToSet(outbox[e]) /\ c \notin pending[e]
  /\ pc[p] = "idle" /\ UNCHANGED pc
  /\ \A q \in Procs \ {p} : Current(q)' = Current(q)

LEMMA SendNew ==
  ASSUME TypeInv, OwnInv, NEW p \in Procs, NEW i \in Requests, NEW d \in Procs, NEW t \in Tags,
         IssendPosted(p, i, d, t)
  PROVE  \E c \in Cookies : NewSend(p, d, t, c)
<1>1. PICK c \in Cookies :
         /\ Creates(p, i, d, c, Created(p, p, t, Message(p, d, t), NoRecv))
         /\ inbox' = Appended(inbox, d, c)
         /\ ToSet(inbox'[d]) = ToSet(inbox[d]) \cup {c}
         /\ \A e \in Procs \ {d} : inbox'[e] = inbox[e]
  BY SendWaits
<1>2. /\ pc[p] = "idle" /\ UNCHANGED calls /\ UNCHANGED <<outbox, pending, outcome>>
  BY DEF IssendPosted, Posting, Idle
<1>3. /\ cookie'[c] = Created(p, p, t, Message(p, d, t), NoRecv)
      /\ \A x \in Cookies \ {c} : cookie'[x] = cookie[x]
      /\ \A e \in Procs : c \notin ToSet(inbox[e]) /\ c \notin ToSet(outbox[e]) /\ c \notin pending[e]
      /\ \A q \in Procs \ {p} : Current(q)' = Current(q)
  BY <1>1, <1>2, CreatesNew
<1>4. cookie'[c].msg = Message(p, d, t)
  BY <1>3 DEF Created
<1> QED  BY <1>1, <1>2, <1>3, <1>4 DEF NewSend, calls

LEMMA RecvNew ==
  ASSUME TypeInv, OwnInv, NEW p \in Procs, NEW i \in Requests, NEW s \in Sources, NEW t \in RecvTags,
         IrecvPosted(p, i, s, t)
  PROVE  \E c \in Cookies : NewRecv(p, s, t, c)
<1>1. PICK c \in Cookies :
         /\ Creates(p, i, p, c, Created(p, s, t, NoMsg, Receive(p, s, t)))
         /\ outbox' = Appended(outbox, p, c)
         /\ ToSet(outbox'[p]) = ToSet(outbox[p]) \cup {c}
         /\ \A e \in Procs \ {p} : outbox'[e] = outbox[e]
  BY RecvWaits
<1>2. /\ pc[p] = "idle" /\ UNCHANGED calls /\ UNCHANGED <<inbox, pending, outcome>>
  BY DEF IrecvPosted, Posting, Idle
<1>3. /\ cookie'[c] = Created(p, s, t, NoMsg, Receive(p, s, t))
      /\ \A x \in Cookies \ {c} : cookie'[x] = cookie[x]
      /\ \A e \in Procs : c \notin ToSet(inbox[e]) /\ c \notin ToSet(outbox[e]) /\ c \notin pending[e]
      /\ \A q \in Procs \ {p} : Current(q)' = Current(q)
  BY <1>1, <1>2, CreatesNew
<1>4. cookie'[c].recv = Receive(p, s, t)
  BY <1>3 DEF Created
<1> QED  BY <1>1, <1>2, <1>3, <1>4 DEF NewRecv, calls

-----------------------------------------------------------------------------
(* No match is missed                                                      *)

\* NoMissedMatch, of the cookies and not of their positions.
Unmatched ==
  \A d \in Procs : \A x \in ToSet(inbox[d]), y \in ToSet(outbox[d]) :
    ~ Promise!Accepts(cookie[y].recv, cookie[x].msg)

LEMMA UnmatchedStep ==
  ASSUME TagsFit, TypeInv, OwnInv, MoveInv, Unmatched, [Next]_vars
  PROVE  Unmatched'
<1>1. ASSUME \A d \in Procs : /\ ToSet(inbox'[d]) \subseteq ToSet(inbox[d])
                              /\ ToSet(outbox'[d]) \subseteq ToSet(outbox[d]),
             \A d \in Procs : \A x \in ToSet(inbox'[d]) : cookie'[x].msg = cookie[x].msg,
             \A d \in Procs : \A x \in ToSet(outbox'[d]) : cookie'[x].recv = cookie[x].recv
      PROVE  Unmatched'
  BY <1>1 DEF Unmatched, Promise!Accepts
<1>2. CASE UNCHANGED vars
  BY <1>1, <1>2 DEF vars, boxes, cookies
<1>3. ASSUME NEW p \in Procs, Transfer(p) \/ NotifyDone(p) \/ Leave(p) \/ Waits(p)
      PROVE  Unmatched'
  <2>1. /\ UNCHANGED <<inbox, outbox>>
        /\ \A d \in Procs : \A c \in ToSet(inbox[d]) \cup ToSet(outbox[d]) : cookie'[c] = cookie[c]
    BY <1>3, Quiet
  <2> QED  BY <1>1, <2>1
<1>4. ASSUME NEW p \in Procs, NEW i \in Requests, NEW d \in Procs, NEW t \in Tags, IssendMatched(p, i, d, t)
      PROVE  Unmatched'
  <2>1. PICK k \in DOMAIN outbox[d], c \in Cookies : FoundRecv(p, i, d, t, k, c)
    BY <1>4, SendMeets
  <2>2. UNCHANGED inbox
    BY <1>4 DEF IssendMatched
  <2>3. \A e \in Procs : ToSet(outbox'[e]) \subseteq ToSet(outbox[e])
    BY <2>1 DEF FoundRecv
  <2>4. \A e \in Procs : \A x \in ToSet(inbox[e]) : cookie'[x] = cookie[x]
    BY <2>1, Placed, ListTypes DEF FoundRecv
  <2>5. \A x \in Cookies : cookie'[x].recv = cookie[x].recv
    BY <2>1 DEF FoundRecv
  <2> QED  BY <1>1, <2>2, <2>3, <2>4, <2>5, ListTypes
<1>5. ASSUME NEW p \in Procs, NEW i \in Requests, NEW s \in Sources, NEW t \in RecvTags, IrecvMatched(p, i, s, t)
      PROVE  Unmatched'
  <2>1. PICK k \in DOMAIN inbox[p], c \in Cookies : FoundSend(p, i, s, t, k, c)
    BY <1>5, RecvMeets
  <2>2. UNCHANGED outbox
    BY <1>5 DEF IrecvMatched
  <2>3. \A e \in Procs : ToSet(inbox'[e]) \subseteq ToSet(inbox[e])
    BY <2>1 DEF FoundSend
  <2>4. \A e \in Procs : \A x \in ToSet(outbox[e]) : cookie'[x] = cookie[x]
    BY <2>1, Placed, ListTypes DEF FoundSend
  <2>5. \A x \in Cookies : cookie'[x].msg = cookie[x].msg
    BY <2>1 DEF FoundSend
  <2> QED  BY <1>1, <2>2, <2>3, <2>4, <2>5, ListTypes
<1>6. ASSUME NEW p \in Procs, NEW i \in Requests, NEW d \in Procs, NEW t \in Tags, IssendPosted(p, i, d, t)
      PROVE  Unmatched'
  <2>1. PICK c \in Cookies : NewSend(p, d, t, c)
    BY <1>6, SendNew
  <2>2. \A y \in ToSet(outbox[d]) : ~ SendMatch(y, p, t)
    BY <1>6 DEF IssendPosted, Awaited, ToSet
  <2>3. \A y \in ToSet(outbox[d]) : ~ Promise!Accepts(cookie[y].recv, Message(p, d, t))
    <3>1. Message(p, d, t).from = p /\ Message(p, d, t).tag = t
      BY DEF Message
    <3>2. \A y \in ToSet(outbox[d]) : IsRecv(y, d)
      BY DEF MoveInv, Contents
    <3> QED  BY <2>2, <3>1, <3>2, SendAgrees
  <2>4. \A e \in Procs : \A x \in ToSet(inbox[e]) \cup ToSet(outbox[e]) : cookie'[x] = cookie[x]
    BY <2>1, ListTypes DEF NewSend
  <2> SUFFICES ASSUME NEW e \in Procs, NEW x \in ToSet(inbox'[e]), NEW y \in ToSet(outbox[e])
               PROVE  ~ Promise!Accepts(cookie'[y].recv, cookie'[x].msg)
    BY <2>1 DEF Unmatched, NewSend, Promise!Accepts
  <2>5. CASE x \in ToSet(inbox[e])
    BY <2>4, <2>5 DEF Unmatched
  <2>6. CASE x = c /\ e = d
    BY <2>1, <2>3, <2>4, <2>6 DEF NewSend
  <2> QED  BY <2>1, <2>5, <2>6 DEF NewSend
<1>7. ASSUME NEW p \in Procs, NEW i \in Requests, NEW s \in Sources, NEW t \in RecvTags, IrecvPosted(p, i, s, t)
      PROVE  Unmatched'
  <2>1. PICK c \in Cookies : NewRecv(p, s, t, c)
    BY <1>7, RecvNew
  <2>2. \A x \in ToSet(inbox[p]) : ~ RecvMatch(x, s, t)
    BY <1>7 DEF IrecvPosted, Incoming, ToSet
  <2>3. \A x \in ToSet(inbox[p]) : ~ Promise!Accepts(Receive(p, s, t), cookie[x].msg)
    <3>1. Receive(p, s, t).src = s /\ Receive(p, s, t).tag = t
      BY DEF Receive
    <3>2. \A x \in ToSet(inbox[p]) : IsSend(x, p)
      BY DEF MoveInv, Contents
    <3> QED  BY <2>2, <3>1, <3>2, RecvAgrees
  <2>4. \A e \in Procs : \A x \in ToSet(inbox[e]) \cup ToSet(outbox[e]) : cookie'[x] = cookie[x]
    BY <2>1, ListTypes DEF NewRecv
  <2> SUFFICES ASSUME NEW e \in Procs, NEW x \in ToSet(inbox[e]), NEW y \in ToSet(outbox'[e])
               PROVE  ~ Promise!Accepts(cookie'[y].recv, cookie'[x].msg)
    BY <2>1 DEF Unmatched, NewRecv, Promise!Accepts
  <2>5. CASE y \in ToSet(outbox[e])
    BY <2>4, <2>5 DEF Unmatched
  <2>6. CASE y = c /\ e = p
    BY <2>1, <2>3, <2>4, <2>6 DEF NewRecv
  <2> QED  BY <2>1, <2>5, <2>6 DEF NewRecv
<1> QED  BY <1>2, <1>3, <1>4, <1>5, <1>6, <1>7, Kinds

\* recv_match and send_match are two conditions, written apart and evaluated on what is
\* left of a tag in 16 bits. They agree with each other, so that no message and no receive
\* that accepts it ever wait beside each other in the lists of a process.
THEOREM NoMissedMatchCorrect ==
  ASSUME TagsFit
  PROVE  Spec => []NoMissedMatch
<1>1. Init => Unmatched
  BY DEF Init, Unmatched, ToSet
<1>2. TypeInv /\ OwnInv /\ MoveInv /\ Unmatched /\ [Next]_vars => Unmatched'
  BY UnmatchedStep
<1>3. Unmatched => NoMissedMatch
  BY DEF Unmatched, NoMissedMatch, ToSet
<1> QED  BY <1>1, <1>2, <1>3, TypeInvariant, OwnInvariant, MoveInvariant, PTL DEF Spec

-----------------------------------------------------------------------------
(* What a probe has seen                                                   *)

\* The cookie x is the first in the inbox of p that a receive of (s, t) takes.
NextUp(p, s, t, x) ==
  \E k \in Incoming(p, s, t) : IsFirst(k, Incoming(p, s, t)) /\ inbox[p][k] = x

\* It stays so while the inbox of p stays as it is, or grows at its end.
LEMMA NextUpStays ==
  ASSUME TypeInv, NEW p \in Procs, NEW s, NEW t, NEW x, NextUp(p, s, t, x),
         \A c \in ToSet(inbox[p]) : cookie'[c] = cookie[c],
         inbox'[p] = inbox[p] \/ \E c \in Cookies : inbox'[p] = Append(inbox[p], c)
  PROVE  NextUp(p, s, t, x)'
<1> DEFINE n == Len(inbox[p])
<1>1. /\ n \in Nat /\ DOMAIN inbox[p] = 1..n
      /\ \A k \in 1..n : inbox[p][k] \in ToSet(inbox[p])
      /\ inbox[p] \in Seq(Cookies)
  BY Listed
<1>2. /\ \A k \in 1..n : inbox'[p][k] = inbox[p][k] /\ k \in DOMAIN inbox'[p]
      /\ DOMAIN inbox'[p] \subseteq 1..(n + 1)
  <2>1. CASE inbox'[p] = inbox[p]
    BY <1>1, <2>1
  <2>2. CASE \E c \in Cookies : inbox'[p] = Append(inbox[p], c)
    BY <1>1, <2>2, AppendProperties
  <2> QED  BY <2>1, <2>2
<1> HIDE DEF n
<1>3. \A k \in 1..n : k \in Incoming(p, s, t)' <=> k \in Incoming(p, s, t)
  BY <1>1, <1>2 DEF Incoming, RecvMatch
<1>4. PICK k \in Incoming(p, s, t) : IsFirst(k, Incoming(p, s, t)) /\ inbox[p][k] = x
  BY DEF NextUp
<1>5. k \in 1..n /\ Incoming(p, s, t)' \subseteq 1..(n + 1)
  BY <1>1, <1>2 DEF Incoming
<1>6. k \in Incoming(p, s, t)' /\ inbox'[p][k] = x
  BY <1>2, <1>3, <1>4, <1>5
<1>7. ASSUME NEW j \in Incoming(p, s, t)'  PROVE k <= j
  <2>1. CASE j \in 1..n
    BY <1>3, <1>4, <2>1 DEF IsFirst
  <2>2. CASE j = n + 1
    BY <1>1, <1>5, <2>2
  <2> QED  BY <1>1, <1>5, <2>1, <2>2
<1> QED  BY <1>6, <1>7 DEF NextUp, IsFirst

LEMMA ProbedStep ==
  ASSUME TypeInv, OwnInv, MoveInv, ProbedIsNext, [Next]_vars
  PROVE  ProbedIsNext'
<1> SUFFICES ASSUME NEW q \in Procs, NEW s, NEW t, NEW x,
                    s = probed'[q].src, t = probed'[q].tag, x = probed'[q].cookie, x # NoCookie
             PROVE  NextUp(q, s, t, x)'
  BY DEF ProbedIsNext, NextUp
\* When no receive of q was posted and no probe of q reported anything.
<1>1. ASSUME probed'[q] = probed[q], \A c \in ToSet(inbox[q]) : cookie'[c] = cookie[c],
             inbox'[q] = inbox[q] \/ \E c \in Cookies : inbox'[q] = Append(inbox[q], c)
      PROVE  NextUp(q, s, t, x)'
  <2>1. NextUp(q, s, t, x)
    BY <1>1 DEF ProbedIsNext, NextUp
  <2> QED  BY <1>1, <2>1, NextUpStays
<1>2. CASE UNCHANGED vars
  BY <1>1, <1>2 DEF vars, boxes, cookies, history
<1>3. ASSUME NEW p \in Procs, Transfer(p) \/ NotifyDone(p) \/ Leave(p)
      PROVE  NextUp(q, s, t, x)'
  <2>1. UNCHANGED probed
    BY <1>3 DEF Transfer, NotifyDone, Leave, history
  <2> QED  BY <1>1, <1>3, <2>1, Quiet
<1>4. ASSUME NEW p \in Procs, Waits(p)
      PROVE  NextUp(q, s, t, x)'
  <2>1. UNCHANGED <<inbox, cookie>>
    BY <1>4 DEF Waits, boxes, cookies
  <2>2. CASE probed'[q] = probed[q]
    BY <1>1, <2>1, <2>2
  <2>3. CASE probed'[q] # probed[q]
    <3>1. PICK s1 \in Sources, t1 \in RecvTags : Reports(p, s1, t1)
      BY <1>4, <2>3 DEF Waits
    <3>2. PICK k \in Incoming(p, s1, t1) :
            /\ IsFirst(k, Incoming(p, s1, t1))
            /\ probed' = [probed EXCEPT ![p] = [cookie |-> inbox[p][k], src |-> s1, tag |-> t1]]
      BY <3>1 DEF Reports
    <3>3. q = p /\ probed'[p] = [cookie |-> inbox[p][k], src |-> s1, tag |-> t1]
      BY <2>3, <3>2 DEF TypeInv, TypeOK
    <3>4. s = s1 /\ t = t1 /\ x = inbox[p][k]
      BY <3>3
    <3>5. NextUp(q, s, t, x)
      BY <3>2, <3>3, <3>4 DEF NextUp
    <3> QED  BY <2>1, <3>5 DEF NextUp, Incoming, RecvMatch
  <2> QED  BY <2>2, <2>3
<1>5. ASSUME NEW p \in Procs, NEW i \in Requests, NEW d \in Procs, NEW u \in Tags, IssendMatched(p, i, d, u)
      PROVE  NextUp(q, s, t, x)'
  <2>1. PICK k \in DOMAIN outbox[d], c \in Cookies : FoundRecv(p, i, d, u, k, c)
    BY <1>5, SendMeets
  <2>2. UNCHANGED <<inbox, probed>>
    BY <1>5 DEF IssendMatched
  <2>3. \A y \in ToSet(inbox[q]) : cookie'[y] = cookie[y]
    BY <2>1, Placed, ListTypes DEF FoundRecv
  <2> QED  BY <1>1, <2>2, <2>3
<1>6. ASSUME NEW p \in Procs, NEW i \in Requests, NEW d \in Procs, NEW u \in Tags, IssendPosted(p, i, d, u)
      PROVE  NextUp(q, s, t, x)'
  <2>1. PICK c \in Cookies : NewSend(p, d, u, c)
    BY <1>6, SendNew
  <2>2. UNCHANGED probed
    BY <1>6 DEF IssendPosted
  <2>3. \A y \in ToSet(inbox[q]) : cookie'[y] = cookie[y]
    BY <2>1, ListTypes DEF NewSend
  <2>4. inbox'[q] = inbox[q] \/ inbox'[q] = Append(inbox[q], c)
    BY <2>1 DEF NewSend, Appended, TypeInv, TypeOK
  <2> QED  BY <1>1, <2>2, <2>3, <2>4
<1>7. ASSUME NEW p \in Procs, NEW i \in Requests, NEW s1 \in Sources, NEW u \in RecvTags,
             IrecvMatched(p, i, s1, u) \/ IrecvPosted(p, i, s1, u)
      PROVE  NextUp(q, s, t, x)'
  <2>1. probed' = [probed EXCEPT ![p] = NoProbe]
    BY <1>7 DEF IrecvMatched, IrecvPosted
  <2>2. q # p /\ probed'[q] = probed[q]
    BY <2>1 DEF TypeInv, TypeOK, NoProbe
  <2>3. CASE IrecvMatched(p, i, s1, u)
    <3>1. PICK k \in DOMAIN inbox[p], c \in Cookies : FoundSend(p, i, s1, u, k, c)
      BY <2>3, RecvMeets
    <3>2. inbox'[q] = inbox[q]
      BY <2>2, <3>1 DEF FoundSend
    <3>3. c \notin ToSet(inbox[q])
      BY <2>2, <3>1, Placed DEF FoundSend
    <3>4. \A y \in ToSet(inbox[q]) : cookie'[y] = cookie[y]
      BY <3>1, <3>3, ListTypes DEF FoundSend
    <3> QED  BY <1>1, <2>2, <3>2, <3>4
  <2>4. CASE IrecvPosted(p, i, s1, u)
    <3>1. PICK c \in Cookies : NewRecv(p, s1, u, c)
      BY <2>4, RecvNew
    <3>2. inbox'[q] = inbox[q] /\ \A y \in ToSet(inbox[q]) : cookie'[y] = cookie[y]
      BY <3>1, ListTypes DEF NewRecv
    <3> QED  BY <1>1, <2>2, <3>2
  <2> QED  BY <1>7, <2>3, <2>4
<1> QED  BY <1>2, <1>3, <1>4, <1>5, <1>6, <1>7, Kinds

\* MPI_Probe and MPI_Iprobe look at the inbox and let go of the mutex: the message they
\* report is still there, and still the first that matches, when the process asks for it.
THEOREM ProbedIsNextCorrect == Spec => []ProbedIsNext
<1>1. Init => ProbedIsNext
  BY DEF Init, ProbedIsNext, NoProbe
<1>2. TypeInv /\ OwnInv /\ MoveInv /\ ProbedIsNext /\ [Next]_vars => ProbedIsNext'
  BY ProbedStep
<1> QED  BY <1>1, <1>2, TypeInvariant, OwnInvariant, MoveInvariant, PTL DEF Spec

-----------------------------------------------------------------------------
(* One cookie for a message                                                *)

\* Cookie x stands for a message.
Carries(x) == \E d \in Procs : x \in ToSet(inbox[d]) \/ x \in pending[d]

\* No two of them for the same, and for none that is still to be sent.
Single ==
  /\ \A x \in Cookies : Carries(x) => cookie[x].msg.n <= posted[cookie[x].msg.from]
  /\ \A x, y \in Cookies : Carries(x) /\ Carries(y) /\ cookie[x].msg = cookie[y].msg => x = y

LEMMA CarriesMessage ==
  ASSUME MoveInv, NEW x, Carries(x)
  PROVE  cookie[x].msg \in Messages /\ cookie[x].msg.from \in Procs /\ cookie[x].msg.n \in Nat
<1>1. cookie[x].msg \in Messages
  BY DEF Carries, MoveInv, Contents, IsSend, IsPair
<1> QED  BY <1>1, BoundsAssumption DEF Messages

\* Where cookies keep their messages.
LEMMA SingleFrame ==
  ASSUME TypeInv, MoveInv, Single,
         \A x \in Cookies : Carries(x)' => Carries(x) /\ cookie'[x].msg = cookie[x].msg,
         \A p \in Procs : posted'[p] = posted[p] \/ posted'[p] = posted[p] + 1
  PROVE  Single'
<1>1. ASSUME NEW x \in Cookies, Carries(x)'
      PROVE  cookie'[x].msg.n <= posted'[cookie'[x].msg.from]
  <2>1. Carries(x) /\ cookie'[x].msg = cookie[x].msg
    BY <1>1
  <2>2. PICK q \in Procs, n \in Nat : q = cookie[x].msg.from /\ n = cookie[x].msg.n /\ n <= posted[q]
    BY <2>1, CarriesMessage DEF Single
  <2>3. posted[q] \in Int
    BY BoundsAssumption DEF TypeInv, TypeOK
  <2> QED  BY <2>1, <2>2, <2>3
<1>2. ASSUME NEW x \in Cookies, NEW y \in Cookies, Carries(x)', Carries(y)', cookie'[x].msg = cookie'[y].msg
      PROVE  x = y
  BY <1>2 DEF Single
<1> QED  BY <1>1, <1>2 DEF Single

\* Where p sends its next message in cookie c.
LEMMA SingleSends ==
  ASSUME TypeInv, MoveInv, Single, NEW p \in Procs, NEW c \in Cookies, NEW m,
         m.from = p, m.n = posted[p] + 1, cookie'[c].msg = m,
         posted' = [posted EXCEPT ![p] = @ + 1],
         \A x \in Cookies \ {c} : Carries(x)' => Carries(x) /\ cookie'[x].msg = cookie[x].msg
  PROVE  Single'
<1>1. posted[p] \in Int /\ posted'[p] = posted[p] + 1
      /\ \A q \in Procs \ {p} : posted'[q] = posted[q]
  BY BoundsAssumption DEF TypeInv, TypeOK
<1>2. ASSUME NEW x \in Cookies \ {c}, Carries(x)'
      PROVE  /\ cookie'[x].msg = cookie[x].msg /\ Carries(x)
             /\ cookie'[x].msg.n <= posted'[cookie'[x].msg.from]
             /\ cookie'[x].msg # m
  <2>1. Carries(x) /\ cookie'[x].msg = cookie[x].msg
    BY <1>2
  <2>2. PICK q \in Procs, n \in Nat : q = cookie[x].msg.from /\ n = cookie[x].msg.n /\ n <= posted[q]
    BY <2>1, CarriesMessage DEF Single
  <2>3. posted[q] \in Int
    BY BoundsAssumption DEF TypeInv, TypeOK
  <2>4. n <= posted'[q]
    BY <1>1, <2>2, <2>3
  <2>5. q = p => n # posted[p] + 1
    BY <1>1, <2>2
  <2> QED  BY <2>1, <2>2, <2>4, <2>5
<1>3. cookie'[c].msg.n <= posted'[cookie'[c].msg.from]
  BY <1>1
<1>4. \A x \in Cookies : Carries(x)' => cookie'[x].msg.n <= posted'[cookie'[x].msg.from]
  BY <1>2, <1>3
<1>5. ASSUME NEW x \in Cookies, NEW y \in Cookies, Carries(x)', Carries(y)', cookie'[x].msg = cookie'[y].msg
      PROVE  x = y
  <2>1. CASE x = c \/ y = c
    BY <1>2, <1>5, <2>1
  <2>2. CASE x # c /\ y # c
    BY <1>2, <1>5, <2>2 DEF Single
  <2> QED  BY <2>1, <2>2
<1> QED  BY <1>4, <1>5 DEF Single

LEMMA SingleStep ==
  ASSUME TypeInv, OwnInv, MoveInv, Single, [Next]_vars
  PROVE  Single'
<1>1. CASE UNCHANGED vars
  BY <1>1, SingleFrame DEF vars, boxes, cookies, history, Carries
<1>2. ASSUME NEW p \in Procs, Transfer(p) \/ NotifyDone(p) \/ Leave(p) \/ Waits(p)
      PROVE  Single'
  <2>1. /\ UNCHANGED <<inbox, posted>>
        /\ \A d \in Procs : pending'[d] \subseteq pending[d]
        /\ \A c \in Cookies : cookie'[c].msg = cookie[c].msg
    BY <1>2, Quiet
  <2>2. \A x \in Cookies : Carries(x)' => Carries(x)
    BY <2>1 DEF Carries
  <2> QED  BY <2>1, <2>2, SingleFrame
<1>3. ASSUME NEW p \in Procs, NEW i \in Requests, NEW d \in Procs, NEW t \in Tags, IssendMatched(p, i, d, t)
      PROVE  Single'
  <2>1. PICK k \in DOMAIN outbox[d], c \in Cookies : FoundRecv(p, i, d, t, k, c)
    BY <1>3, SendMeets
  <2>2. UNCHANGED inbox /\ posted' = [posted EXCEPT ![p] = @ + 1]
    BY <1>3 DEF IssendMatched, Posts
  <2>3. cookie'[c].msg = Message(p, d, t) /\ \A x \in Cookies \ {c} : cookie'[x] = cookie[x]
    BY <2>1 DEF FoundRecv
  <2>4. \A x \in Cookies \ {c} : Carries(x)' => Carries(x)
    BY <2>1, <2>2 DEF Carries, FoundRecv
  <2>5. PICK m : m = Message(p, d, t)
    OBVIOUS
  <2>6. m.from = p /\ m.n = posted[p] + 1 /\ cookie'[c].msg = m
    BY <2>3, <2>5 DEF Message
  <2>7. \A x \in Cookies \ {c} : Carries(x)' => Carries(x) /\ cookie'[x].msg = cookie[x].msg
    BY <2>3, <2>4
  <2> QED  BY <2>2, <2>6, <2>7, SingleSends
<1>4. ASSUME NEW p \in Procs, NEW i \in Requests, NEW d \in Procs, NEW t \in Tags, IssendPosted(p, i, d, t)
      PROVE  Single'
  <2>1. PICK c \in Cookies : NewSend(p, d, t, c)
    BY <1>4, SendNew
  <2>2. posted' = [posted EXCEPT ![p] = @ + 1]
    BY <1>4 DEF IssendPosted, Posts
  <2>3. cookie'[c].msg = Message(p, d, t) /\ \A x \in Cookies \ {c} : cookie'[x] = cookie[x]
    BY <2>1 DEF NewSend
  <2>4. \A x \in Cookies \ {c} : Carries(x)' => Carries(x)
    BY <2>1 DEF Carries, NewSend
  <2>5. PICK m : m = Message(p, d, t)
    OBVIOUS
  <2>6. m.from = p /\ m.n = posted[p] + 1 /\ cookie'[c].msg = m
    BY <2>3, <2>5 DEF Message
  <2>7. \A x \in Cookies \ {c} : Carries(x)' => Carries(x) /\ cookie'[x].msg = cookie[x].msg
    BY <2>3, <2>4
  <2> QED  BY <2>2, <2>6, <2>7, SingleSends
<1>5. ASSUME NEW p \in Procs, NEW i \in Requests, NEW s \in Sources, NEW t \in RecvTags, IrecvMatched(p, i, s, t)
      PROVE  Single'
  <2>1. PICK k \in DOMAIN inbox[p], c \in Cookies : FoundSend(p, i, s, t, k, c)
    BY <1>5, RecvMeets
  <2>2. \A q \in Procs : posted'[q] = posted[q] \/ posted'[q] = posted[q] + 1
    BY <1>5 DEF IrecvMatched, Posts, TypeInv, TypeOK
  <2>3. \A x \in Cookies : cookie'[x].msg = cookie[x].msg
    BY <2>1 DEF FoundSend
  <2>4. \A x \in Cookies : Carries(x)' => Carries(x)
    BY ZenonT(60), <2>1 DEF Carries, FoundSend
  <2> QED  BY <2>2, <2>3, <2>4, SingleFrame
<1>6. ASSUME NEW p \in Procs, NEW i \in Requests, NEW s \in Sources, NEW t \in RecvTags, IrecvPosted(p, i, s, t)
      PROVE  Single'
  <2>1. PICK c \in Cookies : NewRecv(p, s, t, c)
    BY <1>6, RecvNew
  <2>2. \A q \in Procs : posted'[q] = posted[q] \/ posted'[q] = posted[q] + 1
    BY <1>6 DEF IrecvPosted, Posts, TypeInv, TypeOK
  <2>3. \A x \in Cookies : Carries(x)' => Carries(x) /\ x # c
    BY <2>1 DEF Carries, NewRecv
  <2>4. \A x \in Cookies : Carries(x)' => Carries(x) /\ cookie'[x].msg = cookie[x].msg
    BY <2>1, <2>3 DEF NewRecv
  <2> QED  BY <2>2, <2>4, SingleFrame
<1> QED  BY <1>1, <1>2, <1>3, <1>4, <1>5, <1>6, Kinds

LEMMA SingleInvariant == Spec => []Single
<1>1. Init => Single
  BY DEF Init, Single, Carries, ToSet
<1>2. TypeInv /\ OwnInv /\ MoveInv /\ Single /\ [Next]_vars => Single'
  BY SingleStep
<1> QED  BY <1>1, <1>2, TypeInvariant, OwnInvariant, MoveInvariant, PTL DEF Spec

-----------------------------------------------------------------------------
(* The lists of cookies as lists of messages and of receives               *)

SentTo(d)    == [k \in DOMAIN inbox[d] |-> cookie[inbox[d][k]].msg]
AwaitedBy(d) == [k \in DOMAIN outbox[d] |-> cookie[outbox[d][k]].recv]

Sent    == [d \in Procs |-> SentTo(d)]
Awaits  == [d \in Procs |-> AwaitedBy(d)]
Moving  == {Pair(Current(p)) : p \in {q \in Procs : pc[q] = "transfer"}}

LEMMA SentTypes ==
  ASSUME TypeInv, MoveInv, NEW d \in Procs
  PROVE  /\ SentTo(d) \in [DOMAIN inbox[d] -> Messages]
         /\ \A k \in DOMAIN inbox[d] : SentTo(d)[k] = cookie[inbox[d][k]].msg
<1>1. \A k \in DOMAIN inbox[d] : cookie[inbox[d][k]].msg \in Messages
  BY Listed DEF MoveInv, Contents, IsSend
<1> QED  BY <1>1 DEF SentTo

LEMMA AwaitedTypes ==
  ASSUME TypeInv, MoveInv, NEW d \in Procs
  PROVE  /\ AwaitedBy(d) \in [DOMAIN outbox[d] -> Receives]
         /\ \A k \in DOMAIN outbox[d] : AwaitedBy(d)[k] = cookie[outbox[d][k]].recv
<1>1. \A k \in DOMAIN outbox[d] : cookie[outbox[d][k]].recv \in Receives
  BY Listed DEF MoveInv, Contents, IsRecv
<1> QED  BY <1>1 DEF AwaitedBy

\* A list that stays as it is, loses its kth cookie or gets c at its end.
LEMMA SentSame ==
  ASSUME TypeInv, NEW d \in Procs, inbox'[d] = inbox[d],
         \A x \in ToSet(inbox[d]) : cookie'[x].msg = cookie[x].msg
  PROVE  SentTo(d)' = SentTo(d)
<1>1. \A k \in DOMAIN inbox[d] : cookie'[inbox[d][k]].msg = cookie[inbox[d][k]].msg
  BY Listed
<1> QED  BY <1>1 DEF SentTo

LEMMA AwaitedSame ==
  ASSUME TypeInv, NEW d \in Procs, outbox'[d] = outbox[d],
         \A x \in ToSet(outbox[d]) : cookie'[x].recv = cookie[x].recv
  PROVE  AwaitedBy(d)' = AwaitedBy(d)
<1>1. \A k \in DOMAIN outbox[d] : cookie'[outbox[d][k]].recv = cookie[outbox[d][k]].recv
  BY Listed
<1> QED  BY <1>1 DEF AwaitedBy

LEMMA SentTaken ==
  ASSUME TypeInv, MoveInv, NEW d \in Procs, NEW k \in DOMAIN inbox[d],
         inbox'[d] = RemoveAt(inbox[d], k), \A x \in Cookies : cookie'[x].msg = cookie[x].msg
  PROVE  SentTo(d)' = RemoveAt(SentTo(d), k)
<1> DEFINE s == inbox[d]
           g == SentTo(d)
           h == SentTo(d)'
<1>1. /\ s \in Seq(Cookies)
      /\ k \in DOMAIN s /\ \A j \in DOMAIN s : s[j] \in Cookies /\ cookie'[s[j]].msg = cookie[s[j]].msg
  BY Listed
<1>2. /\ g \in [DOMAIN s -> Messages]
      /\ \A j \in DOMAIN s : g[j] = cookie[s[j]].msg
  BY SentTypes
<1>0. inbox'[d] = RemoveAt(s, k)
  OBVIOUS
<1>3. h = [j \in DOMAIN inbox'[d] |-> h[j]]
  BY DEF SentTo
<1>4. \A j \in DOMAIN inbox'[d] : h[j] = cookie'[inbox'[d][j]].msg
  BY DEF SentTo
<1> HIDE DEF s, g, h
<1>5. DOMAIN RemoveAt(s, k) = 1..(Len(s) - 1) /\ \A j \in DOMAIN RemoveAt(s, k) : \E i \in DOMAIN s : RemoveAt(s, k)[j] = s[i]
  BY <1>1, RemoveAtProperties, RemoveAtOrder, LenProperties
<1>6. /\ h \in [DOMAIN RemoveAt(s, k) -> Messages]
      /\ MapsAs(h, RemoveAt(s, k), g, s)
  BY <1>0, <1>1, <1>2, <1>3, <1>4, <1>5 DEF MapsAs
<1>7. h = RemoveAt(g, k)
  <2>1. /\ s \in Seq(Cookies) /\ k \in DOMAIN s /\ g \in [DOMAIN s -> Messages]
        /\ h \in [DOMAIN RemoveAt(s, k) -> Messages] /\ MapsAs(h, RemoveAt(s, k), g, s)
    BY <1>1, <1>2, <1>6
  <2> QED  BY <2>1, MappedRemove
<1> QED  BY <1>7 DEF g, h

LEMMA AwaitedTaken ==
  ASSUME TypeInv, MoveInv, NEW d \in Procs, NEW k \in DOMAIN outbox[d],
         outbox'[d] = RemoveAt(outbox[d], k), \A x \in Cookies : cookie'[x].recv = cookie[x].recv
  PROVE  AwaitedBy(d)' = RemoveAt(AwaitedBy(d), k)
<1> DEFINE s == outbox[d]
           g == AwaitedBy(d)
           h == AwaitedBy(d)'
<1>1. /\ s \in Seq(Cookies)
      /\ k \in DOMAIN s /\ \A j \in DOMAIN s : s[j] \in Cookies /\ cookie'[s[j]].recv = cookie[s[j]].recv
  BY Listed
<1>2. /\ g \in [DOMAIN s -> Receives]
      /\ \A j \in DOMAIN s : g[j] = cookie[s[j]].recv
  BY AwaitedTypes
<1>0. outbox'[d] = RemoveAt(s, k)
  OBVIOUS
<1>3. h = [j \in DOMAIN outbox'[d] |-> h[j]]
  BY DEF AwaitedBy
<1>4. \A j \in DOMAIN outbox'[d] : h[j] = cookie'[outbox'[d][j]].recv
  BY DEF AwaitedBy
<1> HIDE DEF s, g, h
<1>5. DOMAIN RemoveAt(s, k) = 1..(Len(s) - 1) /\ \A j \in DOMAIN RemoveAt(s, k) : \E i \in DOMAIN s : RemoveAt(s, k)[j] = s[i]
  BY <1>1, RemoveAtProperties, RemoveAtOrder, LenProperties
<1>6. /\ h \in [DOMAIN RemoveAt(s, k) -> Receives]
      /\ MapsAs(h, RemoveAt(s, k), g, s)
  BY <1>0, <1>1, <1>2, <1>3, <1>4, <1>5 DEF MapsAs
<1>7. h = RemoveAt(g, k)
  <2>1. /\ s \in Seq(Cookies) /\ k \in DOMAIN s /\ g \in [DOMAIN s -> Receives]
        /\ h \in [DOMAIN RemoveAt(s, k) -> Receives] /\ MapsAs(h, RemoveAt(s, k), g, s)
    BY <1>1, <1>2, <1>6
  <2> QED  BY <2>1, MappedRemove
<1> QED  BY <1>7 DEF g, h

LEMMA SentAdded ==
  ASSUME TypeInv, MoveInv, NEW d \in Procs, NEW c \in Cookies, inbox'[d] = Append(inbox[d], c),
         \A x \in ToSet(inbox[d]) : cookie'[x] = cookie[x], cookie'[c].msg \in Messages
  PROVE  SentTo(d)' = Append(SentTo(d), cookie'[c].msg)
<1> DEFINE s == inbox[d]
           g == SentTo(d)
           h == SentTo(d)'
<1>1. /\ s \in Seq(Cookies)
      /\ \A j \in DOMAIN s : s[j] \in Cookies /\ cookie'[s[j]].msg = cookie[s[j]].msg
  BY Listed
<1>2. /\ g \in [DOMAIN s -> Messages]
      /\ \A j \in DOMAIN s : g[j] = cookie[s[j]].msg
  BY SentTypes
<1>0. inbox'[d] = Append(s, c)
  OBVIOUS
<1>3. h = [j \in DOMAIN inbox'[d] |-> h[j]]
  BY DEF SentTo
<1>4. \A j \in DOMAIN inbox'[d] : h[j] = cookie'[inbox'[d][j]].msg
  BY DEF SentTo
<1> HIDE DEF s, g, h
<1>5. /\ Len(s) \in Nat /\ DOMAIN s = 1..Len(s) /\ DOMAIN Append(s, c) = 1..(Len(s) + 1)
      /\ \A j \in DOMAIN s : Append(s, c)[j] = s[j]
      /\ Append(s, c)[Len(s) + 1] = c
  BY <1>1, AppendProperties, LenProperties
<1>6. (\A j \in DOMAIN s : h[j] = g[j]) /\ h[Len(s) + 1] = cookie'[c].msg
  BY <1>0, <1>1, <1>2, <1>4, <1>5
<1>7. \A j \in DOMAIN Append(s, c) : h[j] \in Messages
  <2> SUFFICES ASSUME NEW j \in DOMAIN Append(s, c) PROVE h[j] \in Messages
    OBVIOUS
  <2>1. j \in DOMAIN s \/ j = Len(s) + 1
    BY <1>5
  <2> QED  BY <1>2, <1>6, <2>1
<1>8. h \in [DOMAIN Append(s, c) -> Messages]
  BY <1>0, <1>3, <1>4, <1>7
<1>9. h = Append(g, h[Len(s) + 1])
  BY <1>1, <1>2, <1>6, <1>8, MappedAppend
<1> QED  BY <1>6, <1>9 DEF g, h

LEMMA AwaitedAdded ==
  ASSUME TypeInv, MoveInv, NEW d \in Procs, NEW c \in Cookies, outbox'[d] = Append(outbox[d], c),
         \A x \in ToSet(outbox[d]) : cookie'[x] = cookie[x], cookie'[c].recv \in Receives
  PROVE  AwaitedBy(d)' = Append(AwaitedBy(d), cookie'[c].recv)
<1> DEFINE s == outbox[d]
           g == AwaitedBy(d)
           h == AwaitedBy(d)'
<1>1. /\ s \in Seq(Cookies)
      /\ \A j \in DOMAIN s : s[j] \in Cookies /\ cookie'[s[j]].recv = cookie[s[j]].recv
  BY Listed
<1>2. /\ g \in [DOMAIN s -> Receives]
      /\ \A j \in DOMAIN s : g[j] = cookie[s[j]].recv
  BY AwaitedTypes
<1>0. outbox'[d] = Append(s, c)
  OBVIOUS
<1>3. h = [j \in DOMAIN outbox'[d] |-> h[j]]
  BY DEF AwaitedBy
<1>4. \A j \in DOMAIN outbox'[d] : h[j] = cookie'[outbox'[d][j]].recv
  BY DEF AwaitedBy
<1> HIDE DEF s, g, h
<1>5. /\ Len(s) \in Nat /\ DOMAIN s = 1..Len(s) /\ DOMAIN Append(s, c) = 1..(Len(s) + 1)
      /\ \A j \in DOMAIN s : Append(s, c)[j] = s[j]
      /\ Append(s, c)[Len(s) + 1] = c
  BY <1>1, AppendProperties, LenProperties
<1>6. (\A j \in DOMAIN s : h[j] = g[j]) /\ h[Len(s) + 1] = cookie'[c].recv
  BY <1>0, <1>1, <1>2, <1>4, <1>5
<1>7. \A j \in DOMAIN Append(s, c) : h[j] \in Receives
  <2> SUFFICES ASSUME NEW j \in DOMAIN Append(s, c) PROVE h[j] \in Receives
    OBVIOUS
  <2>1. j \in DOMAIN s \/ j = Len(s) + 1
    BY <1>5
  <2> QED  BY <1>2, <1>6, <2>1
<1>8. h \in [DOMAIN Append(s, c) -> Receives]
  BY <1>0, <1>3, <1>4, <1>7
<1>9. h = Append(g, h[Len(s) + 1])
  BY <1>1, <1>2, <1>6, <1>8, MappedAppend
<1> QED  BY <1>6, <1>9 DEF g, h

-----------------------------------------------------------------------------
(* The pairs whose data is on its way                                      *)

LEMMA MovingIs ==
  /\ \A x : x \in Moving <=> \E q \in Procs : pc[q] = "transfer" /\ x = Pair(Current(q))
  /\ \A x : x \in Moving' <=> \E q \in Procs : pc'[q] = "transfer" /\ x = Pair(Current(q))'
BY DEF Moving

\* The pair of a mover stays what it is, whatever the others do.
LEMMA MoverKeeps ==
  ASSUME TypeInv, OwnInv, MoveInv, [Next]_vars, NEW q \in Procs, pc[q] = "transfer", Current(q)' = Current(q)
  PROVE  Pair(Current(q))' = Pair(Current(q))
<1>1. PICK c \in Cookies, d \in Procs : c = Current(q) /\ c \in pending[d]
  BY MoverOf
<1>2. cookie'[c].msg = cookie[c].msg /\ cookie'[c].recv = cookie[c].recv
  BY <1>1, PairStable
<1> QED  BY <1>1, <1>2 DEF Pair

\* Nobody starts or ends a transfer.
LEMMA MovingSame ==
  ASSUME TypeInv, OwnInv, MoveInv, [Next]_vars, NEW p \in Procs, pc[p] # "transfer", pc'[p] # "transfer",
         \A q \in Procs \ {p} : pc'[q] = pc[q] /\ Current(q)' = Current(q)
  PROVE  Moving' = Moving
<1>1. \A q \in Procs \ {p} : pc[q] = "transfer" => Pair(Current(q))' = Pair(Current(q))
  BY MoverKeeps
<1>2. \A x : x \in Moving' <=> x \in Moving
  BY <1>1, MovingIs
<1> QED  BY <1>2

\* p has matched cookie c.
LEMMA MovingJoins ==
  ASSUME TypeInv, OwnInv, MoveInv, [Next]_vars, NEW p \in Procs, NEW i \in Requests, NEW c \in Cookies,
         pc[p] = "idle", Joins(p, i, c)
  PROVE  Moving' = Moving \cup {[msg |-> cookie'[c].msg, recv |-> cookie'[c].recv]}
<1>1. /\ \A q \in Procs \ {p} : pc'[q] = pc[q] /\ Current(q)' = Current(q)
      /\ pc'[p] = "transfer" /\ Current(p)' = c
  BY JoinsMovers
<1>2. \A q \in Procs \ {p} : pc[q] = "transfer" => Pair(Current(q))' = Pair(Current(q))
  BY <1>1, MoverKeeps
<1>3. Pair(Current(p))' = [msg |-> cookie'[c].msg, recv |-> cookie'[c].recv]
  BY <1>1 DEF Pair
<1>4. \A x : x \in Moving' <=> x \in Moving \/ x = Pair(Current(p))'
  BY <1>1, <1>2, MovingIs
<1> QED  BY <1>3, <1>4

\* p has moved the data of its pair, which is nobody else's.
LEMMA MovingLeaves ==
  ASSUME TypeInv, OwnInv, MoveInv, Single, NEW p \in Procs, Transfer(p)
  PROVE  Pair(Current(p)) \in Moving /\ Moving' = Moving \ {Pair(Current(p))}
<1>1. /\ pc[p] = "transfer" /\ pc'[p] = "notify" /\ UNCHANGED <<cookie, reqs, slot>>
      /\ \A q \in Procs \ {p} : pc'[q] = pc[q]
  BY DEF Transfer, TypeInv, TypeOK, cookies
<1>2. \A q \in Procs : Pair(Current(q))' = Pair(Current(q))
  BY <1>1 DEF Pair, Current
<1>3. ASSUME NEW q \in Procs \ {p}, pc[q] = "transfer"
      PROVE  Pair(Current(q)) # Pair(Current(p))
  <2>1. PICK c \in Cookies : c = Current(p) /\ Movers(c) = {p} /\ Carries(c)
    BY <1>1, MoverOf DEF Carries
  <2>2. PICK x \in Cookies : x = Current(q) /\ Movers(x) = {q} /\ Carries(x)
    BY <1>3, MoverOf DEF Carries
  <2>3. x # c
    BY <2>1, <2>2
  <2>4. cookie[x].msg # cookie[c].msg
    BY <2>1, <2>2, <2>3 DEF Single
  <2> QED  BY <2>1, <2>2, <2>4 DEF Pair
<1>4. Pair(Current(p)) \in Moving
  BY <1>1, MovingIs
<1>5. \A x : x \in Moving' <=> x \in Moving /\ x # Pair(Current(p))
  BY <1>1, <1>2, <1>3, MovingIs
<1> QED  BY <1>4, <1>5

-----------------------------------------------------------------------------
(* The steps of Rendezvous                                                 *)

\* Positions of the receives that accept message m, and of the messages receive r accepts.
Accepting(m) == {k \in DOMAIN Awaits[m.to] : Promise!Accepts(Awaits[m.to][k], m)}
Accepted(r)  == {k \in DOMAIN Sent[r.at] : Promise!Accepts(r, Sent[r.at][k])}

\* The actions of Rendezvous in these terms.
LEMMA SendIs ==
  ASSUME NEW m
  PROVE  Promise!Send(m) <=>
           /\ m.n = posted[m.from] + 1 /\ posted' = [posted EXCEPT ![m.from] = m.n]
           /\ \/ \E k \in Accepting(m) :
                   /\ IsFirst(k, Accepting(m))
                   /\ Moving' = Moving \cup {[msg |-> m, recv |-> Awaits[m.to][k]]}
                   /\ Awaits' = [Awaits EXCEPT ![m.to] = RemoveAt(@, k)]
                   /\ Sent' = Sent
              \/ /\ Accepting(m) = {}
                 /\ Sent' = [Sent EXCEPT ![m.to] = Append(@, m)]
                 /\ Awaits' = Awaits /\ Moving' = Moving
           /\ outcome' = outcome
BY DEF Promise!Send, Promise!Posts, Promise!Accepting, Promise!IsFirst, Promise!Meets, IsFirst,
       Accepting, Sent, Awaits, Moving, SentTo, AwaitedBy, Promise!RemoveAt, RemoveAt

LEMMA RecvIs ==
  ASSUME NEW r
  PROVE  Promise!Recv(r) <=>
           /\ r.n = posted[r.at] + 1 /\ posted' = [posted EXCEPT ![r.at] = r.n]
           /\ \/ \E k \in Accepted(r) :
                   /\ IsFirst(k, Accepted(r))
                   /\ Moving' = Moving \cup {[msg |-> Sent[r.at][k], recv |-> r]}
                   /\ Sent' = [Sent EXCEPT ![r.at] = RemoveAt(@, k)]
                   /\ Awaits' = Awaits
              \/ /\ Accepted(r) = {}
                 /\ Awaits' = [Awaits EXCEPT ![r.at] = Append(@, r)]
                 /\ Sent' = Sent /\ Moving' = Moving
           /\ outcome' = outcome
BY DEF Promise!Recv, Promise!Posts, Promise!Accepted, Promise!IsFirst, Promise!Meets, IsFirst,
       Accepted, Sent, Awaits, Moving, SentTo, AwaitedBy, Promise!RemoveAt, RemoveAt

LEMMA MoveIs ==
  ASSUME NEW x, NEW err
  PROVE  Promise!Move(x, err) <=>
           /\ x \in Moving /\ Moving' = Moving \ {x}
           /\ outcome' = outcome \cup {[msg |-> x.msg, recv |-> x.recv, err |-> err]}
           /\ Sent' = Sent /\ Awaits' = Awaits /\ posted' = posted
BY DEF Promise!Move, Sent, Awaits, Moving, SentTo, AwaitedBy

LEMMA StutterIs ==
  ASSUME Sent' = Sent, Awaits' = Awaits, Moving' = Moving, outcome' = outcome, posted' = posted
  PROVE  UNCHANGED Promise!vars
BY DEF Promise!vars, Sent, Awaits, Moving, SentTo, AwaitedBy

-----------------------------------------------------------------------------
(* Every step is one of Rendezvous                                         *)

LEMMA ListsAre ==
  ASSUME NEW d \in Procs
  PROVE  Sent[d] = SentTo(d) /\ Awaits[d] = AwaitedBy(d)
BY DEF Sent, Awaits

\* At most the list of process d changes.
LEMMA SentChanges ==
  ASSUME NEW d \in Procs, \A e \in Procs \ {d} : SentTo(e)' = SentTo(e)
  PROVE  Sent' = [Sent EXCEPT ![d] = SentTo(d)']
<1>1. \A e \in Procs : Sent'[e] = SentTo(e)'
  BY DEF Sent
<1> QED  BY <1>1 DEF Sent

LEMMA AwaitsChanges ==
  ASSUME NEW d \in Procs, \A e \in Procs \ {d} : AwaitedBy(e)' = AwaitedBy(e)
  PROVE  Awaits' = [Awaits EXCEPT ![d] = AwaitedBy(d)']
<1>1. \A e \in Procs : Awaits'[e] = AwaitedBy(e)'
  BY DEF Awaits
<1> QED  BY <1>1 DEF Awaits

LEMMA ListsSame ==
  /\ (\A d \in Procs : SentTo(d)' = SentTo(d)) => Sent' = Sent
  /\ (\A d \in Procs : AwaitedBy(d)' = AwaitedBy(d)) => Awaits' = Awaits
BY DEF Sent, Awaits

\* MPI_Issend looks for the receives that accept its message, MPI_Irecv for the messages
\* its receive accepts.
LEMMA AcceptingIs ==
  ASSUME TagsFit, TypeInv, MoveInv, NEW p \in Procs, NEW d \in Procs, NEW t \in Tags,
         NEW m, m.from = p, m.to = d, m.tag = t
  PROVE  Accepting(m) = Awaited(d, p, t)
<1>1. /\ Awaits[d] \in [DOMAIN outbox[d] -> Receives]
      /\ \A k \in DOMAIN outbox[d] : Awaits[d][k] = cookie[outbox[d][k]].recv
  BY AwaitedTypes, ListsAre
<1>2. ASSUME NEW k \in DOMAIN outbox[d]
      PROVE  SendMatch(outbox[d][k], p, t) <=> Promise!Accepts(Awaits[d][k], m)
  <2>1. IsRecv(outbox[d][k], d)
    BY Listed DEF MoveInv, Contents
  <2>2. SendMatch(outbox[d][k], p, t) <=> Promise!Accepts(cookie[outbox[d][k]].recv, m)
    BY <2>1, SendAgrees
  <2> QED  BY <1>1, <2>2
<1>3. DOMAIN Awaits[m.to] = DOMAIN outbox[d] /\ Awaits[m.to] = Awaits[d]
  BY <1>1
<1> QED  BY <1>2, <1>3 DEF Accepting, Awaited

LEMMA AcceptedIs ==
  ASSUME TagsFit, TypeInv, MoveInv, NEW p \in Procs, NEW s \in Sources, NEW t \in RecvTags,
         NEW r, r.at = p, r.src = s, r.tag = t
  PROVE  Accepted(r) = Incoming(p, s, t)
<1>1. /\ Sent[p] \in [DOMAIN inbox[p] -> Messages]
      /\ \A k \in DOMAIN inbox[p] : Sent[p][k] = cookie[inbox[p][k]].msg
  BY SentTypes, ListsAre
<1>2. ASSUME NEW k \in DOMAIN inbox[p]
      PROVE  RecvMatch(inbox[p][k], s, t) <=> Promise!Accepts(r, Sent[p][k])
  <2>1. IsSend(inbox[p][k], p)
    BY Listed DEF MoveInv, Contents
  <2>2. RecvMatch(inbox[p][k], s, t) <=> Promise!Accepts(r, cookie[inbox[p][k]].msg)
    BY <2>1, RecvAgrees
  <2> QED  BY <1>1, <2>2
<1>3. DOMAIN Sent[r.at] = DOMAIN inbox[p] /\ Sent[r.at] = Sent[p]
  BY <1>1
<1> QED  BY <1>2, <1>3 DEF Accepted, Incoming

\* A request a process posts.
LEMMA PostsMessage ==
  ASSUME TypeInv, NEW p \in Procs, NEW d \in Procs, NEW t \in Tags, posted[p] < MaxPosted
  PROVE  \E m \in Messages : m = Message(p, d, t) /\ m.from = p /\ m.to = d /\ m.tag = t /\ m.n = posted[p] + 1
<1>1. Message(p, d, t) \in Messages
  BY RequestTypes DEF TypeInv
<1> QED  BY <1>1 DEF Message

LEMMA PostsReceive ==
  ASSUME TypeInv, NEW p \in Procs, NEW s \in Sources, NEW t \in RecvTags, posted[p] < MaxPosted
  PROVE  \E r \in Receives : r = Receive(p, s, t) /\ r.at = p /\ r.src = s /\ r.tag = t /\ r.n = posted[p] + 1
<1>1. Receive(p, s, t) \in Receives
  BY RequestTypes DEF TypeInv
<1> QED  BY <1>1 DEF Receive

LEMMA SendMeetsPromised ==
  ASSUME TagsFit, TypeInv, OwnInv, MoveInv, [Next]_vars,
         NEW p \in Procs, NEW i \in Requests, NEW d \in Procs, NEW t \in Tags, IssendMatched(p, i, d, t)
  PROVE  \E m \in Messages : Promise!Send(m)
<1>1. PICK k \in DOMAIN outbox[d], c \in Cookies : FoundRecv(p, i, d, t, k, c)
  BY SendMeets
<1>2. /\ pc[p] = "idle" /\ posted[p] < MaxPosted
      /\ posted' = [posted EXCEPT ![p] = @ + 1] /\ UNCHANGED <<inbox, outcome>>
  BY DEF IssendMatched, Posting, Idle, Posts
<1>3. PICK m \in Messages : m = Message(p, d, t) /\ m.from = p /\ m.to = d /\ m.tag = t /\ m.n = posted[p] + 1
  BY <1>2, PostsMessage
<1>4. Accepting(m) = Awaited(d, p, t)
  BY <1>3, AcceptingIs
<1>5. k \in Accepting(m) /\ IsFirst(k, Accepting(m))
  BY <1>1, <1>4 DEF FoundRecv
<1>6. /\ cookie'[c].msg = m /\ cookie'[c].recv = cookie[c].recv /\ c = outbox[d][k]
      /\ \A x \in Cookies \ {c} : cookie'[x] = cookie[x]
      /\ Joins(p, i, c)
  BY <1>1, <1>3 DEF FoundRecv
<1>7. Moving' = Moving \cup {[msg |-> m, recv |-> Awaits[d][k]]}
  <2>1. Awaits[d][k] = cookie'[c].recv
    BY <1>6, AwaitedTypes, ListsAre
  <2> QED  BY <1>2, <1>6, <2>1, MovingJoins
<1>8. Awaits' = [Awaits EXCEPT ![d] = RemoveAt(@, k)]
  <2>1. \A x \in Cookies : cookie'[x].recv = cookie[x].recv
    BY <1>6
  <2>2. outbox'[d] = RemoveAt(outbox[d], k) /\ \A e \in Procs \ {d} : outbox'[e] = outbox[e]
    BY <1>1 DEF FoundRecv, Taken, TypeInv, TypeOK
  <2>3. AwaitedBy(d)' = RemoveAt(AwaitedBy(d), k)
    BY <2>1, <2>2, AwaitedTaken
  <2>4. \A e \in Procs \ {d} : AwaitedBy(e)' = AwaitedBy(e)
    BY <2>1, <2>2, AwaitedSame, ListTypes
  <2>5. Awaits' = [Awaits EXCEPT ![d] = AwaitedBy(d)']
    BY <2>4, AwaitsChanges
  <2> QED  BY <2>3, <2>5, ListsAre
<1>9. Sent' = Sent
  <2>1. \A e \in Procs : c \notin ToSet(inbox[e])
    BY <1>1, Placed DEF FoundRecv
  <2>2. \A e \in Procs : \A x \in ToSet(inbox[e]) : cookie'[x] = cookie[x]
    BY <1>6, <2>1, ListTypes
  <2> QED  BY <1>2, <2>2, SentSame, ListsSame
<1>10. posted' = [posted EXCEPT ![p] = m.n]
  BY <1>2, <1>3
<1> QED  BY <1>2, <1>3, <1>5, <1>7, <1>8, <1>9, <1>10, SendIs

LEMMA SendWaitsPromised ==
  ASSUME TagsFit, TypeInv, OwnInv, MoveInv, [Next]_vars,
         NEW p \in Procs, NEW i \in Requests, NEW d \in Procs, NEW t \in Tags, IssendPosted(p, i, d, t)
  PROVE  \E m \in Messages : Promise!Send(m)
<1>1. PICK c \in Cookies : NewSend(p, d, t, c)
  BY SendNew
<1>2. /\ posted[p] < MaxPosted /\ Awaited(d, p, t) = {}
      /\ posted' = [posted EXCEPT ![p] = @ + 1] /\ UNCHANGED outcome
  BY DEF IssendPosted, Posting, Posts
<1>3. PICK m \in Messages : m = Message(p, d, t) /\ m.from = p /\ m.to = d /\ m.tag = t /\ m.n = posted[p] + 1
  BY <1>2, PostsMessage
<1>4. Accepting(m) = {}
  BY <1>2, <1>3, AcceptingIs
<1>5. /\ \A e \in Procs : \A x \in ToSet(inbox[e]) \cup ToSet(outbox[e]) : cookie'[x] = cookie[x]
      /\ cookie'[c].msg = m /\ UNCHANGED outbox
  BY <1>1, <1>3, ListTypes DEF NewSend
<1>6. Sent' = [Sent EXCEPT ![d] = Append(@, m)]
  <2>1. inbox'[d] = Append(inbox[d], c) /\ \A e \in Procs \ {d} : inbox'[e] = inbox[e]
    BY <1>1 DEF NewSend, Appended, TypeInv, TypeOK
  <2>2. SentTo(d)' = Append(SentTo(d), m)
    BY <1>5, <2>1, SentAdded
  <2>3. \A e \in Procs \ {d} : SentTo(e)' = SentTo(e)
    BY <1>5, <2>1, SentSame
  <2>4. Sent' = [Sent EXCEPT ![d] = SentTo(d)']
    BY <2>3, SentChanges
  <2> QED  BY <2>2, <2>4, ListsAre
<1>7. Awaits' = Awaits
  BY <1>5, AwaitedSame, ListsSame
<1>8. Moving' = Moving
  <2>1. pc[p] = "idle" /\ UNCHANGED pc /\ \A q \in Procs \ {p} : Current(q)' = Current(q)
    BY <1>1 DEF NewSend
  <2> QED  BY <2>1, MovingSame
<1>9. posted' = [posted EXCEPT ![p] = m.n]
  BY <1>2, <1>3
<1> QED  BY <1>2, <1>3, <1>4, <1>6, <1>7, <1>8, <1>9, SendIs

LEMMA RecvMeetsPromised ==
  ASSUME TagsFit, TypeInv, OwnInv, MoveInv, [Next]_vars,
         NEW p \in Procs, NEW i \in Requests, NEW s \in Sources, NEW t \in RecvTags, IrecvMatched(p, i, s, t)
  PROVE  \E r \in Receives : Promise!Recv(r)
<1>1. PICK k \in DOMAIN inbox[p], c \in Cookies : FoundSend(p, i, s, t, k, c)
  BY RecvMeets
<1>2. /\ pc[p] = "idle" /\ posted[p] < MaxPosted
      /\ posted' = [posted EXCEPT ![p] = @ + 1] /\ UNCHANGED <<outbox, outcome>>
  BY DEF IrecvMatched, Posting, Idle, Posts
<1>3. PICK r \in Receives : r = Receive(p, s, t) /\ r.at = p /\ r.src = s /\ r.tag = t /\ r.n = posted[p] + 1
  BY <1>2, PostsReceive
<1>4. Accepted(r) = Incoming(p, s, t)
  BY <1>3, AcceptedIs
<1>5. k \in Accepted(r) /\ IsFirst(k, Accepted(r))
  BY <1>1, <1>4 DEF FoundSend
<1>6. /\ cookie'[c].recv = r /\ cookie'[c].msg = cookie[c].msg /\ c = inbox[p][k]
      /\ \A x \in Cookies \ {c} : cookie'[x] = cookie[x]
      /\ Joins(p, i, c)
  BY <1>1, <1>3 DEF FoundSend
<1>7. Moving' = Moving \cup {[msg |-> Sent[p][k], recv |-> r]}
  <2>1. Sent[p][k] = cookie'[c].msg
    BY <1>6, SentTypes, ListsAre
  <2> QED  BY <1>2, <1>6, <2>1, MovingJoins
<1>8. Sent' = [Sent EXCEPT ![p] = RemoveAt(@, k)]
  <2>1. \A x \in Cookies : cookie'[x].msg = cookie[x].msg
    BY <1>6
  <2>2. inbox'[p] = RemoveAt(inbox[p], k) /\ \A e \in Procs \ {p} : inbox'[e] = inbox[e]
    BY <1>1 DEF FoundSend, Taken, TypeInv, TypeOK
  <2>3. SentTo(p)' = RemoveAt(SentTo(p), k)
    BY <2>1, <2>2, SentTaken
  <2>4. \A e \in Procs \ {p} : SentTo(e)' = SentTo(e)
    BY <2>1, <2>2, SentSame, ListTypes
  <2>5. Sent' = [Sent EXCEPT ![p] = SentTo(p)']
    BY <2>4, SentChanges
  <2> QED  BY <2>3, <2>5, ListsAre
<1>9. Awaits' = Awaits
  <2>1. \A e \in Procs : c \notin ToSet(outbox[e])
    BY <1>1, Placed DEF FoundSend
  <2>2. \A e \in Procs : \A x \in ToSet(outbox[e]) : cookie'[x] = cookie[x]
    BY <1>6, <2>1, ListTypes
  <2> QED  BY <1>2, <2>2, AwaitedSame, ListsSame
<1>10. posted' = [posted EXCEPT ![p] = r.n]
  BY <1>2, <1>3
<1> QED  BY <1>2, <1>3, <1>5, <1>7, <1>8, <1>9, <1>10, RecvIs

LEMMA RecvWaitsPromised ==
  ASSUME TagsFit, TypeInv, OwnInv, MoveInv, [Next]_vars,
         NEW p \in Procs, NEW i \in Requests, NEW s \in Sources, NEW t \in RecvTags, IrecvPosted(p, i, s, t)
  PROVE  \E r \in Receives : Promise!Recv(r)
<1>1. PICK c \in Cookies : NewRecv(p, s, t, c)
  BY RecvNew
<1>2. /\ posted[p] < MaxPosted /\ Incoming(p, s, t) = {}
      /\ posted' = [posted EXCEPT ![p] = @ + 1] /\ UNCHANGED outcome
  BY DEF IrecvPosted, Posting, Posts
<1>3. PICK r \in Receives : r = Receive(p, s, t) /\ r.at = p /\ r.src = s /\ r.tag = t /\ r.n = posted[p] + 1
  BY <1>2, PostsReceive
<1>4. Accepted(r) = {}
  BY <1>2, <1>3, AcceptedIs
<1>5. /\ \A e \in Procs : \A x \in ToSet(inbox[e]) \cup ToSet(outbox[e]) : cookie'[x] = cookie[x]
      /\ cookie'[c].recv = r /\ UNCHANGED inbox
  BY <1>1, <1>3, ListTypes DEF NewRecv
<1>6. Awaits' = [Awaits EXCEPT ![p] = Append(@, r)]
  <2>1. outbox'[p] = Append(outbox[p], c) /\ \A e \in Procs \ {p} : outbox'[e] = outbox[e]
    BY <1>1 DEF NewRecv, Appended, TypeInv, TypeOK
  <2>2. AwaitedBy(p)' = Append(AwaitedBy(p), r)
    BY <1>5, <2>1, AwaitedAdded
  <2>3. \A e \in Procs \ {p} : AwaitedBy(e)' = AwaitedBy(e)
    BY <1>5, <2>1, AwaitedSame
  <2>4. Awaits' = [Awaits EXCEPT ![p] = AwaitedBy(p)']
    BY <2>3, AwaitsChanges
  <2> QED  BY <2>2, <2>4, ListsAre
<1>7. Sent' = Sent
  BY <1>5, SentSame, ListsSame
<1>8. Moving' = Moving
  <2>1. pc[p] = "idle" /\ UNCHANGED pc /\ \A q \in Procs \ {p} : Current(q)' = Current(q)
    BY <1>1 DEF NewRecv
  <2> QED  BY <2>1, MovingSame
<1>9. posted' = [posted EXCEPT ![p] = r.n]
  BY <1>2, <1>3
<1> QED  BY <1>2, <1>3, <1>4, <1>6, <1>7, <1>8, <1>9, RecvIs

LEMMA TransferPromised ==
  ASSUME TypeInv, OwnInv, MoveInv, Single, NEW p \in Procs, Transfer(p)
  PROVE  \E x \in Moving, err \in {0, 1} : Promise!Move(x, err)
<1>1. PICK err \in {0, 1} :
        outcome' = outcome \cup {[msg |-> cookie[Current(p)].msg, recv |-> cookie[Current(p)].recv, err |-> err]}
  BY DEF Transfer, MPI_SUCCESS, MPI_FAIL
<1>2. PICK x \in Moving : x = Pair(Current(p)) /\ Moving' = Moving \ {x}
  BY MovingLeaves
<1>3. outcome' = outcome \cup {[msg |-> x.msg, recv |-> x.recv, err |-> err]}
  BY <1>1, <1>2 DEF Pair
<1>4. UNCHANGED <<inbox, outbox, cookie, posted>>
  BY DEF Transfer, boxes, cookies
<1>5. Sent' = Sent /\ Awaits' = Awaits
  BY <1>4, SentSame, AwaitedSame, ListsSame
<1> QED  BY <1>2, <1>3, <1>4, <1>5, MoveIs

LEMMA StepPromised ==
  ASSUME TagsFit, TypeInv, OwnInv, MoveInv, Single, [Next]_vars
  PROVE  [Promise!Next]_Promise!vars
<1>1. CASE UNCHANGED vars
  <2>1. UNCHANGED <<inbox, outbox, cookie, pc, reqs, slot, outcome, posted>>
    BY <1>1 DEF vars, boxes, cookies, calls, history
  <2>2. Sent' = Sent /\ Awaits' = Awaits
    BY <2>1, SentSame, AwaitedSame, ListsSame
  <2>3. Moving' = Moving
    BY <2>1 DEF Moving, Pair, Current
  <2> QED  BY <2>1, <2>2, <2>3, StutterIs
<1>2. ASSUME NEW p \in Procs, NotifyDone(p) \/ Leave(p) \/ Waits(p)
      PROVE  UNCHANGED Promise!vars
  <2>1. /\ UNCHANGED <<inbox, outbox, posted>>
        /\ \A d \in Procs : \A c \in ToSet(inbox[d]) \cup ToSet(outbox[d]) : cookie'[c] = cookie[c]
    BY <1>2, Quiet
  <2>2. Sent' = Sent /\ Awaits' = Awaits
    BY <2>1, SentSame, AwaitedSame, ListsSame
  <2>3. UNCHANGED outcome
    BY <1>2 DEF NotifyDone, Leave, Waits, history
  <2>4. /\ pc[p] # "transfer" /\ pc'[p] # "transfer"
        /\ \A q \in Procs \ {p} : pc'[q] = pc[q] /\ Current(q)' = Current(q)
    <3>1. CASE NotifyDone(p) \/ Leave(p)
      <4>1. /\ pc[p] \in {"notify", "leave"} /\ Returns(p)
            /\ \A q \in Procs \ {p} : reqs'[q] = reqs[q]
        BY <3>1 DEF NotifyDone, Leave, Holds, TypeInv, TypeOK
      <4> QED  BY <4>1, ReturnsMovers
    <3>2. CASE Waits(p)
      <4>1. /\ {pc[p], pc'[p]} \cap {"transfer", "notify"} = {}
            /\ \A q \in Procs \ {p} : pc'[q] = pc[q] /\ slot'[q] = slot[q] /\ reqs'[q] = reqs[q]
        BY <3>2 DEF Waits
      <4> QED  BY <4>1, MoversFrame
    <3> QED  BY <1>2, <3>1, <3>2
  <2>5. Moving' = Moving
    BY <2>4, MovingSame
  <2> QED  BY <2>1, <2>2, <2>3, <2>5, StutterIs
<1>3. ASSUME NEW m \in Messages, Promise!Send(m)  PROVE Promise!Next
  BY <1>3 DEF Promise!Next, Promise!Messages, Messages
<1>4. ASSUME NEW r \in Receives, Promise!Recv(r)  PROVE Promise!Next
  BY <1>4 DEF Promise!Next, Promise!Receives, Promise!Sources, Promise!RecvTags, Receives, Sources, RecvTags
<1>5. ASSUME NEW x \in Moving, NEW err \in {0, 1}, Promise!Move(x, err)  PROVE Promise!Next
  BY <1>5 DEF Promise!Next, Moving
<1> QED  BY <1>1, <1>2, <1>3, <1>4, <1>5, Kinds, SendMeetsPromised, SendWaitsPromised,
            RecvMeetsPromised, RecvWaitsPromised, TransferPromised

LEMMA InitPromised == Init => Promise!Init
<1> SUFFICES ASSUME Init PROVE Promise!Init
  OBVIOUS
<1>1. Sent = [p \in Procs |-> <<>>] /\ Awaits = [p \in Procs |-> <<>>]
  BY DEF Init, Sent, Awaits, SentTo, AwaitedBy
<1>2. Moving = {} /\ outcome = {} /\ posted = [p \in Procs |-> 0]
  BY DEF Init, Moving
<1> QED  BY <1>1, <1>2 DEF Promise!Init, Sent, Awaits, Moving, SentTo, AwaitedBy

\* What the processes do with cookies, four lists of them, references and wakeups is what
\* Rendezvous says: MPI_Issend and MPI_Irecv meet the first request that matches, and the
\* data of a pair is moved once, whoever created its cookie and whoever finds it.
THEOREM PromiseImplemented ==
  ASSUME TagsFit
  PROVE  Spec => ImplementsPromise
<1>1. TypeInv /\ OwnInv /\ MoveInv /\ Single /\ [Next]_vars => [Promise!Next]_Promise!vars
  BY StepPromised
<1> QED  BY <1>1, InitPromised, TypeInvariant, OwnInvariant, MoveInvariant, SingleInvariant, PTL
         DEF Spec, ImplementsPromise, Promise!Spec

-----------------------------------------------------------------------------
(* What was proved of Rendezvous                                           *)

Kept == INSTANCE RendezvousProofs WITH
  sent    <- [d \in Procs |-> [k \in DOMAIN inbox[d] |-> cookie[inbox[d][k]].msg]],
  awaited <- [d \in Procs |-> [k \in DOMAIN outbox[d] |-> cookie[outbox[d][k]].recv]],
  moving  <- {Pair(Current(p)) : p \in {q \in Procs : pc[q] = "transfer"}},
  done    <- outcome

\* Kept and Promise are Rendezvous with the same values of its variables.
LEMMA SameSpec == Promise!Spec => Kept!Spec
<1>1. Promise!Init => Kept!Init
  BY DEF Promise!Init, Kept!Init
<1>2. [Promise!Next]_Promise!vars => [Kept!Next]_Kept!vars
  BY DEF Promise!Next, Promise!vars, Promise!Send, Promise!Recv, Promise!Move, Promise!Posts, Promise!Accepting,
         Promise!Accepted, Promise!IsFirst, Promise!Meets, Promise!Accepts, Promise!RemoveAt,
         Promise!Messages, Promise!Receives, Promise!Sources, Promise!RecvTags,
         Kept!Next, Kept!vars, Kept!Send, Kept!Recv, Kept!Move, Kept!Posts, Kept!Accepting,
         Kept!Accepted, Kept!IsFirst, Kept!Meets, Kept!Accepts, Kept!RemoveAt,
         Kept!Messages, Kept!Receives, Kept!Sources, Kept!RecvTags
<1> QED  BY <1>1, <1>2, PTL DEF Promise!Spec, Kept!Spec

LEMMA SameProperties ==
  /\ Kept!MessagesInOrder => Promise!MessagesInOrder
  /\ Kept!ReceivesInOrder => Promise!ReceivesInOrder
  /\ Kept!MetOnce => Promise!MetOnce
BY DEF Kept!MessagesInOrder, Promise!MessagesInOrder, Kept!ReceivesInOrder, Promise!ReceivesInOrder,
       Kept!MetOnce, Promise!MetOnce, Kept!Met, Promise!Met, Kept!Accepts, Promise!Accepts

\* The messages of a process to another, and the receives of a process, do not overtake
\* each other where both match (the loops over inbox and outbox in MPI_Irecv and MPI_Issend).
THEOREM InOrderCorrect ==
  ASSUME TagsFit
  PROVE  Spec => []InOrder
<1>1. MaxPosted \in Nat
  BY BoundsAssumption
<1>2. Kept!Spec => [](Kept!MessagesInOrder /\ Kept!ReceivesInOrder /\ Kept!MetOnce)
  BY <1>1, Kept!OrderKept
<1>3. Spec => Promise!Spec
  BY PromiseImplemented DEF ImplementsPromise
<1> QED  BY <1>2, <1>3, SameSpec, SameProperties, PTL DEF InOrder

\* MPI_Issend and MPI_Irecv of different processes never serve one message, or one receive,
\* twice: a cookie leaves inbox or outbox with the match that is made of it.
THEOREM MetOnceCorrect ==
  ASSUME TagsFit
  PROVE  Spec => []MetOnce
<1>1. MaxPosted \in Nat
  BY BoundsAssumption
<1>2. Kept!Spec => [](Kept!MessagesInOrder /\ Kept!ReceivesInOrder /\ Kept!MetOnce)
  BY <1>1, Kept!OrderKept
<1>3. Spec => Promise!Spec
  BY PromiseImplemented DEF ImplementsPromise
<1> QED  BY <1>2, <1>3, SameSpec, SameProperties, PTL DEF MetOnce

=============================================================================
