----------------------------- MODULE Rendezvous -----------------------------
(***************************************************************************)
(* What point-to-point communication promises, without cookies, lists of   *)
(* the shared memory or references: every message meets the first posted   *)
(* receive that accepts it, every receive the first waiting message it     *)
(* accepts, and the data of each pair is moved once.                       *)
(***************************************************************************)
EXTENDS Integers, SequencesExt

CONSTANTS Procs, Tags, MaxPosted, AnySource, AnyTag

VARIABLES
  sent,     \* process -> the messages to it that no receive has met, in order
  awaited,  \* process -> the receives it posted that no message has met, in order
  moving,   \* the pairs that have met and whose data is on its way
  done,     \* the pairs whose data has been moved, and the error of that
  posted    \* process -> number of messages and receives it has posted

vars == <<sent, awaited, moving, done, posted>>

Sources  == Procs \cup {AnySource}
RecvTags == Tags \cup {AnyTag}

\* The nth request of a process is a message or a receive.
Messages == [from: Procs, to: Procs, tag: Tags, n: 1..MaxPosted]
Receives == [at: Procs, src: Sources, tag: RecvTags, n: 1..MaxPosted]

\* Receive r accepts message m.
Accepts(r, m) == r.src \in {m.from, AnySource} /\ r.tag \in {m.tag, AnyTag}

Init ==
  /\ sent    = [p \in Procs |-> <<>>]
  /\ awaited = [p \in Procs |-> <<>>]
  /\ moving  = {}
  /\ done    = {}
  /\ posted  = [p \in Procs |-> 0]

Accepting(m)  == {k \in DOMAIN awaited[m.to] : Accepts(awaited[m.to][k], m)}
Accepted(r)   == {k \in DOMAIN sent[r.at] : Accepts(r, sent[r.at][k])}
IsFirst(k, S) == k \in S /\ \A j \in S : k <= j
Meets(m, r)   == moving' = moving \cup {[msg |-> m, recv |-> r]}

\* p posts its next request.
Posts(p, n) == n = posted[p] + 1 /\ posted' = [posted EXCEPT ![p] = n]

Send(m) ==
  /\ Posts(m.from, m.n)
  /\ \/ \E k \in Accepting(m) :
          /\ IsFirst(k, Accepting(m))
          /\ Meets(m, awaited[m.to][k])
          /\ awaited' = [awaited EXCEPT ![m.to] = RemoveAt(@, k)]
          /\ UNCHANGED sent
     \/ /\ Accepting(m) = {}
        /\ sent' = [sent EXCEPT ![m.to] = Append(@, m)]
        /\ UNCHANGED <<awaited, moving>>
  /\ UNCHANGED done

Recv(r) ==
  /\ Posts(r.at, r.n)
  /\ \/ \E k \in Accepted(r) :
          /\ IsFirst(k, Accepted(r))
          /\ Meets(sent[r.at][k], r)
          /\ sent' = [sent EXCEPT ![r.at] = RemoveAt(@, k)]
          /\ UNCHANGED awaited
     \/ /\ Accepted(r) = {}
        /\ awaited' = [awaited EXCEPT ![r.at] = Append(@, r)]
        /\ UNCHANGED <<sent, moving>>
  /\ UNCHANGED done

Move(x, err) ==
  /\ x \in moving
  /\ moving' = moving \ {x}
  /\ done'   = done \cup {[msg |-> x.msg, recv |-> x.recv, err |-> err]}
  /\ UNCHANGED <<sent, awaited, posted>>

Next ==
  \/ \E m \in Messages : Send(m)
  \/ \E r \in Receives : Recv(r)
  \/ \E x \in moving, err \in {0, 1} : Move(x, err)

Spec == Init /\ [][Next]_vars

-----------------------------------------------------------------------------
Met == moving \cup {[msg |-> x.msg, recv |-> x.recv] : x \in done}

\* Messages do not overtake each other: a message that met a receive was, of
\* those of its sender to that process, the first one the receive accepts.
MessagesInOrder ==
  \A x \in Met : \A k \in DOMAIN sent[x.msg.to] :
    LET m == sent[x.msg.to][k] IN
    m.from = x.msg.from /\ m.n < x.msg.n => ~ Accepts(x.recv, m)

\* Nor do receives: a receive that met a message was the first of its process
\* that accepts it.
ReceivesInOrder ==
  \A x \in Met : \A k \in DOMAIN awaited[x.recv.at] :
    LET r == awaited[x.recv.at][k] IN
    r.n < x.recv.n => ~ Accepts(r, x.msg)

\* A message meets one receive and a receive one message.
MetOnce ==
  \A x, y \in Met : x.msg = y.msg <=> x.recv = y.recv

=============================================================================
