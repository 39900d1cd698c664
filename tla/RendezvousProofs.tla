-------------------------- MODULE RendezvousProofs --------------------------
(***************************************************************************)
(* Proofs about Rendezvous: the abstract specification does keep messages  *)
(* and receives in order, and lets each of them meet once.                 *)
(***************************************************************************)
EXTENDS Rendezvous, SequenceLemmas

Pairs    == [msg: Messages, recv: Receives]
Outcomes == [msg: Messages, recv: Receives, err: {0, 1}]

TypeInv ==
  /\ sent \in [Procs -> Seq(Messages)] /\ awaited \in [Procs -> Seq(Receives)]
  /\ moving \subseteq Pairs /\ done \subseteq Outcomes /\ posted \in [Procs -> Nat]

\* A message waits at the process it is for, and a receive where it was posted.
Addressed ==
  /\ \A p \in Procs : /\ \A m \in ToSet(sent[p]) : m.to = p
                      /\ \A r \in ToSet(awaited[p]) : r.at = p
  /\ \A x \in Met : x.recv.at = x.msg.to

\* Nothing has a number that its process has yet to give.
Numbered ==
  /\ \A p \in Procs : /\ \A m \in ToSet(sent[p]) : m.n <= posted[m.from]
                      /\ \A r \in ToSet(awaited[p]) : r.n <= posted[r.at]
  /\ \A x \in Met : x.msg.n <= posted[x.msg.from] /\ x.recv.n <= posted[x.recv.at]

\* What waits stands in the order in which it was posted.
Queued ==
  \A p \in Procs :
    /\ \A i, j \in DOMAIN sent[p] :
         i < j /\ sent[p][i].from = sent[p][j].from => sent[p][i].n < sent[p][j].n
    /\ \A i, j \in DOMAIN awaited[p] : i < j => awaited[p][i].n < awaited[p][j].n

\* What has met no longer waits.
Apart ==
  \A x \in Met, p \in Procs : x.msg \notin ToSet(sent[p]) /\ x.recv \notin ToSet(awaited[p])

\* Whatever waits beside each other does not match.
NoneMissed ==
  \A p \in Procs : \A m \in ToSet(sent[p]), r \in ToSet(awaited[p]) : ~ Accepts(r, m)

FirstMessage ==
  \A x \in Met : \A m \in ToSet(sent[x.msg.to]) :
    m.from = x.msg.from /\ m.n < x.msg.n => ~ Accepts(x.recv, m)

FirstReceive ==
  \A x \in Met : \A r \in ToSet(awaited[x.recv.at]) : r.n < x.recv.n => ~ Accepts(r, x.msg)

OrderInv ==
  /\ TypeInv /\ Addressed /\ Numbered /\ Queued /\ Apart
  /\ NoneMissed /\ FirstMessage /\ FirstReceive /\ MetOnce

-----------------------------------------------------------------------------
LEMMA Fields ==
  ASSUME MaxPosted \in Nat
  PROVE  /\ \A m \in Messages : m.from \in Procs /\ m.to \in Procs /\ m.n \in Nat
         /\ \A r \in Receives : r.at \in Procs /\ r.n \in Nat
BY DEF Messages, Receives

LEMMA Waiting ==
  ASSUME TypeInv, NEW p \in Procs
  PROVE  /\ sent[p] \in Seq(Messages) /\ ToSet(sent[p]) \subseteq Messages
         /\ awaited[p] \in Seq(Receives) /\ ToSet(awaited[p]) \subseteq Receives
         /\ \A k \in DOMAIN sent[p] : sent[p][k] \in ToSet(sent[p])
         /\ \A k \in DOMAIN awaited[p] : awaited[p][k] \in ToSet(awaited[p])
BY MembersAre DEF TypeInv, ToSet

LEMMA MetType ==
  ASSUME TypeInv, NEW x \in Met
  PROVE  x \in Pairs /\ x.msg \in Messages /\ x.recv \in Receives
BY DEF TypeInv, Met, Pairs, Outcomes

LEMMA OrderInit == Init => OrderInv
<1> SUFFICES ASSUME Init PROVE OrderInv
  OBVIOUS
<1>1. Met = {}
  BY DEF Init, Met
<1>2. \A p \in Procs : /\ sent[p] = <<>> /\ awaited[p] = <<>>
                       /\ ToSet(sent[p]) = {} /\ ToSet(awaited[p]) = {}
                       /\ DOMAIN sent[p] = {} /\ DOMAIN awaited[p] = {}
  BY DEF Init, ToSet
<1>3. TypeInv
  BY EmptySeq DEF Init, TypeInv
<1>4. Addressed /\ Numbered /\ Apart /\ NoneMissed /\ FirstMessage /\ FirstReceive /\ MetOnce
  BY <1>1, <1>2 DEF Addressed, Numbered, Apart, NoneMissed, FirstMessage, FirstReceive, MetOnce
<1>5. Queued
  BY <1>2 DEF Queued
<1> QED  BY <1>3, <1>4, <1>5 DEF OrderInv

\* A number not given yet is new: no message and no receive has it.
LEMMA Fresh ==
  ASSUME MaxPosted \in Nat, OrderInv
  PROVE  /\ \A m \in Messages : m.n = posted[m.from] + 1 =>
              /\ \A p \in Procs : m \notin ToSet(sent[p])
              /\ \A x \in Met : x.msg # m
         /\ \A r \in Receives : r.n = posted[r.at] + 1 =>
              /\ \A p \in Procs : r \notin ToSet(awaited[p])
              /\ \A x \in Met : x.recv # r
<1>1. \A p \in Procs : posted[p] \in Nat
  BY DEF OrderInv, TypeInv
<1>2. ASSUME NEW m \in Messages, m.n = posted[m.from] + 1
      PROVE  /\ \A p \in Procs : m \notin ToSet(sent[p])
             /\ \A x \in Met : x.msg # m
  <2>1. ~ (m.n <= posted[m.from])
    BY <1>1, <1>2, Fields
  <2> QED  BY <2>1 DEF OrderInv, Numbered
<1>3. ASSUME NEW r \in Receives, r.n = posted[r.at] + 1
      PROVE  /\ \A p \in Procs : r \notin ToSet(awaited[p])
             /\ \A x \in Met : x.recv # r
  <2>1. ~ (r.n <= posted[r.at])
    BY <1>1, <1>3, Fields
  <2> QED  BY <2>1 DEF OrderInv, Numbered
<1> QED  BY <1>2, <1>3

\* What posting does to the numbers.
LEMMA PostsNumber ==
  ASSUME OrderInv, NEW p \in Procs, NEW n, Posts(p, n)
  PROVE  /\ posted' \in [Procs -> Nat] /\ n = posted[p] + 1 /\ posted'[p] = n
         /\ \A q \in Procs : posted[q] \in Nat /\ posted'[q] \in Nat /\ posted[q] <= posted'[q]
BY DEF OrderInv, TypeInv, Posts

\* Numbers given stay given.
LEMMA NumbersGrow ==
  ASSUME MaxPosted \in Nat, OrderInv,
         \A q \in Procs : posted[q] \in Nat /\ posted'[q] \in Nat /\ posted[q] <= posted'[q]
  PROVE  /\ \A p \in Procs : /\ \A x \in ToSet(sent[p]) : x.n <= posted'[x.from]
                             /\ \A x \in ToSet(awaited[p]) : x.n <= posted'[x.at]
         /\ \A x \in Met : x.msg.n <= posted'[x.msg.from] /\ x.recv.n <= posted'[x.recv.at]
<1>1. ASSUME NEW p \in Procs, NEW x \in ToSet(sent[p])  PROVE x.n <= posted'[x.from]
  <2>1. x \in Messages /\ x.n <= posted[x.from]
    BY Waiting DEF OrderInv, Numbered
  <2> QED  BY <2>1, Fields
<1>2. ASSUME NEW p \in Procs, NEW x \in ToSet(awaited[p])  PROVE x.n <= posted'[x.at]
  <2>1. x \in Receives /\ x.n <= posted[x.at]
    BY Waiting DEF OrderInv, Numbered
  <2> QED  BY <2>1, Fields
<1>3. ASSUME NEW x \in Met  PROVE x.msg.n <= posted'[x.msg.from] /\ x.recv.n <= posted'[x.recv.at]
  <2>1. /\ x.msg \in Messages /\ x.msg.n <= posted[x.msg.from]
        /\ x.recv \in Receives /\ x.recv.n <= posted[x.recv.at]
    BY MetType DEF OrderInv, Numbered
  <2> QED  BY <2>1, Fields
<1> QED  BY <1>1, <1>2, <1>3

\* The receive that a message has met is gone from the list, and nothing else.
LEMMA ReceiveTaken ==
  ASSUME MaxPosted \in Nat, OrderInv, NEW d \in Procs, NEW k \in DOMAIN awaited[d],
         awaited' = [awaited EXCEPT ![d] = RemoveAt(@, k)]
  PROVE  /\ awaited' \in [Procs -> Seq(Receives)]
         /\ \A p \in Procs : /\ ToSet(awaited'[p]) \subseteq ToSet(awaited[p])
                             /\ awaited[d][k] \notin ToSet(awaited'[p])
         /\ \A p \in Procs : \A i, j \in DOMAIN awaited'[p] : i < j => awaited'[p][i].n < awaited'[p][j].n
<1> DEFINE s == awaited[d]
<1>1. s \in Seq(Receives) /\ s[k] \in ToSet(s) /\ RemoveAt(s, k) \in Seq(Receives) /\ DOMAIN s \subseteq Nat
  BY Waiting, RemoveAtProperties, LenProperties DEF OrderInv
<1>2. /\ awaited'[d] = RemoveAt(s, k) /\ \A p \in Procs \ {d} : awaited'[p] = awaited[p]
      /\ awaited' \in [Procs -> Seq(Receives)]
  BY <1>1 DEF OrderInv, TypeInv
<1>3. /\ \A i \in DOMAIN s : s[i] \in Receives /\ s[i] \in ToSet(s)
      /\ \A i, j \in DOMAIN s : i < j => s[i].n < s[j].n
  BY Waiting DEF OrderInv, Queued
<1> HIDE DEF s
<1>4. \A i \in DOMAIN s : i # k => s[i] # s[k]
  <2> SUFFICES ASSUME NEW i \in DOMAIN s, i # k, s[i] = s[k] PROVE FALSE
    OBVIOUS
  <2>1. i < k \/ k < i
    BY <1>1 DEF s
  <2>2. s[i].n < s[k].n \/ s[k].n < s[i].n
    BY <1>3, <2>1 DEF s
  <2> QED  BY <1>3, <2>2, Fields DEF s
<1>5. /\ \A i \in DOMAIN awaited'[d] : \E i0 \in DOMAIN s : i0 # k /\ awaited'[d][i] = s[i0]
      /\ \A i, j \in DOMAIN awaited'[d] : i < j =>
           \E i0, j0 \in DOMAIN s : i0 < j0 /\ awaited'[d][i] = s[i0] /\ awaited'[d][j] = s[j0]
  BY <1>1, <1>2, RemoveAtOrder DEF s
<1>6. ToSet(awaited'[d]) \subseteq ToSet(s) /\ s[k] \notin ToSet(awaited'[d])
  BY <1>4, <1>5 DEF ToSet
<1>7. \A i, j \in DOMAIN awaited'[d] : i < j => awaited'[d][i].n < awaited'[d][j].n
  BY <1>3, <1>5
<1>8. \A p \in Procs \ {d} : s[k] \notin ToSet(awaited[p])
  <2>1. \A p \in Procs : \A x \in ToSet(awaited[p]) : x.at = p
    BY DEF OrderInv, Addressed
  <2>2. s[k].at = d
    BY <1>1, <2>1 DEF s
  <2> QED  BY <2>1, <2>2
<1> QED  BY <1>2, <1>6, <1>7, <1>8 DEF OrderInv, Queued, s

\* The same of a message.
LEMMA MessageTaken ==
  ASSUME MaxPosted \in Nat, OrderInv, NEW d \in Procs, NEW k \in DOMAIN sent[d],
         sent' = [sent EXCEPT ![d] = RemoveAt(@, k)]
  PROVE  /\ sent' \in [Procs -> Seq(Messages)]
         /\ \A p \in Procs : /\ ToSet(sent'[p]) \subseteq ToSet(sent[p])
                             /\ sent[d][k] \notin ToSet(sent'[p])
         /\ \A p \in Procs : \A i, j \in DOMAIN sent'[p] :
              i < j /\ sent'[p][i].from = sent'[p][j].from => sent'[p][i].n < sent'[p][j].n
<1> DEFINE s == sent[d]
<1>1. s \in Seq(Messages) /\ s[k] \in ToSet(s) /\ RemoveAt(s, k) \in Seq(Messages) /\ DOMAIN s \subseteq Nat
  BY Waiting, RemoveAtProperties, LenProperties DEF OrderInv
<1>2. /\ sent'[d] = RemoveAt(s, k) /\ \A p \in Procs \ {d} : sent'[p] = sent[p]
      /\ sent' \in [Procs -> Seq(Messages)]
  BY <1>1 DEF OrderInv, TypeInv
<1>3. /\ \A i \in DOMAIN s : s[i] \in Messages /\ s[i] \in ToSet(s)
      /\ \A i, j \in DOMAIN s : i < j /\ s[i].from = s[j].from => s[i].n < s[j].n
  BY Waiting DEF OrderInv, Queued
<1> HIDE DEF s
<1>4. \A i \in DOMAIN s : i # k => s[i] # s[k]
  <2> SUFFICES ASSUME NEW i \in DOMAIN s, i # k, s[i] = s[k] PROVE FALSE
    OBVIOUS
  <2>1. i < k \/ k < i
    BY <1>1 DEF s
  <2>2. s[i].n < s[k].n \/ s[k].n < s[i].n
    BY <1>3, <2>1 DEF s
  <2> QED  BY <1>3, <2>2, Fields DEF s
<1>5. /\ \A i \in DOMAIN sent'[d] : \E i0 \in DOMAIN s : i0 # k /\ sent'[d][i] = s[i0]
      /\ \A i, j \in DOMAIN sent'[d] : i < j =>
           \E i0, j0 \in DOMAIN s : i0 < j0 /\ sent'[d][i] = s[i0] /\ sent'[d][j] = s[j0]
  BY <1>1, <1>2, RemoveAtOrder DEF s
<1>6. ToSet(sent'[d]) \subseteq ToSet(s) /\ s[k] \notin ToSet(sent'[d])
  BY <1>4, <1>5 DEF ToSet
<1>7. \A i, j \in DOMAIN sent'[d] :
        i < j /\ sent'[d][i].from = sent'[d][j].from => sent'[d][i].n < sent'[d][j].n
  BY <1>3, <1>5
<1>8. \A p \in Procs \ {d} : s[k] \notin ToSet(sent[p])
  <2>1. \A p \in Procs : \A x \in ToSet(sent[p]) : x.to = p
    BY DEF OrderInv, Addressed
  <2>2. s[k].to = d
    BY <1>1, <2>1 DEF s
  <2> QED  BY <2>1, <2>2
<1> QED  BY <1>2, <1>6, <1>7, <1>8 DEF OrderInv, Queued, s

\* A message meets the first receive that accepts it.
LEMMA SendMeetsStep ==
  ASSUME MaxPosted \in Nat, OrderInv, NEW m \in Messages, Posts(m.from, m.n),
         NEW k \in Accepting(m), IsFirst(k, Accepting(m)), Meets(m, awaited[m.to][k]),
         awaited' = [awaited EXCEPT ![m.to] = RemoveAt(@, k)], UNCHANGED <<sent, done>>
  PROVE  OrderInv'
<1> DEFINE d == m.to
<1>0. d \in Procs /\ m.from \in Procs /\ m.n \in Nat /\ k \in DOMAIN awaited[d]
  BY Fields DEF Accepting
<1>1. PICK r \in Receives : /\ r = awaited[d][k] /\ r \in ToSet(awaited[d]) /\ r.at = d
                            /\ Accepts(r, m) /\ r.n \in Nat
  BY <1>0, Waiting, Fields DEF OrderInv, Addressed, Accepting
<1>2. Met' = Met \cup {[msg |-> m, recv |-> r]}
  BY <1>1 DEF Met, Meets
<1>3. /\ awaited' \in [Procs -> Seq(Receives)]
      /\ \A p \in Procs : ToSet(awaited'[p]) \subseteq ToSet(awaited[p]) /\ r \notin ToSet(awaited'[p])
      /\ \A p \in Procs : \A i, j \in DOMAIN awaited'[p] : i < j => awaited'[p][i].n < awaited'[p][j].n
  BY <1>0, <1>1, ReceiveTaken
<1>4. /\ m.n = posted[m.from] + 1 /\ posted'[m.from] = m.n /\ posted' \in [Procs -> Nat]
      /\ \A q \in Procs : posted[q] \in Nat /\ posted'[q] \in Nat /\ posted[q] <= posted'[q]
  BY <1>0, PostsNumber
<1>5. (\A p \in Procs : m \notin ToSet(sent[p])) /\ \A x \in Met : x.msg # m
  BY <1>4, Fresh
<1>6. \A x \in Met : x.recv # r
  BY <1>0, <1>1 DEF OrderInv, Apart
<1>7. TypeInv'
  <2>1. moving' \subseteq Pairs
    BY <1>1 DEF OrderInv, TypeInv, Meets, Pairs
  <2> QED  BY <1>3, <1>4, <2>1 DEF OrderInv, TypeInv
<1>8. Addressed'
  BY <1>1, <1>2, <1>3 DEF OrderInv, Addressed
<1>9. Numbered'
  <2>1. /\ \A p \in Procs : /\ \A x \in ToSet(sent[p]) : x.n <= posted'[x.from]
                            /\ \A x \in ToSet(awaited[p]) : x.n <= posted'[x.at]
        /\ \A x \in Met : x.msg.n <= posted'[x.msg.from] /\ x.recv.n <= posted'[x.recv.at]
    BY <1>4, NumbersGrow
  <2>4. m.n <= posted'[m.from] /\ r.n <= posted'[r.at]
    BY <1>0, <1>1, <1>4, <2>1
  <2> QED  BY <1>2, <1>3, <2>1, <2>4 DEF Numbered
<1>10. Queued'
  BY <1>3 DEF OrderInv, Queued
<1>11. Apart'
  BY <1>2, <1>3, <1>5 DEF OrderInv, Apart
<1>12. NoneMissed'
  BY <1>3 DEF OrderInv, NoneMissed, Accepts
<1>13. FirstMessage'
  <2>1. \A x \in ToSet(sent[d]) : ~ Accepts(r, x)
    BY <1>0, <1>1 DEF OrderInv, NoneMissed
  <2>2. ASSUME NEW x \in Met', NEW y \in ToSet(sent[x.msg.to]), y.from = x.msg.from, y.n < x.msg.n
        PROVE  ~ Accepts(x.recv, y)
    BY <1>2, <2>1, <2>2 DEF OrderInv, FirstMessage
  <2> QED  BY <2>2 DEF FirstMessage, Accepts
<1>14. FirstReceive'
  <2>1. ASSUME NEW x \in Met, NEW y \in ToSet(awaited'[x.recv.at]), y.n < x.recv.n
        PROVE  ~ Accepts(y, x.msg)
    <3>1. y \in ToSet(awaited[x.recv.at])
      BY <1>3, MetType, Fields DEF OrderInv
    <3> QED  BY <2>1, <3>1 DEF OrderInv, FirstReceive
  <2>2. ASSUME NEW y \in ToSet(awaited'[d]), y.n < r.n  PROVE ~ Accepts(y, m)
    <3>1. PICK j \in DOMAIN awaited[d] : y = awaited[d][j]
      BY ZenonT(60), <1>0, <1>3 DEF ToSet
    <3>2. j < k
      <4>1. j \in Nat /\ k \in Nat /\ y \in Receives /\ y.n \in Nat
        BY <1>0, <3>1, Waiting, Fields, LenProperties DEF OrderInv
      <4>2. k < j => r.n < y.n
        BY <1>0, <1>1, <3>1 DEF OrderInv, Queued
      <4>3. j # k
        BY <1>1, <1>3, <1>0, <3>1
      <4> QED  BY <1>1, <2>2, <4>1, <4>2, <4>3
    <3>3. j \notin Accepting(m)
      <4>1. j \in Nat /\ k \in Nat
        BY <1>0, <3>1, Waiting, LenProperties DEF OrderInv
      <4> QED  BY <3>2, <4>1 DEF IsFirst
    <3> QED  BY <3>1, <3>3 DEF Accepting
  <2> QED  BY <1>1, <1>2, <2>1, <2>2 DEF FirstReceive, Accepts
<1>15. MetOnce'
  BY <1>2, <1>5, <1>6 DEF OrderInv, MetOnce
<1> QED  BY <1>7, <1>8, <1>9, <1>10, <1>11, <1>12, <1>13, <1>14, <1>15 DEF OrderInv

\* A message that no receive accepts waits.
LEMMA SendWaitsStep ==
  ASSUME MaxPosted \in Nat, OrderInv, NEW m \in Messages, Posts(m.from, m.n),
         Accepting(m) = {}, sent' = [sent EXCEPT ![m.to] = Append(@, m)], UNCHANGED <<awaited, moving, done>>
  PROVE  OrderInv'
<1> DEFINE d == m.to
<1>0. d \in Procs /\ m.from \in Procs /\ m.n \in Nat /\ sent[d] \in Seq(Messages)
  BY Fields, Waiting DEF OrderInv
<1>1. Met' = Met
  BY DEF Met
<1>2. /\ sent' \in [Procs -> Seq(Messages)]
      /\ sent'[d] = Append(sent[d], m) /\ ToSet(sent'[d]) = ToSet(sent[d]) \cup {m}
      /\ \A p \in Procs \ {d} : sent'[p] = sent[p]
  BY <1>0, AppendMembers DEF OrderInv, TypeInv
<1>3. \A p \in Procs : \A x \in ToSet(sent'[p]) : x \in ToSet(sent[p]) \/ (x = m /\ p = d)
  BY <1>2
<1>4. /\ m.n = posted[m.from] + 1 /\ posted'[m.from] = m.n /\ posted' \in [Procs -> Nat]
      /\ \A q \in Procs : posted[q] \in Nat /\ posted'[q] \in Nat /\ posted[q] <= posted'[q]
  BY <1>0, PostsNumber
<1>5. (\A p \in Procs : m \notin ToSet(sent[p])) /\ \A x \in Met : x.msg # m
  BY <1>4, Fresh
<1>7. TypeInv'
  BY <1>2, <1>4 DEF OrderInv, TypeInv
<1>8. Addressed'
  BY <1>1, <1>3 DEF OrderInv, Addressed
<1>9. Numbered'
  <2>1. /\ \A p \in Procs : /\ \A x \in ToSet(sent[p]) : x.n <= posted'[x.from]
                            /\ \A x \in ToSet(awaited[p]) : x.n <= posted'[x.at]
        /\ \A x \in Met : x.msg.n <= posted'[x.msg.from] /\ x.recv.n <= posted'[x.recv.at]
    BY <1>4, NumbersGrow
  <2>4. m.n <= posted'[m.from]
    BY <1>0, <1>4
  <2> QED  BY <1>1, <1>3, <2>1, <2>4 DEF Numbered
<1>10. Queued'
  <2>1. /\ DOMAIN sent[d] = 1..Len(sent[d]) /\ DOMAIN sent'[d] = 1..(Len(sent[d]) + 1) /\ Len(sent[d]) \in Nat
        /\ \A i \in 1..Len(sent[d]) : sent'[d][i] = sent[d][i] /\ sent[d][i] \in ToSet(sent[d])
        /\ sent'[d][Len(sent[d]) + 1] = m
    BY <1>0, <1>2, AppendProperties, LenProperties, Waiting DEF OrderInv
  <2>2. \A i \in 1..Len(sent[d]) : sent[d][i].from = m.from => sent[d][i].n < m.n
    <3> SUFFICES ASSUME NEW i \in 1..Len(sent[d]), sent[d][i].from = m.from  PROVE sent[d][i].n < m.n
      OBVIOUS
    <3>1. PICK x \in Messages : x = sent[d][i] /\ x \in ToSet(sent[d]) /\ x.n \in Nat
      BY <1>0, <2>1, Waiting, Fields DEF OrderInv
    <3>2. x.n <= posted[m.from]
      BY <1>0, <3>1 DEF OrderInv, Numbered
    <3> QED  BY <1>0, <1>4, <3>1, <3>2
  <2>3. \A i, j \in 1..Len(sent[d]) :
          i < j /\ sent[d][i].from = sent[d][j].from => sent[d][i].n < sent[d][j].n
    BY <1>0, <2>1 DEF OrderInv, Queued
  <2>4. ASSUME NEW i \in 1..(Len(sent[d]) + 1), NEW j \in 1..(Len(sent[d]) + 1), i < j,
               sent'[d][i].from = sent'[d][j].from
        PROVE  sent'[d][i].n < sent'[d][j].n
    <3>1. i \in 1..Len(sent[d])
      BY <2>1, <2>4
    <3>2. CASE j \in 1..Len(sent[d])
      BY <2>1, <2>3, <2>4, <3>1, <3>2
    <3>3. CASE j = Len(sent[d]) + 1
      BY <2>1, <2>2, <2>4, <3>1, <3>3
    <3> QED  BY <2>1, <3>2, <3>3
  <2> QED  BY <1>2, <2>1, <2>4 DEF OrderInv, Queued
<1>11. Apart'
  BY <1>1, <1>3, <1>5 DEF OrderInv, Apart
<1>12. NoneMissed'
  <2>1. \A r \in ToSet(awaited[d]) : ~ Accepts(r, m)
    BY DEF Accepting, ToSet
  <2> QED  BY <1>3, <2>1 DEF OrderInv, NoneMissed, Accepts
<1>13. FirstMessage'
  <2>1. ASSUME NEW x \in Met, NEW y \in ToSet(sent'[x.msg.to]), y.from = x.msg.from, y.n < x.msg.n
        PROVE  ~ Accepts(x.recv, y)
    <3>0. x.msg \in Messages /\ x.msg.to \in Procs /\ x.msg.n \in Nat /\ x.msg.n <= posted[x.msg.from]
      BY MetType, Fields DEF OrderInv, Numbered
    <3>1. y # m
      BY <1>0, <1>4, <2>1, <3>0
    <3>2. y \in ToSet(sent[x.msg.to])
      BY <1>3, <3>0, <3>1
    <3> QED  BY <2>1, <3>2 DEF OrderInv, FirstMessage
  <2> QED  BY <1>1, <2>1 DEF FirstMessage, Accepts
<1>14. FirstReceive'
  BY <1>1 DEF OrderInv, FirstReceive, Accepts
<1>15. MetOnce'
  BY <1>1 DEF OrderInv, MetOnce
<1> QED  BY <1>7, <1>8, <1>9, <1>10, <1>11, <1>12, <1>13, <1>14, <1>15 DEF OrderInv

\* A receive meets the first message it accepts.
LEMMA RecvMeetsStep ==
  ASSUME MaxPosted \in Nat, OrderInv, NEW r \in Receives, Posts(r.at, r.n),
         NEW k \in Accepted(r), IsFirst(k, Accepted(r)), Meets(sent[r.at][k], r),
         sent' = [sent EXCEPT ![r.at] = RemoveAt(@, k)], UNCHANGED <<awaited, done>>
  PROVE  OrderInv'
<1> DEFINE d == r.at
<1>0. d \in Procs /\ r.n \in Nat /\ k \in DOMAIN sent[d]
  BY Fields DEF Accepted
<1>1. PICK m \in Messages : /\ m = sent[d][k] /\ m \in ToSet(sent[d]) /\ m.to = d
                            /\ Accepts(r, m) /\ m.n \in Nat /\ m.from \in Procs
  BY <1>0, Waiting, Fields DEF OrderInv, Addressed, Accepted
<1>2. Met' = Met \cup {[msg |-> m, recv |-> r]}
  BY <1>1 DEF Met, Meets
<1>3. /\ sent' \in [Procs -> Seq(Messages)]
      /\ \A p \in Procs : ToSet(sent'[p]) \subseteq ToSet(sent[p]) /\ m \notin ToSet(sent'[p])
      /\ \A p \in Procs : \A i, j \in DOMAIN sent'[p] :
           i < j /\ sent'[p][i].from = sent'[p][j].from => sent'[p][i].n < sent'[p][j].n
  BY <1>0, <1>1, MessageTaken
<1>4. /\ r.n = posted[d] + 1 /\ posted'[d] = r.n /\ posted' \in [Procs -> Nat]
      /\ \A q \in Procs : posted[q] \in Nat /\ posted'[q] \in Nat /\ posted[q] <= posted'[q]
  BY <1>0, PostsNumber
<1>5. (\A p \in Procs : r \notin ToSet(awaited[p])) /\ \A x \in Met : x.recv # r
  BY <1>4, Fresh
<1>6. \A x \in Met : x.msg # m
  BY <1>0, <1>1 DEF OrderInv, Apart
<1>7. TypeInv'
  <2>1. moving' \subseteq Pairs
    BY <1>1 DEF OrderInv, TypeInv, Meets, Pairs
  <2> QED  BY <1>3, <1>4, <2>1 DEF OrderInv, TypeInv
<1>8. Addressed'
  BY <1>1, <1>2, <1>3 DEF OrderInv, Addressed
<1>9. Numbered'
  <2>1. /\ \A p \in Procs : /\ \A x \in ToSet(sent[p]) : x.n <= posted'[x.from]
                            /\ \A x \in ToSet(awaited[p]) : x.n <= posted'[x.at]
        /\ \A x \in Met : x.msg.n <= posted'[x.msg.from] /\ x.recv.n <= posted'[x.recv.at]
    BY <1>4, NumbersGrow
  <2>4. m.n <= posted'[m.from] /\ r.n <= posted'[r.at]
    BY <1>0, <1>1, <1>4, <2>1
  <2> QED  BY <1>2, <1>3, <2>1, <2>4 DEF Numbered
<1>10. Queued'
  BY <1>3 DEF OrderInv, Queued
<1>11. Apart'
  BY <1>2, <1>3, <1>5 DEF OrderInv, Apart
<1>12. NoneMissed'
  BY <1>3 DEF OrderInv, NoneMissed, Accepts
<1>13. FirstMessage'
  <2>1. ASSUME NEW x \in Met, NEW y \in ToSet(sent'[x.msg.to]), y.from = x.msg.from, y.n < x.msg.n
        PROVE  ~ Accepts(x.recv, y)
    <3>1. y \in ToSet(sent[x.msg.to])
      BY <1>3, MetType, Fields DEF OrderInv
    <3> QED  BY <2>1, <3>1 DEF OrderInv, FirstMessage
  <2>2. ASSUME NEW y \in ToSet(sent'[d]), y.from = m.from, y.n < m.n  PROVE ~ Accepts(r, y)
    <3>1. PICK j \in DOMAIN sent[d] : y = sent[d][j]
      BY ZenonT(60), <1>0, <1>3 DEF ToSet
    <3>2. j < k
      <4>1. j \in Nat /\ k \in Nat /\ y \in Messages /\ y.n \in Nat
        BY <1>0, <3>1, Waiting, Fields, LenProperties DEF OrderInv
      <4>2. k < j => m.n < y.n
        BY <1>0, <1>1, <2>2, <3>1 DEF OrderInv, Queued
      <4>3. j # k
        BY <1>1, <1>3, <1>0, <3>1
      <4> QED  BY <1>1, <2>2, <4>1, <4>2, <4>3
    <3>3. j \notin Accepted(r)
      <4>1. j \in Nat /\ k \in Nat
        BY <1>0, <3>1, Waiting, LenProperties DEF OrderInv
      <4> QED  BY <3>2, <4>1 DEF IsFirst
    <3> QED  BY <3>1, <3>3 DEF Accepted
  <2> QED  BY <1>1, <1>2, <2>1, <2>2 DEF FirstMessage, Accepts
<1>14. FirstReceive'
  <2>1. \A x \in ToSet(awaited[d]) : ~ Accepts(x, m)
    BY <1>0, <1>1 DEF OrderInv, NoneMissed
  <2>2. ASSUME NEW x \in Met', NEW y \in ToSet(awaited[x.recv.at]), y.n < x.recv.n
        PROVE  ~ Accepts(y, x.msg)
    BY <1>2, <2>1, <2>2 DEF OrderInv, FirstReceive
  <2> QED  BY <2>2 DEF FirstReceive, Accepts
<1>15. MetOnce'
  BY <1>2, <1>5, <1>6 DEF OrderInv, MetOnce
<1> QED  BY <1>7, <1>8, <1>9, <1>10, <1>11, <1>12, <1>13, <1>14, <1>15 DEF OrderInv

\* A receive that accepts no waiting message waits.
LEMMA RecvWaitsStep ==
  ASSUME MaxPosted \in Nat, OrderInv, NEW r \in Receives, Posts(r.at, r.n),
         Accepted(r) = {}, awaited' = [awaited EXCEPT ![r.at] = Append(@, r)], UNCHANGED <<sent, moving, done>>
  PROVE  OrderInv'
<1> DEFINE d == r.at
<1>0. d \in Procs /\ r.n \in Nat /\ awaited[d] \in Seq(Receives)
  BY Fields, Waiting DEF OrderInv
<1>1. Met' = Met
  BY DEF Met
<1>2. /\ awaited' \in [Procs -> Seq(Receives)]
      /\ awaited'[d] = Append(awaited[d], r) /\ ToSet(awaited'[d]) = ToSet(awaited[d]) \cup {r}
      /\ \A p \in Procs \ {d} : awaited'[p] = awaited[p]
  BY <1>0, AppendMembers DEF OrderInv, TypeInv
<1>3. \A p \in Procs : \A x \in ToSet(awaited'[p]) : x \in ToSet(awaited[p]) \/ (x = r /\ p = d)
  BY <1>2
<1>4. /\ r.n = posted[d] + 1 /\ posted'[d] = r.n /\ posted' \in [Procs -> Nat]
      /\ \A q \in Procs : posted[q] \in Nat /\ posted'[q] \in Nat /\ posted[q] <= posted'[q]
  BY <1>0, PostsNumber
<1>5. (\A p \in Procs : r \notin ToSet(awaited[p])) /\ \A x \in Met : x.recv # r
  BY <1>4, Fresh
<1>7. TypeInv'
  BY <1>2, <1>4 DEF OrderInv, TypeInv
<1>8. Addressed'
  BY <1>1, <1>3 DEF OrderInv, Addressed
<1>9. Numbered'
  <2>1. /\ \A p \in Procs : /\ \A x \in ToSet(sent[p]) : x.n <= posted'[x.from]
                            /\ \A x \in ToSet(awaited[p]) : x.n <= posted'[x.at]
        /\ \A x \in Met : x.msg.n <= posted'[x.msg.from] /\ x.recv.n <= posted'[x.recv.at]
    BY <1>4, NumbersGrow
  <2>4. r.n <= posted'[r.at]
    BY <1>0, <1>4
  <2> QED  BY <1>1, <1>3, <2>1, <2>4 DEF Numbered
<1>10. Queued'
  <2>1. /\ DOMAIN awaited[d] = 1..Len(awaited[d]) /\ DOMAIN awaited'[d] = 1..(Len(awaited[d]) + 1)
        /\ Len(awaited[d]) \in Nat
        /\ \A i \in 1..Len(awaited[d]) : awaited'[d][i] = awaited[d][i] /\ awaited[d][i] \in ToSet(awaited[d])
        /\ awaited'[d][Len(awaited[d]) + 1] = r
    BY <1>0, <1>2, AppendProperties, LenProperties, Waiting DEF OrderInv
  <2>2. \A i \in 1..Len(awaited[d]) : awaited[d][i].n < r.n
    <3> SUFFICES ASSUME NEW i \in 1..Len(awaited[d])  PROVE awaited[d][i].n < r.n
      OBVIOUS
    <3>1. PICK x \in Receives : x = awaited[d][i] /\ x \in ToSet(awaited[d]) /\ x.n \in Nat /\ x.at = d
      BY <1>0, <2>1, Waiting, Fields DEF OrderInv, Addressed
    <3>2. x.n <= posted[d]
      BY <1>0, <3>1 DEF OrderInv, Numbered
    <3> QED  BY <1>0, <1>4, <3>1, <3>2
  <2>3. \A i, j \in 1..Len(awaited[d]) : i < j => awaited[d][i].n < awaited[d][j].n
    BY <1>0, <2>1 DEF OrderInv, Queued
  <2>4. ASSUME NEW i \in 1..(Len(awaited[d]) + 1), NEW j \in 1..(Len(awaited[d]) + 1), i < j
        PROVE  awaited'[d][i].n < awaited'[d][j].n
    <3>1. i \in 1..Len(awaited[d])
      BY <2>1, <2>4
    <3>2. CASE j \in 1..Len(awaited[d])
      BY <2>1, <2>3, <2>4, <3>1, <3>2
    <3>3. CASE j = Len(awaited[d]) + 1
      BY <2>1, <2>2, <2>4, <3>1, <3>3
    <3> QED  BY <2>1, <3>2, <3>3
  <2> QED  BY <1>2, <2>1, <2>4 DEF OrderInv, Queued
<1>11. Apart'
  BY <1>1, <1>3, <1>5 DEF OrderInv, Apart
<1>12. NoneMissed'
  <2>1. \A m \in ToSet(sent[d]) : ~ Accepts(r, m)
    BY DEF Accepted, ToSet
  <2> QED  BY <1>3, <2>1 DEF OrderInv, NoneMissed, Accepts
<1>13. FirstMessage'
  BY <1>1 DEF OrderInv, FirstMessage, Accepts
<1>14. FirstReceive'
  <2>1. ASSUME NEW x \in Met, NEW y \in ToSet(awaited'[x.recv.at]), y.n < x.recv.n
        PROVE  ~ Accepts(y, x.msg)
    <3>0. x.recv \in Receives /\ x.recv.at \in Procs /\ x.recv.n \in Nat /\ x.recv.n <= posted[x.recv.at]
      BY MetType, Fields DEF OrderInv, Numbered
    <3>1. y \in ToSet(awaited[x.recv.at])
      <4>1. y = r => x.recv.at = d
        BY <1>0, <1>3, <1>5, <1>8, <3>0 DEF Addressed
      <4>2. y # r
        BY <1>0, <1>4, <2>1, <3>0, <4>1
      <4> QED  BY <1>3, <3>0, <4>2
    <3> QED  BY <2>1, <3>1 DEF OrderInv, FirstReceive
  <2> QED  BY <1>1, <2>1 DEF FirstReceive, Accepts
<1>15. MetOnce'
  BY <1>1 DEF OrderInv, MetOnce
<1> QED  BY <1>7, <1>8, <1>9, <1>10, <1>11, <1>12, <1>13, <1>14, <1>15 DEF OrderInv

\* Where nothing is posted and nobody meets, the order stays.
LEMMA MoveStep ==
  ASSUME OrderInv, UNCHANGED <<sent, awaited, posted>>, Met' = Met, moving' \subseteq Pairs, done' \subseteq Outcomes
  PROVE  OrderInv'
<1>1. TypeInv' /\ Addressed' /\ Numbered' /\ Queued' /\ Apart'
  BY DEF OrderInv, TypeInv, Addressed, Numbered, Queued, Apart
<1>2. NoneMissed' /\ FirstMessage' /\ FirstReceive' /\ MetOnce'
  BY DEF OrderInv, NoneMissed, FirstMessage, FirstReceive, MetOnce, Accepts
<1> QED  BY <1>1, <1>2 DEF OrderInv

LEMMA OrderStep ==
  ASSUME MaxPosted \in Nat
  PROVE  OrderInv /\ [Next]_vars => OrderInv'
<1> SUFFICES ASSUME OrderInv, [Next]_vars PROVE OrderInv'
  OBVIOUS
<1>1. CASE UNCHANGED vars
  BY <1>1, MoveStep DEF vars, Met, OrderInv, TypeInv
<1>2. ASSUME NEW m \in Messages, Send(m)  PROVE OrderInv'
  BY <1>2, SendMeetsStep, SendWaitsStep DEF Send
<1>3. ASSUME NEW r \in Receives, Recv(r)  PROVE OrderInv'
  BY <1>3, RecvMeetsStep, RecvWaitsStep DEF Recv
<1>4. ASSUME NEW x \in moving, NEW err \in {0, 1}, Move(x, err)  PROVE OrderInv'
  <2>1. x \in Pairs /\ x.msg \in Messages /\ x.recv \in Receives /\ x = [msg |-> x.msg, recv |-> x.recv]
    BY DEF OrderInv, TypeInv, Pairs
  <2>2. moving' = moving \ {x} /\ done' = done \cup {[msg |-> x.msg, recv |-> x.recv, err |-> err]}
    BY <1>4 DEF Move
  <2>3. Met' = Met
    <3> DEFINE o == [msg |-> x.msg, recv |-> x.recv, err |-> err]
               Past(D) == {[msg |-> y.msg, recv |-> y.recv] : y \in D}
    <3>1. Past(done') = Past(done) \cup {[msg |-> o.msg, recv |-> o.recv]}
      <4> HIDE DEF o
      <4> QED  BY <2>2 DEF o
    <3>2. [msg |-> o.msg, recv |-> o.recv] = x
      BY <2>1
    <3> HIDE DEF Past
    <3>3. Met = moving \cup Past(done) /\ Met' = moving' \cup Past(done')
      BY DEF Met, Past
    <3> QED  BY <2>2, <3>1, <3>2, <3>3
  <2>4. moving' \subseteq Pairs /\ done' \subseteq Outcomes
    BY <2>1, <2>2 DEF OrderInv, TypeInv, Outcomes
  <2> QED  BY <1>4, <2>3, <2>4, MoveStep DEF Move
<1> QED  BY <1>1, <1>2, <1>3, <1>4 DEF Next

\* Whoever meets the first request that matches, as the loops over inbox and outbox in
\* MPI_Issend and MPI_Irecv do, lets no message overtake another of its sender and no
\* receive another of its process, and lets each of them meet once.
THEOREM OrderKept ==
  ASSUME MaxPosted \in Nat
  PROVE  Spec => [](MessagesInOrder /\ ReceivesInOrder /\ MetOnce)
<1>1. OrderInv => MessagesInOrder /\ ReceivesInOrder /\ MetOnce
  <2> SUFFICES ASSUME OrderInv PROVE MessagesInOrder /\ ReceivesInOrder /\ MetOnce
    OBVIOUS
  <2>1. MessagesInOrder
    BY DEF OrderInv, FirstMessage, MessagesInOrder, ToSet
  <2>2. ReceivesInOrder
    BY DEF OrderInv, FirstReceive, ReceivesInOrder, ToSet
  <2> QED  BY <2>1, <2>2 DEF OrderInv
<1> QED  BY <1>1, OrderInit, OrderStep, PTL DEF Spec

=============================================================================
