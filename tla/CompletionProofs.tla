--------------------------- MODULE CompletionProofs ---------------------------
(***************************************************************************)
(* Proofs about Collective, concluded: who completes a call has its data.  *)
(***************************************************************************)
EXTENDS CollectiveProofs

-----------------------------------------------------------------------------
(* The inductive invariant                                                 *)

\* Whether a call of operation k may still use what it keeps in its slot, when a later one
\* of operation l overwrites it.
Overwrites(k, l) == (k = "gatherv" /\ l = "gatherv") \/ (k \in Scans /\ l = "inplace")

\* No program has two such calls for the same slot.
ScratchApart ==
  \A prog \in Programs : \A t, u \in Calls :
    t < u /\ t % NSlots = u % NSlots => ~Overwrites(prog[t].kind, prog[u].kind)

Kind(t) == program[t].kind
Root(t) == program[t].root

\* Who is inside of a call that it has opened.
Inside(p) == pc[p] \in {"join", "serve", "deliver", "scan"}

OpenInv ==
  /\ \A c \in Cookies : cookie[c].owner = cookie[c].src
  /\ \A p \in Procs : Inside(p) => ticket[p] = call[p] + 1
  /\ \A s \in Turns : slots[s].locked => \E p \in Procs : pc[p] = "join" /\ call[p] % NSlots = s

\* A process other than the root is inside a rooted operation only to share the root's cookie,
\* and nowhere else is a cookie joined.
LeafInv ==
  \A p \in Procs : Inside(p) =>
    LET t == call[p] IN
    /\ pc[p] = "join" => Kind(t) \in Rooted /\ Root(t) # p
    /\ Kind(t) \in Rooted /\ Root(t) # p =>
         pc[p] \in {"join", "deliver"} /\ todo[p] = <<>> /\ cookie[at[p]].owner = Root(t)
    /\ Kind(t) \notin Scans => pc[p] # "scan"

\* Some have come to call t, and not all.
Gathering(t) == slots[t % NSlots].ticket = t /\ slots[t % NSlots].box # <<>>

\* The root that has come waits alone in the slot; otherwise all that have come wait there,
\* and in an operation without root they leave it with the last one.
Present(t) ==
  LET box == slots[t % NSlots].box IN
  Gathering(t) =>
    IF Kind(t) \in Rooted /\ Root(t) \in Made(t)
    THEN cookie[Head(box)].src = Root(t)
    ELSE /\ \A q \in Made(t) : \E c \in ToSet(box) : cookie[c].src = q
         /\ Made(t) # Procs

\* p serves others in call t: only one does, if there is no root, and all have come.
Serving(p, t) == pc[p] \in {"serve", "deliver", "scan"} /\ call[p] = t

ServeInv ==
  \A p, q \in Procs : \A t \in Calls : Kind(t) \notin Rooted /\ Serving(p, t) =>
    Made(t) = Procs /\ (Serving(q, t) => q = p)

\* The cookies that p has to serve.
Rest(p) == ToSet(todo[p]) \cup {c \in {at[p]} : pc[p] \in {"deliver", "scan"}}

\* p has to serve a cookie of q.
Owes(p, q, t) == Serving(p, t) /\ \E c \in Rest(p) : cookie[c].owner = q

\* The transfer between the root and q is still to be made.
ToCome(q, t) ==
  \/ {q, Root(t)} \ Made(t) # {}
  \/ pc[q] \in {"join", "deliver"} /\ call[q] = t
  \/ Owes(Root(t), q, t)

RootedData(t) ==
  /\ \A q \in Made(t) :
       /\ buf[q][t] \subseteq Procs
       /\ (Kind(t) = "bcast" /\ q # Root(t)) \/ q \in buf[q][t]
  /\ \A q \in Procs \ {Root(t)} :
       ToCome(q, t) \/ (IF Kind(t) = "bcast" THEN Root(t) \in buf[q][t] ELSE q \in buf[Root(t)][t])
  /\ Kind(t) = "gatherv" /\ Root(t) \in Made(t) => slots[t % NSlots].displs = t

Got(q, t) == buf[q][t] = Procs

GatheredData(t) ==
  LET slot == slots[t % NSlots] IN
  /\ \A q \in Made(t) : buf[q][t] \subseteq Procs
  /\ Gathering(t) => buf[cookie[Head(slot.box)].owner][t] = Made(t)
  /\ Made(t) = Procs => \A q \in Procs :
       \/ Got(q, t)
       \/ \E p \in Procs \ {q} : Owes(p, q, t)
       \/ Serving(q, t) /\ reqs[q][t] \in Rest(q)
  /\ \A p \in Procs : Serving(p, t) =>
       /\ reqs[p][t] \in Cookies /\ Got(cookie[reqs[p][t]].owner, t)
       /\ reqs[p][t] \in Rest(p) => IF pc[p] = "serve" THEN Head(todo[p]) = reqs[p][t] ELSE at[p] = reqs[p][t]
       /\ reqs[p][t] \notin Rest(p) => Got(p, t)

ReducedData(t) ==
  LET slot == slots[t % NSlots] IN
  /\ Gathering(t) =>
       IF Kind(t) = "inplace" THEN slot.sendbuf = Made(t)
       ELSE buf[cookie[Last(slot.box)].owner][t] = Made(t)
  /\ Made(t) = Procs => \A q \in Procs : Got(q, t) \/ \E p \in Procs \ {q} : Owes(p, q, t)
  /\ \A p \in Procs : Serving(p, t) => Got(p, t)

Below(k) == {q \in Procs : Rank[q] < k}

\* The rank of the process that p serves, or comes to next.
Reached(p) == N - Len(todo[p]) - (IF pc[p] = "serve" THEN 0 ELSE 1)

ScannedData(t) ==
  LET slot == slots[t % NSlots] IN
  /\ \A q \in Made(t) : (Made(t) # Procs \/ \E p \in Procs : Owes(p, q, t)) => buf[q][t] = {q}
  /\ Made(t) = Procs => \A q \in Procs :
       \/ \E p \in Procs : Owes(p, q, t)
       \/ Kind(t) = "scan" /\ buf[q][t] = Below(Rank[q] + 1)
       \/ Kind(t) = "exscan" /\ (Rank[q] > 0 => buf[q][t] = Below(Rank[q]))
  /\ \A p \in Procs : Serving(p, t) =>
       /\ \A i \in DOMAIN todo[p] : Rank[cookie[todo[p][i]].src] = N - Len(todo[p]) + i - 1
       /\ pc[p] # "serve" => Rank[cookie[at[p]].src] = Reached(p)
       /\ Reached(p) > 0 => slot.sendbuf = Below(Reached(p))
       /\ pc[p] = "scan" => Reached(p) > 0 /\ slot.recvbuf = {cookie[at[p]].owner}

DataOf(t) ==
  /\ Present(t)
  /\ Kind(t) \in Rooted => RootedData(t)
  /\ Kind(t) = "allgather" => GatheredData(t)
  /\ Kind(t) \in {"allreduce", "inplace"} => ReducedData(t)
  /\ Kind(t) \in Scans => ScannedData(t)

DataInv ==
  /\ program \in Programs
  /\ OpenInv /\ LeafInv /\ ServeInv
  /\ \A t \in Calls : DataOf(t)

-----------------------------------------------------------------------------
(* A call that a step is not about                                         *)

\* Whether q is inside of call t.
In(q, t) == Inside(q) /\ call[q] = t

SameCookie(c) == cookie'[c].owner = cookie[c].owner /\ cookie'[c].src = cookie[c].src /\ cookie'[c].call = cookie[c].call

\* What the data of call u depends on is as it was.
Same(u) ==
  /\ program' = program
  /\ Made(u)' = Made(u)
  /\ \A q \in Procs : buf'[q][u] = buf[q][u]
  /\ \A q \in Procs : In(q, u)' <=> In(q, u)
  /\ \A q \in Procs : In(q, u) => pc'[q] = pc[q] /\ at'[q] = at[q] /\ todo'[q] = todo[q] /\ reqs'[q][u] = reqs[q][u]
  /\ \A c \in Cookies : InUse(c) => SameCookie(c)
  /\ LET new == slots'[u % NSlots]
         old == slots[u % NSlots]
     IN
     /\ Gathering(u)' => Gathering(u) /\ new.box = old.box /\ (Kind(u) = "inplace" => new.sendbuf = old.sendbuf)
     /\ Kind(u) = "gatherv" /\ Root(u) \in Made(u) => new.displs = old.displs
     /\ Kind(u) \in Scans /\ (\E q \in Procs : Serving(q, u)) => new.sendbuf = old.sendbuf /\ new.recvbuf = old.recvbuf

\* The operations of a call.
LEMMA KindsAre ==
  ASSUME TypeOK, NEW t \in Calls
  PROVE  /\ Kind(t) \in {"bcast", "gather", "gatherv", "allgather", "allreduce", "inplace", "scan", "exscan"}
         /\ Kind(t) \in Rooted => Root(t) \in Procs
<1>1. program[t] \in Operations
  BY DEF TypeOK
<1> QED  BY <1>1, KindsAssumption DEF Operations, Kind, Root

\* A cookie in use is known.
LEMMA UsedKnown ==
  ASSUME CollInv, NEW c, InUse(c)
  PROVE  c \in Cookies /\ Known(c)
<1>1. PICK x \in Places : c \in Contents(x)
  BY DEF InUse
<1> QED  BY <1>1, HeldAreCookies DEF CollInv, KnownInv

\* The cookies p has to serve are in use.
LEMMA RestUsed ==
  ASSUME CollInv, BusyInv, NEW p \in Procs
  PROVE  \A c \in Rest(p) : c \in Cookies /\ InUse(c)
<1> SUFFICES ASSUME NEW c \in Rest(p)  PROVE  c \in Cookies /\ InUse(c)
  OBVIOUS
<1>1. CASE c \in ToSet(todo[p])
  <2>1. ToSet(todo[p]) \subseteq Cookies
    BY MembersAre DEF CollInv, TypeOK
  <2> QED  BY <1>1, <2>1, InUseIs
<1>2. CASE c \notin ToSet(todo[p])
  <2>1. c = at[p] /\ pc[p] \in Moving
    BY <1>2 DEF Rest, Moving
  <2> QED  BY <2>1, MoversPlaced
<1> QED  BY <1>1, <1>2

\* Of a call for which nothing has changed, everything stays true.
LEMMA SameData ==
  ASSUME CollInv, CountInv, BusyInv, NEW u \in Calls, Same(u), DataOf(u)
  PROVE  DataOf(u)'
<1>1. /\ Made(u)' = Made(u)
      /\ \A q \in Procs : buf'[q][u] = buf[q][u]
      /\ \A q \in Procs : In(q, u)' <=> In(q, u)
      /\ \A q \in Procs : In(q, u) =>
           pc'[q] = pc[q] /\ at'[q] = at[q] /\ todo'[q] = todo[q] /\ reqs'[q][u] = reqs[q][u]
      /\ \A c \in Cookies : InUse(c) => cookie'[c].owner = cookie[c].owner /\ cookie'[c].src = cookie[c].src
  BY DEF Same, SameCookie
<1>2. Kind(u)' = Kind(u) /\ Root(u)' = Root(u) /\ Made(u)' = Made(u)
  BY <1>1 DEF Same, Kind, Root
<1>3. \A q \in Procs : Got(q, u)' <=> Got(q, u)
  BY <1>1 DEF Got
<1>4. \A q \in Procs : Serving(q, u)' <=> Serving(q, u)
  BY <1>1 DEF Serving, In, Inside
<1>5. \A q \in Procs : Serving(q, u) =>
        /\ pc'[q] = pc[q] /\ at'[q] = at[q] /\ todo'[q] = todo[q] /\ reqs'[q][u] = reqs[q][u]
        /\ Rest(q)' = Rest(q)
  BY <1>1 DEF Serving, In, Inside, Rest
<1>6. \A q \in Procs : \A c \in Rest(q) : cookie'[c].owner = cookie[c].owner /\ cookie'[c].src = cookie[c].src
  BY <1>1, RestUsed
<1>7. \A p, q \in Procs : Owes(p, q, u)' <=> Owes(p, q, u)
  BY <1>4, <1>5, <1>6 DEF Owes
<1>8. TypeOK /\ u % NSlots \in Turns
  BY CallsAre, TurnOf DEF CollInv
<1>9. \A s \in Turns : \A c \in ToSet(slots[s].box) : cookie'[c].owner = cookie[c].owner
  <2>1. \A s \in Turns : \A c \in ToSet(slots[s].box) : c \in Cookies /\ InUse(c)
    BY <1>8, SlotTypes, InUseIs
  <2> QED  BY <1>1, <2>1
<1> DEFINE slot == slots[u % NSlots]
<1>10. /\ slot' = slots'[u % NSlots]
       /\ Gathering(u)' => Gathering(u) /\ slot'.box = slot.box /\ (Kind(u) = "inplace" => slot'.sendbuf = slot.sendbuf)
       /\ Kind(u) = "gatherv" /\ Root(u) \in Made(u) => slot'.displs = slot.displs
       /\ Kind(u) \in Scans /\ (\E q \in Procs : Serving(q, u)) =>
            slot'.sendbuf = slot.sendbuf /\ slot'.recvbuf = slot.recvbuf
  BY DEF Same
<1>11. Gathering(u) =>
         /\ cookie'[Head(slot.box)].owner = cookie[Head(slot.box)].owner
         /\ cookie'[Last(slot.box)].owner = cookie[Last(slot.box)].owner
         /\ cookie[Head(slot.box)].owner \in Procs /\ cookie[Last(slot.box)].owner \in Procs
  <2>1. Gathering(u) => Head(slot.box) \in ToSet(slot.box) /\ Last(slot.box) \in ToSet(slot.box)
    BY <1>8, SlotTypes, TailMembers, LastMember DEF Gathering
  <2>2. \A s \in Turns : \A c \in ToSet(slots[s].box) : cookie[c].owner \in Procs
    BY InUseIs, UsedKnown DEF Known
  <2> QED  BY <1>8, <1>9, <2>1, <2>2
<1>16. Present(u)'
  <2>1. Present(u)
    BY DEF DataOf
  <2>2. \A c \in ToSet(slot.box) : cookie'[c].src = cookie[c].src
    <3>1. \A c \in ToSet(slot.box) : c \in Cookies /\ InUse(c)
      BY <1>8, SlotTypes, InUseIs
    <3> QED  BY <1>1, <3>1
  <2>3. Gathering(u) => Head(slot.box) \in ToSet(slot.box)
    BY <1>8, SlotTypes, TailMembers DEF Gathering
  <2> QED  BY <1>2, <1>10, <2>1, <2>2, <2>3 DEF Present
<1>12. CASE Kind(u) \in Rooted
  <2>1. RootedData(u) /\ Root(u) \in Procs
    BY <1>8, <1>12, KindsAre DEF DataOf
  <2>2. \A q \in Procs : ToCome(q, u)' <=> ToCome(q, u)
    BY <1>1, <1>2, <1>7, <2>1 DEF ToCome, In, Inside
  <2>3. RootedData(u)'
    BY <1>1, <1>2, <1>10, <2>1, <2>2 DEF RootedData, Made
  <2> QED  BY <1>2, <1>12, <1>16, <2>3 DEF DataOf, Rooted, Scans
<1>13. CASE Kind(u) = "allgather"
  <2>1. GatheredData(u)
    BY <1>13 DEF DataOf
  <2>2. \A p \in Procs : Serving(p, u) => cookie'[reqs[p][u]].owner = cookie[reqs[p][u]].owner
    <3> SUFFICES ASSUME NEW p \in Procs, Serving(p, u)
                 PROVE  cookie'[reqs[p][u]].owner = cookie[reqs[p][u]].owner
      OBVIOUS
    <3>1. reqs[p][u] \in Cookies /\ reqs[p][u] # NoCookie
      BY <2>1, ConstantTypes DEF GatheredData
    <3> QED  BY <1>1, <3>1 DEF CountInv
  <2>3. \A q \in Made(u) : buf'[q][u] \subseteq Procs
    BY <1>1, <2>1 DEF GatheredData, Made
  <2>4. ASSUME Gathering(u)'  PROVE buf'[cookie'[Head(slot'.box)].owner][u] = Made(u)
    <3>1. Gathering(u) /\ slot'.box = slot.box
      BY <1>10, <2>4
    <3>2. buf[cookie[Head(slot.box)].owner][u] = Made(u)
      BY <2>1, <3>1 DEF GatheredData
    <3> QED  BY <1>1, <1>11, <3>1, <3>2
  <2>5. \A p \in Procs : Serving(p, u) => cookie[reqs[p][u]].owner \in Procs
    <3> SUFFICES ASSUME NEW p \in Procs, Serving(p, u)
                 PROVE  cookie[reqs[p][u]].owner \in Procs
      OBVIOUS
    <3>1. reqs[p][u] \in Cookies /\ reqs[p][u] # NoCookie
      BY <2>1, ConstantTypes DEF GatheredData
    <3> QED  BY <3>1, UsedKnown DEF CountInv, Known
  <2> HIDE DEF slot
  <2>6. \A p \in Procs : Serving(p, u)' =>
          /\ reqs'[p][u] \in Cookies /\ Got(cookie[reqs[p][u]].owner, u)'
          /\ reqs'[p][u] \in Rest(p)' => IF pc'[p] = "serve" THEN Head(todo'[p]) = reqs'[p][u] ELSE at'[p] = reqs'[p][u]
          /\ reqs'[p][u] \notin Rest(p)' => Got(p, u)'
    BY <1>1, <1>3, <1>4, <1>5, <2>1, <2>2, <2>5 DEF GatheredData, Got
  <2>7. Made(u)' = Procs => \A q \in Procs :
          \/ Got(q, u)'
          \/ \E p \in Procs \ {q} : Owes(p, q, u)'
          \/ Serving(q, u)' /\ reqs'[q][u] \in Rest(q)'
    BY <1>2, <1>3, <1>4, <1>5, <1>7, <2>1 DEF GatheredData
  <2>8. GatheredData(u)'
    BY <1>2, <1>10, <2>3, <2>4, <2>6, <2>7 DEF GatheredData, slot
  <2> QED  BY <1>2, <1>13, <1>16, <2>8 DEF DataOf, Rooted, Scans
<1>14. CASE Kind(u) \in {"allreduce", "inplace"}
  <2>1. ReducedData(u)
    BY <1>14 DEF DataOf
  <2>2. ASSUME Gathering(u)'
        PROVE  IF Kind(u) = "inplace" THEN slot'.sendbuf = Made(u)
               ELSE buf'[cookie'[Last(slot'.box)].owner][u] = Made(u)
    <3>1. Gathering(u) /\ slot'.box = slot.box /\ (Kind(u) = "inplace" => slot'.sendbuf = slot.sendbuf)
      BY <1>10, <2>2
    <3>2. Kind(u) = "inplace" => slot.sendbuf = Made(u)
      BY <2>1, <3>1 DEF ReducedData
    <3>3. Kind(u) # "inplace" => buf[cookie[Last(slot.box)].owner][u] = Made(u)
      BY <2>1, <3>1 DEF ReducedData
    <3> QED  BY <1>1, <1>11, <3>1, <3>2, <3>3
  <2>3. ReducedData(u)'
    <3> HIDE DEF slot
    <3>1. Made(u)' = Procs => \A q \in Procs : Got(q, u)' \/ \E p \in Procs \ {q} : Owes(p, q, u)'
      BY <1>2, <1>3, <1>7, <2>1 DEF ReducedData
    <3>2. \A p \in Procs : Serving(p, u)' => Got(p, u)'
      BY <1>3, <1>4, <2>1 DEF ReducedData
    <3> QED  BY <1>2, <2>2, <3>1, <3>2 DEF ReducedData, slot
  <2> QED  BY <1>2, <1>14, <1>16, <2>3 DEF DataOf, Rooted, Scans
<1>15. CASE Kind(u) \in Scans
  <2>1. ScannedData(u)
    BY <1>15 DEF DataOf
  <2>2. \A q \in Made(u)' : Made(u)' # Procs \/ (\E p \in Procs : Owes(p, q, u)') => buf'[q][u] = {q}
    BY <1>1, <1>7, <2>1 DEF ScannedData, Made
  <2>3. Made(u)' = Procs => \A q \in Procs :
          \/ \E p \in Procs : Owes(p, q, u)'
          \/ Kind(u)' = "scan" /\ buf'[q][u] = Below(Rank[q] + 1)
          \/ Kind(u)' = "exscan" /\ (Rank[q] > 0 => buf'[q][u] = Below(Rank[q]))
    BY <1>1, <1>2, <1>7, <2>1 DEF ScannedData
  <2> HIDE DEF slot
  <2>4. ASSUME NEW p \in Procs, Serving(p, u)'
        PROVE  /\ \A i \in DOMAIN todo'[p] : Rank[cookie'[todo'[p][i]].src] = N - Len(todo'[p]) + i - 1
               /\ pc'[p] # "serve" => Rank[cookie'[at'[p]].src] = Reached(p)'
               /\ Reached(p)' > 0 => slot'.sendbuf = Below(Reached(p)')
               /\ pc'[p] = "scan" => Reached(p)' > 0 /\ slot'.recvbuf = {cookie'[at'[p]].owner}
    <3>1. Serving(p, u) /\ Reached(p)' = Reached(p) /\ slot'.sendbuf = slot.sendbuf /\ slot'.recvbuf = slot.recvbuf
      BY <1>4, <1>5, <1>10, <1>15, <2>4 DEF Reached
    <3>2. \A i \in DOMAIN todo[p] : cookie'[todo[p][i]].src = cookie[todo[p][i]].src
      BY <1>6 DEF Rest, ToSet
    <3>3. pc[p] # "serve" => cookie'[at[p]].src = cookie[at[p]].src /\ cookie'[at[p]].owner = cookie[at[p]].owner
      BY <1>6, <3>1 DEF Rest, Serving
    <3> QED  BY <1>5, <2>1, <3>1, <3>2, <3>3 DEF ScannedData, slot
  <2>5. ScannedData(u)'
    BY <2>2, <2>3, <2>4 DEF ScannedData, slot, Below
  <2> QED  BY <1>2, <1>15, <1>16, <2>5 DEF DataOf, Rooted, Scans
<1> QED  BY <1>8, <1>12, <1>13, <1>14, <1>15, KindsAre DEF Rooted, Scans

-----------------------------------------------------------------------------
(* Who completes a call has its data                                       *)

\* A cookie somebody waits for in a slot is its owner's, and busy.
LEMMA SlotBusy ==
  ASSUME CollInv, BusyInv, NEW s \in Turns, NEW c \in ToSet(slots[s].box), Made(slots[s].ticket) # Procs
  PROVE  c \in Cookies /\ InUse(c) /\ busy[c] > 0 /\ cookie[c].call = slots[s].ticket
<1> DEFINE slot == slots[s]
<1>1. /\ c \in Cookies /\ slot.box \in Seq(Cookies) /\ slot.box # <<>> /\ slot.joined \in 0..N /\ DOMAIN slots = Turns
  BY SlotTypes, EmptyList DEF CollInv
<1>2. InUse(c)
  BY InUseIs
<1>3. slot.joined = Cardinality(Made(slot.ticket)) /\ cookie[c].call = slot.ticket
  <2>1. Matches(s)
    BY <1>1, MatchesAre DEF CollInv, RingInv
  <2> QED  BY <1>1, <2>1 DEF Matches
<1>4. slot.joined \in Nat /\ N \in Nat /\ slot.joined < N
  <2>1. slot.joined # N
    BY <1>3, MadeIsFinite
  <2> QED  BY <1>1, <2>1, ConstantTypes
<1>5. PICK op, m : op = program[slot.ticket] /\ m = Cardinality(Movers(c)) /\ m \in Nat
  BY MoversAre
<1>6. busy[c] = WaitsFor(op, slot.box, slot.joined, c, cookie[c].src, m)
  BY <1>5, ExactIs
<1>7. op.kind = "allreduce" => Len(slot.box) = slot.joined
  BY <1>1, <1>5 DEF BusyInv, BoxInv
<1> HIDE DEF slot
<1>8. WaitsFor(op, slot.box, slot.joined, c, cookie[c].src, m) > 0
  <2>1. N - slot.joined + 1 > 0 /\ N - slot.joined + m > 0 /\ 2 + slot.joined - slot.joined > 0
    BY <1>4, <1>5
  <2> QED  BY <1>7, <2>1 DEF WaitsFor
<1> QED  BY <1>1, <1>2, <1>3, <1>6, <1>8 DEF slot

\* So is a cookie somebody has to serve.
LEMMA RestBusy ==
  ASSUME CollInv, BusyInv, NEW p \in Procs, NEW c \in Rest(p)
  PROVE  c \in Cookies /\ InUse(c) /\ busy[c] > 0 /\ cookie[c].call = call[p]
<1>1. c \in Cookies /\ InUse(c)
  BY RestUsed
<1>2. CASE c \in ToSet(todo[p])
  <2>1. busy[c] = ServedFor(program[cookie[c].call], cookie[c].src)
    BY <1>2, ExactIs
  <2>2. busy[c] \in {1, 2}
    BY <2>1 DEF ServedFor
  <2> QED  BY <1>1, <1>2, <2>2 DEF BusyInv, ListsInv
<1>3. CASE c \notin ToSet(todo[p])
  <2>1. c = at[p] /\ pc[p] \in Moving
    BY <1>3 DEF Rest, Moving
  <2> QED  BY <1>1, <2>1, MoverBusy DEF BusyInv, MoverInv
<1> QED  BY <1>2, <1>3

\* Whoever leaves a call, his cookie is not waited for.
LEMMA NotBusy ==
  ASSUME CollInv, BusyInv, NEW p \in Procs, pc[p] = "leave",
         NEW c \in Cookies, InUse(c), busy[c] > 0, cookie[c].call = call[p]
  PROVE  cookie[c].owner # p
<1> SUFFICES ASSUME cookie[c].owner = p  PROVE  FALSE
  OBVIOUS
<1>1. reqs[p][call[p]] = c
  BY DEF BusyInv, OwnerInv
<1>2. at[p] = c
  BY <1>1 DEF CollInv, CallInv
<1>3. busy[c] = 0
  BY <1>2 DEF BusyInv, OwnerInv
<1> QED  BY <1>3

\* Nobody has to serve him, and nobody waits with his cookie in the slot.
LEMMA NotOwed ==
  ASSUME CollInv, BusyInv, NEW p \in Procs, pc[p] = "leave", NEW q \in Procs
  PROVE  ~Owes(q, p, call[p])
<1> SUFFICES ASSUME Owes(q, p, call[p])  PROVE  FALSE
  OBVIOUS
<1>1. PICK c \in Rest(q) : cookie[c].owner = p /\ call[q] = call[p]
  BY DEF Owes, Serving
<1>2. c \in Cookies /\ InUse(c) /\ busy[c] > 0 /\ cookie[c].call = call[p]
  BY <1>1, RestBusy
<1> QED  BY <1>1, <1>2, NotBusy

\* A call that not all have made is still going on in its slot.
LEMMA StillGathering ==
  ASSUME CollInv, OpenInv, NEW t \in Calls, NEW p \in Made(t), Made(t) # Procs
  PROVE  Gathering(t)
<1>1. t \in Nat /\ t % NSlots \in Turns
  BY CallsAre, TurnOf
<1>2. p \in Procs /\ t < ticket[p]
  BY <1>1, TicketType DEF Made, CollInv
<1>3. PICK q \in Procs : ticket[q] <= t
  <2>1. PICK q \in Procs : q \notin Made(t)
    BY DEF Made
  <2>2. ticket[q] \in Nat /\ ~(ticket[q] > t)
    BY <2>1, TicketType DEF Made, CollInv
  <2> QED  BY <1>1, <2>2
<1>4. PICK slot : slot = slots[t % NSlots] /\ slot.ticket = t /\ (slot.box # <<>> \/ slot.locked)
  BY <1>2, <1>3 DEF CollInv, RingInv
<1>5. slot.locked => slot.box # <<>>
  <2> SUFFICES ASSUME slot.locked  PROVE  slot.box # <<>>
    OBVIOUS
  <2>1. PICK r \in Procs : pc[r] = "join" /\ call[r] % NSlots = t % NSlots
    BY <1>1, <1>4 DEF OpenInv
  <2> QED  BY <1>4, <2>1 DEF CollInv, JoinInv
<1> QED  BY <1>4, <1>5 DEF Gathering

\* Who has left a cookie in the slot does not leave the call before it is served.
LEMMA NotWaiting ==
  ASSUME CollInv, BusyInv, OpenInv, NEW p \in Procs, pc[p] = "leave", Made(call[p]) # Procs, Gathering(call[p]),
         NEW c \in ToSet(slots[call[p] % NSlots].box)
  PROVE  cookie[c].src # p
<1>1. call[p] % NSlots \in Turns /\ slots[call[p] % NSlots].ticket = call[p]
  BY WorksOn DEF Gathering
<1>2. c \in Cookies /\ InUse(c) /\ busy[c] > 0 /\ cookie[c].call = call[p]
  BY <1>1, SlotBusy
<1> QED  BY <1>2, NotBusy DEF OpenInv

\* Who leaves a call without root, or with another root, leaves it after all he needs.
LEMMA AllMade ==
  ASSUME CollInv, BusyInv, OpenInv, NEW p \in Procs, pc[p] = "leave", Present(call[p])
  PROVE  /\ p \in Made(call[p])
         /\ Kind(call[p]) \in Rooted => Root(call[p]) \in Made(call[p])
         /\ Kind(call[p]) \notin Rooted \/ p = Root(call[p]) => Made(call[p]) = Procs
<1>1. PICK t \in Calls : t = call[p]
  BY WorksOn
<1>2. p \in Made(t) /\ t % NSlots \in Turns
  BY <1>1, WorksOn, TicketType DEF Made, CollInv
<1>3. ASSUME Made(t) # Procs
      PROVE  /\ Kind(t) \in Rooted /\ Root(t) \in Made(t)
             /\ Root(t) # p
  <2>1. Gathering(t)
    BY <1>2, <1>3, StillGathering
  <2>2. PICK slot : slot = slots[t % NSlots] /\ slot.ticket = t /\ slot.box # <<>>
    BY <2>1 DEF Gathering
  <2>3. \A c \in ToSet(slot.box) : cookie[c].src # p
    BY <1>1, <1>3, <2>1, <2>2, NotWaiting
  <2>4. Kind(t) \in Rooted /\ Root(t) \in Made(t)
    BY <1>1, <1>2, <2>1, <2>2, <2>3 DEF Present
  <2>5. cookie[Head(slot.box)].src = Root(t) /\ Head(slot.box) \in ToSet(slot.box)
    <3>1. slot.box \in Seq(Cookies)
      BY <1>2, <2>2, SlotTypes DEF CollInv
    <3> QED  BY <1>1, <1>2, <2>1, <2>2, <2>4, <3>1, TailMembers DEF Present
  <2> QED  BY <2>3, <2>4, <2>5
<1>4. Kind(t) \in Rooted => Root(t) \in Procs
  BY KindsAre DEF CollInv
<1> QED  BY <1>1, <1>2, <1>3, <1>4

\* Nobody leaves MPI_Wait while its cookie is still to be served, so its data is there.
LEMMA DataComplete ==
  ASSUME CollInv, CountInv, BusyInv, DataInv
  PROVE  Completed
<1> SUFFICES ASSUME NEW p \in Procs, pc[p] = "leave"  PROVE  Required(p, call[p])
  BY DEF Completed
<1>1. PICK t \in Calls : t = call[p]
  BY WorksOn
<1>2. /\ p \in Made(t) /\ (Kind(t) \in Rooted => Root(t) \in Made(t))
      /\ Kind(t) \notin Rooted \/ p = Root(t) => Made(t) = Procs
  BY <1>1, AllMade DEF DataInv, DataOf
<1>3. \A q \in Procs : ~Owes(q, p, t)
  BY <1>1, NotOwed
<1>4. ~Serving(p, t) /\ DataOf(t)
  BY DEF Serving, DataInv
<1>5. CASE Kind(t) \in Rooted
  <2>1. RootedData(t) /\ Root(t) \in Procs
    BY <1>4, <1>5, KindsAre DEF DataOf, CollInv
  <2>2. CASE Root(t) # p
    <3>1. ~ToCome(p, t)
      BY <1>2, <1>3, <2>1 DEF ToCome
    <3>2. IF Kind(t) = "bcast" THEN Root(t) \in buf[p][t] ELSE p \in buf[Root(t)][t]
      BY <2>1, <2>2, <3>1 DEF RootedData
    <3> QED  BY <1>1, <1>5, <2>2, <3>2 DEF Required, Kind, Root, Rooted
  <2>3. CASE Root(t) = p
    <3>1. ASSUME NEW q \in Procs \ {p}  PROVE  ~ToCome(q, t)
      <4>1. Made(t) = Procs /\ ~Owes(p, q, t)
        BY <1>2, <1>4, <2>3 DEF Owes
      <4>2. ASSUME pc[q] \in {"join", "deliver"}, call[q] = t  PROVE  FALSE
        <5>1. pc[q] \in Moving /\ Inside(q)
          BY <4>2 DEF Moving, Inside
        <5>2. cookie[at[q]].owner = p
          BY <1>5, <2>3, <4>2, <5>1 DEF DataInv, LeafInv
        <5>3. at[q] \in Cookies /\ InUse(at[q]) /\ busy[at[q]] > 0
          BY <5>1, MoversPlaced, MoverBusy
        <5>4. cookie[at[q]].call = t
          BY <4>2, <5>1 DEF BusyInv, MoverInv
        <5> QED  BY <1>1, <5>2, <5>3, <5>4, NotBusy
      <4> QED  BY <2>3, <4>1, <4>2 DEF ToCome
    <3>2. \A q \in Procs : buf[q][t] \subseteq Procs /\ ((Kind(t) = "bcast" /\ q # p) \/ q \in buf[q][t])
      BY <1>2, <2>1, <2>3 DEF RootedData
    <3>3. \A q \in Procs \ {p} : IF Kind(t) = "bcast" THEN p \in buf[q][t] ELSE q \in buf[p][t]
      BY <2>1, <2>3, <3>1 DEF RootedData
    <3>4. CASE Kind(t) = "bcast"
      <4>1. \A q \in Procs : p \in buf[q][t]
        BY <3>2, <3>3, <3>4
      <4> QED  BY <1>1, <2>3, <3>4, <4>1 DEF Required, Kind, Root
    <3>5. CASE Kind(t) # "bcast"
      <4>1. buf[p][t] = Procs
        BY <3>2, <3>3, <3>5
      <4> QED  BY <1>1, <1>5, <2>3, <3>5, <4>1 DEF Required, Kind, Root, Rooted
    <3> QED  BY <3>4, <3>5
  <2> QED  BY <2>2, <2>3
<1>6. CASE Kind(t) = "allgather"
  <2>1. Got(p, t)
    BY <1>2, <1>3, <1>4, <1>6 DEF DataOf, GatheredData, Rooted
  <2> QED  BY <1>1, <1>6, <2>1 DEF Required, Kind, Got
<1>7. CASE Kind(t) \in {"allreduce", "inplace"}
  <2>1. Got(p, t)
    BY <1>2, <1>3, <1>4, <1>7 DEF DataOf, ReducedData, Rooted
  <2> QED  BY <1>1, <1>7, <2>1 DEF Required, Kind, Got
<1>8. CASE Kind(t) \in Scans
  <2>1. \/ Kind(t) = "scan" /\ buf[p][t] = Below(Rank[p] + 1)
        \/ Kind(t) = "exscan" /\ (Rank[p] > 0 => buf[p][t] = Below(Rank[p]))
    BY <1>2, <1>3, <1>4, <1>8 DEF DataOf, ScannedData, Rooted, Scans
  <2>2. Below(Rank[p] + 1) = {q \in Procs : Rank[q] <= Rank[p]}
    <3>1. \A q \in Procs : Rank[q] \in Int
      BY RankAssumption, ConstantTypes
    <3> QED  BY <3>1 DEF Below
  <2> QED  BY <1>1, <2>1, <2>2 DEF Required, Kind, Below
<1> QED  BY <1>5, <1>6, <1>7, <1>8, KindsAre DEF CollInv, Rooted, Scans

-----------------------------------------------------------------------------
(* A step of one process in one call                                       *)

\* p does something in call t, to the slot of the call and the buffers for it.
OnlyCall(p, t) ==
  /\ program' = program
  /\ \A q \in Procs : q # p =>
       pc'[q] = pc[q] /\ call'[q] = call[q] /\ at'[q] = at[q] /\ todo'[q] = todo[q] /\ reqs'[q] = reqs[q]
  /\ Inside(p) => call[p] = t
  /\ Inside(p)' => call'[p] = t
  /\ \A u \in Calls : u # t => Made(u)' = Made(u) /\ \A q \in Procs : buf'[q][u] = buf[q][u]
  /\ \A c \in Cookies : InUse(c) => SameCookie(c)
  /\ \A s \in Turns : s # t % NSlots => slots'[s] = slots[s]
  /\ LET new == slots'[t % NSlots]
         old == slots[t % NSlots]
     IN
     /\ \/ new.ticket = t /\ (old.ticket = t \/ old.box = <<>>)
        \/ new.ticket = old.ticket /\ new.box = old.box /\ Inside(p)
     /\ new.displs = old.displs \/ Kind(t) = "gatherv"
     /\ \/ new.sendbuf = old.sendbuf /\ new.recvbuf = old.recvbuf
        \/ Kind(t) = "inplace" /\ ticket[p] = t
        \/ Kind(t) \in Scans /\ Serving(p, t)

\* Nobody serves others in two calls that share a slot.
LEMMA ServingAlone ==
  ASSUME CollInv, OpenInv, ServeInv, NEW p \in Procs, NEW q \in Procs, NEW t \in Calls, NEW u \in Calls,
         Serving(p, t), Serving(q, u), Kind(t) \notin Rooted, Kind(u) \notin Rooted
  PROVE  t = u
<1>1. t \in Nat /\ u \in Nat /\ ticket[p] \in Nat /\ ticket[q] \in Nat
  BY CallsAre, TicketType DEF CollInv
<1>2. ticket[p] > u /\ ticket[q] > t
  BY DEF ServeInv, Made
<1>3. ticket[p] = t + 1 /\ ticket[q] = u + 1
  BY DEF OpenInv, Serving, Inside
<1> QED  BY <1>1, <1>2, <1>3

\* For all other calls nothing changes: what they keep in the slot is not overwritten.
LEMMA OthersSame ==
  ASSUME ScratchApart, CollInv, BusyInv, DataInv, NEW p \in Procs, NEW t \in Calls, OnlyCall(p, t),
         NEW u \in Calls, u # t
  PROVE  Same(u)
<1>1. /\ program' = program
      /\ \A q \in Procs : q # p =>
           pc'[q] = pc[q] /\ call'[q] = call[q] /\ at'[q] = at[q] /\ todo'[q] = todo[q] /\ reqs'[q] = reqs[q]
      /\ Inside(p) => call[p] = t
      /\ Inside(p)' => call'[p] = t
      /\ Made(u)' = Made(u) /\ \A q \in Procs : buf'[q][u] = buf[q][u]
      /\ \A c \in Cookies : InUse(c) => SameCookie(c)
  BY DEF OnlyCall
<1>2. \A q \in Procs : In(q, u)' <=> In(q, u)
  <2> SUFFICES ASSUME NEW q \in Procs  PROVE  In(q, u)' <=> In(q, u)
    OBVIOUS
  <2>1. CASE q = p
    BY <1>1, <2>1 DEF In
  <2>2. CASE q # p
    BY <1>1, <2>2 DEF In, Inside
  <2> QED  BY <2>1, <2>2
<1>3. \A q \in Procs : In(q, u) => pc'[q] = pc[q] /\ at'[q] = at[q] /\ todo'[q] = todo[q] /\ reqs'[q][u] = reqs[q][u]
  BY <1>1 DEF In
<1>4. u \in Nat /\ t \in Nat /\ u % NSlots \in Turns /\ t % NSlots \in Turns
  BY CallsAre, TurnOf
<1> DEFINE new == slots'[u % NSlots]
           old == slots[u % NSlots]
<1>5. CASE u % NSlots # t % NSlots
  <2>1. new = old
    BY <1>4, <1>5 DEF OnlyCall
  <2>2. Gathering(u)' <=> Gathering(u)
    BY <2>1 DEF Gathering
  <2> QED  BY <1>1, <1>2, <1>3, <2>1, <2>2 DEF Same
<1>6. CASE u % NSlots = t % NSlots
  <2>2. \A k, l \in Calls : k < l /\ k % NSlots = l % NSlots => ~Overwrites(Kind(k), Kind(l))
    BY DEF ScratchApart, DataInv, Kind
  <2>3. u < t \/ t < u
    BY <1>4
  <2>4. Kind(u) = "gatherv" => new.displs = old.displs
    BY <1>6, <2>2, <2>3 DEF OnlyCall, Overwrites
  <2>5. ASSUME Kind(u) \in Scans, NEW q \in Procs, Serving(q, u)
        PROVE  new.sendbuf = old.sendbuf /\ new.recvbuf = old.recvbuf
    <3>1. Kind(u) \notin Rooted
      BY <2>5 DEF Scans, Rooted
    <3>2. ~(Kind(t) = "inplace" /\ ticket[p] = t)
      <4> SUFFICES ASSUME Kind(t) = "inplace", ticket[p] = t  PROVE  FALSE
        OBVIOUS
      <4>1. u < t
        BY <1>4, <2>5, <3>1 DEF DataInv, ServeInv, Made
      <4> QED  BY <1>6, <2>2, <2>5, <4>1 DEF Overwrites
    <3>3. ~(Kind(t) \in Scans /\ Serving(p, t))
      BY <2>5, <3>1, ServingAlone DEF DataInv, Scans, Rooted
    <3> QED  BY <1>6, <3>2, <3>3 DEF OnlyCall
  <2>6. ASSUME Gathering(u)'
        PROVE  Gathering(u) /\ new.box = old.box /\ (Kind(u) = "inplace" => new.sendbuf = old.sendbuf)
    <3>1. new.ticket = old.ticket /\ new.box = old.box /\ Inside(p) /\ Gathering(u)
      BY <1>6, <2>6 DEF OnlyCall, Gathering
    <3> SUFFICES ASSUME Kind(u) = "inplace", new.sendbuf # old.sendbuf  PROVE FALSE
      BY <3>1
    <3>2. CASE Kind(t) = "inplace" /\ ticket[p] = t
      <4>1. call[p] = t /\ ticket[p] = call[p] + 1
        BY <1>1, <3>1 DEF DataInv, OpenInv
      <4> QED  BY <1>4, <3>2, <4>1
    <3>3. CASE Kind(t) \in Scans /\ Serving(p, t)
      <4>1. u < t
        BY <1>6, <2>2, <2>3, <3>3 DEF Overwrites
      <4>2. Made(t) = Procs
        BY <3>3 DEF DataInv, ServeInv, Scans, Rooted
      <4>3. Made(u) = Procs
        <5>1. \A q \in Procs : ticket[q] \in Nat /\ ticket[q] > t
          BY <4>2, TicketType DEF Made, CollInv
        <5> QED  BY <1>4, <4>1, <5>1 DEF Made
      <4>4. Present(u) /\ Kind(u) \notin Rooted
        BY DEF DataInv, DataOf, Rooted
      <4> QED  BY <3>1, <4>3, <4>4 DEF Present
    <3> QED  BY <1>6, <3>2, <3>3 DEF OnlyCall
  <2> QED  BY <1>1, <1>2, <1>3, <2>4, <2>5, <2>6 DEF Same
<1> QED  BY <1>5, <1>6

-----------------------------------------------------------------------------
(* What a process that makes its next call leaves as it was                *)

\* p makes call t.
Opens(p, t) ==
  /\ t = ticket[p] /\ pc[p] = "idle" /\ program' = program
  /\ \A q \in Procs : q # p =>
       /\ pc'[q] = pc[q] /\ call'[q] = call[q] /\ at'[q] = at[q] /\ todo'[q] = todo[q] /\ reqs'[q] = reqs[q]
       /\ ticket'[q] = ticket[q]
  /\ ticket'[p] = t + 1
  /\ p \notin Made(t) /\ Made(t)' = Made(t) \cup {p}
  /\ \A u \in Nat : u # t => Made(u)' = Made(u)
  /\ \A c \in Cookies : InUse(c) => SameCookie(c)
  /\ \A c \in Cookies : cookie[c].owner = cookie[c].src => cookie'[c].owner = cookie'[c].src
  /\ \A s \in Turns : s # t % NSlots => slots'[s] = slots[s]
  /\ slots'[t % NSlots].ticket = t
  /\ slots[t % NSlots].ticket = t \/ slots[t % NSlots].box = <<>>
  /\ ~slots[t % NSlots].locked
  /\ pc'[p] \in {"idle", "serve", "join"}
  /\ pc'[p] # "idle" => call'[p] = t

\* Each call without an error does.
LEMMA OpensIs ==
  ASSUME CollInv, NEW p \in Procs, EntersAs(p), NEW t, t = ticket[p]
  PROVE  Opens(p, t)
<1>1. Enters(p) /\ program' = program
  BY DEF EntersAs, RestTyped
<1>2. PICK new, box, locked, rest :
        Entered(p, new, box, locked, rest) /\ Created(p, new) /\ WentOn(p, new, locked, rest)
  BY DEF EntersAs
<1>3. PICK turn \in Turns : turn = Turn(p)
  BY <1>1, JoinedIs
<1>4. /\ TypeOK /\ t \in Nat /\ turn = t % NSlots /\ p \notin Made(t)
      /\ slots[turn].ticket = t \/ slots[turn].box = <<>>
      /\ ~slots[turn].locked
  BY <1>1, <1>3, JoinedIs DEF CollInv, Turn, Slot, Box
<1>5. /\ slots'[turn].ticket = t /\ \A s \in Turns : s # turn => slots'[s] = slots[s]
      /\ ticket' = [ticket EXCEPT ![p] = @ + 1] /\ todo' = [todo EXCEPT ![p] = rest]
  BY <1>2, <1>3 DEF Entered, TurnTaken
<1>6. /\ \A q \in Procs : q # p => ticket'[q] = ticket[q] /\ todo'[q] = todo[q]
      /\ ticket'[p] = t + 1
  BY <1>4, <1>5 DEF TypeOK
<1>7. Made(t)' = Made(t) \cup {p} /\ \A u \in Nat : u # t => Made(u)' = Made(u)
  BY <1>4, <1>6 DEF Made
<1>8. \A c \in Cookies : InUse(c) => SameCookie(c)
  <2>1. \A c : InUse(c) => c \notin new
    BY <1>1, <1>2, EnteredUses
  <2> QED  BY <1>2, <2>1 DEF Created, SameCookie
<1>9. \A c \in Cookies : cookie[c].owner = cookie[c].src => cookie'[c].owner = cookie'[c].src
  BY <1>2 DEF Created
<1>10. /\ \A q \in Procs : q # p => pc'[q] = pc[q] /\ call'[q] = call[q] /\ at'[q] = at[q] /\ reqs'[q] = reqs[q]
       /\ pc'[p] \in {"idle", "serve", "join"}
       /\ pc'[p] # "idle" => call'[p] = t
  BY <1>2 DEF WentOn
<1>11. pc[p] = "idle"
  BY <1>1 DEF Enters, Calling
<1> QED  BY <1>1, <1>3, <1>4, <1>5, <1>6, <1>7, <1>8, <1>9, <1>10, <1>11 DEF Opens

\* p leaves box in the slot of call t, and all else but displs_ as it was.
Left(p, t, box, locked) ==
  LET new == slots'[t % NSlots]
      old == slots[t % NSlots]
  IN
  /\ new.sendbuf = old.sendbuf /\ new.recvbuf = old.recvbuf
  /\ new.displs = IF Kind(t) = "gatherv" /\ Root(t) = p THEN t ELSE old.displs
  /\ new.box = box /\ new.locked = locked

\* shared::get_current_slot leaves the rest of the slot alone.
LEMMA TurnScratch ==
  ASSUME CollInv, NEW p \in Procs, Enters(p), NEW box \in Seq(Cookies), NEW locked \in BOOLEAN,
         TakesTurn(p, box, locked), NEW t, t = ticket[p]
  PROVE  Left(p, t, box, locked)
<1>1. PICK turn \in Turns : turn = Turn(p) /\ turn = t % NSlots
  BY JoinedIs DEF Turn
<1>2. PICK old \in SlotRecords : old = slots[turn]
  BY <1>1, JoinedIs DEF Slot
<1>3. PICK joined, displs : joined = JoinedBy(p) /\ displs = IF Kind(t) = "gatherv" /\ Root(t) = p THEN t ELSE old.displs
  OBVIOUS
<1>4. PICK turned : turned = [old EXCEPT !.ticket = t, !.joined = joined, !.box = box, !.locked = locked]
  OBVIOUS
<1>5. turned = Turned(p, box, locked)
  BY <1>1, <1>2, <1>3, <1>4 DEF Turned, Slot
<1>6. /\ turned.sendbuf = old.sendbuf /\ turned.recvbuf = old.recvbuf /\ turned.displs = old.displs
      /\ turned.box = box /\ turned.locked = locked
  BY <1>4 DEF SlotRecords
<1>7. PICK slot : slot = [turned EXCEPT !.displs = displs]
  OBVIOUS
<1>8. /\ slot.sendbuf = old.sendbuf /\ slot.recvbuf = old.recvbuf /\ slot.displs = displs
      /\ slot.box = box /\ slot.locked = locked
  BY <1>4, <1>6, <1>7 DEF SlotRecords
<1>9. slots' = [slots EXCEPT ![turn] = slot]
  BY <1>1, <1>3, <1>5, <1>6, <1>7 DEF TakesTurn, TakesTurnWith, Op, Kind, Root
<1>10. slots'[turn] = slot
  BY <1>9 DEF CollInv, TypeOK, Turns
<1> QED  BY <1>1, <1>2, <1>3, <1>8, <1>10 DEF Left

\* p leaves the slot of call t unlocked unless it joins the root's cookie, and serves others
\* only if it is the root or the last of a call without one.
Properly(p, t) ==
  LET new == slots'[t % NSlots]
      old == slots[t % NSlots]
  IN
  /\ new.locked => pc'[p] = "join"
  /\ pc'[p] = "join" => Kind(t) \in Rooted /\ Root(t) # p
  /\ Kind(t) \in Rooted /\ Root(t) # p /\ pc'[p] # "idle" =>
       pc'[p] = "join" /\ todo'[p] = <<>> /\ cookie'[at'[p]].owner = Root(t)
  /\ pc'[p] = "serve" /\ Kind(t) \notin Rooted => Made(t) \cup {p} = Procs
  /\ new.displs = old.displs \/ Kind(t) = "gatherv"
  /\ (new.sendbuf = old.sendbuf /\ new.recvbuf = old.recvbuf) \/ Kind(t) = "inplace"

\* Who makes a call is inside of it afterwards, as the invariant says.
LEMMA OpensOpen ==
  ASSUME CollInv, BusyInv, OpenInv, LeafInv, NEW p \in Procs, NEW t \in Calls, Opens(p, t), Properly(p, t)
  PROVE  OpenInv' /\ LeafInv'
<1>1. /\ program' = program /\ pc[p] = "idle"
      /\ \A q \in Procs : q # p =>
           /\ pc'[q] = pc[q] /\ call'[q] = call[q] /\ at'[q] = at[q] /\ todo'[q] = todo[q]
           /\ ticket'[q] = ticket[q]
      /\ ticket'[p] = t + 1
      /\ pc'[p] \in {"idle", "serve", "join"}
      /\ pc'[p] # "idle" => call'[p] = t
  BY DEF Opens
<1>2. \A c \in Cookies : cookie'[c].owner = cookie'[c].src
  BY DEF Opens, OpenInv
<1>3. \A q \in Procs : Inside(q)' => ticket'[q] = call'[q] + 1
  BY <1>1 DEF Inside, OpenInv
<1>4. \A s \in Turns : slots'[s].locked => \E q \in Procs : pc'[q] = "join" /\ call'[q] % NSlots = s
  <2> SUFFICES ASSUME NEW s \in Turns, slots'[s].locked
               PROVE  \E q \in Procs : pc'[q] = "join" /\ call'[q] % NSlots = s
    OBVIOUS
  <2>1. CASE s = t % NSlots
    BY <1>1, <2>1 DEF Properly
  <2>2. CASE s # t % NSlots
    <3>1. slots[s].locked
      BY <2>2 DEF Opens
    <3>2. PICK q \in Procs : pc[q] = "join" /\ call[q] % NSlots = s
      BY <3>1 DEF OpenInv
    <3> QED  BY <1>1, <3>2
  <2> QED  BY <2>1, <2>2
<1>5. \A u : Kind(u)' = Kind(u) /\ Root(u)' = Root(u)
  BY <1>1 DEF Kind, Root
<1>6. LeafInv'
  <2> SUFFICES ASSUME NEW q \in Procs, Inside(q)'
               PROVE  /\ pc'[q] = "join" => Kind(call'[q]) \in Rooted /\ Root(call'[q]) # q
                      /\ Kind(call'[q]) \in Rooted /\ Root(call'[q]) # q =>
                           /\ pc'[q] \in {"join", "deliver"} /\ todo'[q] = <<>>
                           /\ cookie'[at'[q]].owner = Root(call'[q])
                      /\ Kind(call'[q]) \notin Scans => pc'[q] # "scan"
    BY <1>1 DEF LeafInv, Kind, Root
  <2>1. CASE q = p
    <3>1. call'[p] = t /\ pc'[p] \in {"serve", "join"}
      BY <1>1, <2>1 DEF Inside
    <3> QED  BY <2>1, <3>1 DEF Properly
  <2>2. CASE q # p
    <3>1. Inside(q)
      BY <1>1, <2>2 DEF Inside
    <3>2. pc[q] \in {"join", "deliver"} => cookie'[at[q]].owner = cookie[at[q]].owner
      <4>1. pc[q] \in {"join", "deliver"} => at[q] \in Cookies /\ InUse(at[q])
        BY MoversPlaced DEF Moving
      <4> QED  BY <4>1 DEF Opens, SameCookie
    <3> QED  BY <1>1, <2>2, <3>1, <3>2 DEF LeafInv
  <2> QED  BY <2>1, <2>2
<1> QED  BY <1>2, <1>3, <1>4, <1>6 DEF OpenInv

\* One process serves at most.
LEMMA OpensServing ==
  ASSUME CollInv, ServeInv, NEW p \in Procs, NEW t \in Calls, Opens(p, t), Properly(p, t)
  PROVE  ServeInv'
<1>1. /\ program' = program /\ pc[p] = "idle" /\ p \notin Made(t) /\ Made(t)' = Made(t) \cup {p}
      /\ \A q \in Procs : q # p => pc'[q] = pc[q] /\ call'[q] = call[q]
      /\ pc'[p] \in {"idle", "serve", "join"}
      /\ pc'[p] # "idle" => call'[p] = t
      /\ \A u \in Calls : u # t => Made(u)' = Made(u)
  BY CallsAre DEF Opens
<1> SUFFICES ASSUME NEW q \in Procs, NEW r \in Procs, NEW u \in Calls, Kind(u) \notin Rooted, Serving(q, u)'
             PROVE  Made(u)' = Procs /\ (Serving(r, u)' => r = q)
  BY <1>1 DEF ServeInv, Kind
<1>2. \A x \in Procs : x # p => (Serving(x, u)' <=> Serving(x, u))
  BY <1>1 DEF Serving
<1>3. \A x \in Procs : x # p /\ Serving(x, u) => Made(u) = Procs /\ u # t
  BY <1>1 DEF ServeInv
<1>4. Serving(p, u)' => u = t /\ Made(t)' = Procs
  BY <1>1 DEF Serving, Properly
<1>5. \A x \in Procs : x # p /\ Serving(x, u)' => Made(u)' = Procs /\ u # t
  BY <1>1, <1>2, <1>3
<1>6. q # p /\ r # p /\ Serving(r, u)' => r = q
  BY <1>2 DEF ServeInv
<1> QED  BY <1>4, <1>5, <1>6

\* It is enough to show the invariant for the call that p makes.
LEMMA OpensData ==
  ASSUME ScratchApart, CollInv, CountInv, BusyInv, DataInv, NEW p \in Procs, NEW t \in Calls, Opens(p, t), Properly(p, t),
         \A q \in Procs, u \in Calls : u # t => buf'[q][u] = buf[q][u],
         DataOf(t)'
  PROVE  DataInv'
<1>1. OnlyCall(p, t)
  <2>1. ~Inside(p) /\ (Inside(p)' => call'[p] = t)
    BY DEF Opens, Inside
  <2> QED  BY <2>1, CallsAre DEF Opens, OnlyCall, Properly
<1>2. \A u \in Calls : DataOf(u)'
  <2>1. ASSUME NEW u \in Calls, u # t  PROVE  DataOf(u)'
    <3>1. Same(u)
      BY <1>1, <2>1, OthersSame
    <3> QED  BY <3>1, SameData DEF DataInv
  <2> QED  BY <2>1
<1>3. OpenInv' /\ LeafInv' /\ ServeInv'
  BY OpensOpen, OpensServing DEF DataInv
<1>4. program' \in Programs
  BY DEF Opens, DataInv
<1> QED  BY <1>2, <1>3, <1>4 DEF DataInv

-----------------------------------------------------------------------------
(* What a process that makes its next call does for the call               *)

\* p is the last to make its call if all others have made it.
LEMMA LastIs ==
  ASSUME CollInv, NEW p \in Procs, Enters(p), NEW t, t = ticket[p]
  PROVE  /\ t \in Calls /\ t \in Nat /\ t % NSlots \in Turns /\ Turn(p) = t % NSlots
         /\ Op(p).kind = Kind(t) /\ Op(p).root = Root(t)
         /\ Box(p) = slots[t % NSlots].box /\ Box(p) \in Seq(Cookies) /\ IsInjective(Box(p))
         /\ ComesLast(p) <=> Made(t) \cup {p} = Procs
         /\ p \notin Made(t)
         /\ Box(p) = <<>> => Made(t) = {}
         /\ Box(p) # <<>> => Gathering(t)
         /\ ComesFirst(p) <=> Box(p) = <<>>
<1>1. /\ t \in Calls /\ t \in Nat /\ t % NSlots \in Turns /\ Turn(p) = t % NSlots
      /\ Box(p) = slots[t % NSlots].box /\ Box(p) \in Seq(Cookies) /\ IsInjective(Box(p))
      /\ JoinedBy(p) = Cardinality(Made(t) \cup {p})
      /\ p \notin Made(t)
      /\ Box(p) = <<>> => Made(t) = {}
      /\ Box(p) # <<>> => slots[t % NSlots].ticket = t
      /\ ComesFirst(p) => Box(p) = <<>>
  BY JoinedIs DEF Turn, Slot
<1>2. ComesLast(p) <=> Made(t) \cup {p} = Procs
  <2>1. Made(t) \cup {p} \in SUBSET Procs
    BY DEF Made
  <2>2. Cardinality(Made(t) \cup {p}) = Cardinality(Procs) => Procs = Made(t) \cup {p}
    BY <2>1, ConstantTypes, FS_Subset
  <2> QED  BY <1>1, <2>2 DEF ComesLast, N
<1>3. Box(p) = <<>> => ComesFirst(p)
  BY DEF ComesFirst, JoinedBy
<1> QED  BY <1>1, <1>2, <1>3 DEF Gathering, Op, Kind, Root

\* The cookie p creates is its own, and the others are as they were.
LEMMA PostsIs ==
  ASSUME CollInv, NEW p \in Procs, Enters(p), NEW c \in Cookies,
         NEW num, NEW waits, Creates(p, c, num, waits),
         NEW t, t = ticket[p], Holds(p, t, c)
  PROVE  /\ cookie'[c].owner = p /\ cookie'[c].src = p /\ reqs'[p][t] = c
         /\ \A b \in Cookies : b # c => cookie'[b] = cookie[b]
<1>1. t \in Calls /\ TypeOK
  BY JoinedIs DEF CollInv
<1>2. cookie' = [cookie EXCEPT ![c] = [owner |-> p, src |-> p, err |-> MPI_SUCCESS, call |-> t]]
  BY DEF Creates
<1>3. /\ cookie'[c] = [owner |-> p, src |-> p, err |-> MPI_SUCCESS, call |-> t]
      /\ \A b \in Cookies : b # c => cookie'[b] = cookie[b]
  BY <1>1, <1>2 DEF TypeOK
<1> QED  BY <1>1, <1>3, HoldsIs

\* What a list with one more element has in it, and at its ends.
LEMMA AppendIs ==
  ASSUME NEW S, NEW s \in Seq(S), NEW x \in S
  PROVE  /\ Append(s, x) # <<>> /\ ToSet(Append(s, x)) = ToSet(s) \cup {x}
         /\ Last(Append(s, x)) = x
         /\ s # <<>> => Head(Append(s, x)) = Head(s)
         /\ s = <<>> => Head(Append(s, x)) = x
<1>1. ToSet(Append(s, x)) = ToSet(s) \cup {x}
  BY AppendMembers
<1>2. Len(Append(s, x)) = Len(s) + 1 /\ Append(s, x)[Len(s) + 1] = x /\ Len(s) \in Nat
  OBVIOUS
<1>3. Last(Append(s, x)) = x
  BY <1>2 DEF Last
<1>4. s # <<>> => Head(Append(s, x)) = Head(s)
  OBVIOUS
<1>5. s = <<>> => Head(Append(s, x)) = x
  OBVIOUS
<1>6. Append(s, x) # <<>>
  BY <1>1, EmptyList
<1> QED  BY <1>1, <1>3, <1>4, <1>5, <1>6

\* In the slot with the cookies of those who have made the call is that of p.
LEMMA PresentPosted ==
  ASSUME CollInv, NEW p \in Procs, Enters(p), NEW t, t = ticket[p], Opens(p, t), Present(t),
         Made(t) \cup {p} # Procs, Kind(t) \in Rooted => Root(t) \notin Made(t) \cup {p},
         NEW c \in Cookies, cookie'[c].src = p, slots'[t % NSlots].box = Append(Box(p), c)
  PROVE  Present(t)'
<1> DEFINE box == slots[t % NSlots].box
<1>1. /\ t \in Calls /\ t % NSlots \in Turns /\ Box(p) = box /\ box \in Seq(Cookies)
      /\ box = <<>> => Made(t) = {}
      /\ box # <<>> => Gathering(t)
  BY LastIs
<1>2. \A q \in Made(t) : \E b \in ToSet(box) : cookie[b].src = q
  BY <1>1 DEF Present
<1>3. \A b \in ToSet(box) : cookie'[b].src = cookie[b].src
  <2>1. \A b \in ToSet(box) : b \in Cookies /\ InUse(b)
    BY <1>1, SlotTypes, InUseIs DEF CollInv
  <2> QED  BY <2>1 DEF Opens, SameCookie
<1>4. box' = Append(box, c) /\ ToSet(Append(box, c)) = ToSet(box) \cup {c}
  BY <1>1, AppendIs
<1>5. Made(t)' = Made(t) \cup {p} /\ Kind(t)' = Kind(t) /\ Root(t)' = Root(t)
  BY DEF Opens, Kind, Root
<1> HIDE DEF box
<1>6. \A q \in Made(t)' : \E b \in ToSet(box') : cookie'[b].src = q
  BY <1>2, <1>3, <1>4, <1>5
<1>7. slots'[t % NSlots].box = box' /\ Made(t)' # Procs
  BY <1>5 DEF box
<1>8. ~(Kind(t)' \in Rooted /\ Root(t)' \in Made(t)')
  BY <1>5
<1> QED  BY <1>6, <1>7, <1>8 DEF Present

\* Nobody serves others yet in a call without root that p makes.
LEMMA NobodyServes ==
  ASSUME ServeInv, NEW p \in Procs, NEW t \in Calls, Opens(p, t), Kind(t) \notin Rooted
  PROVE  /\ \A q \in Procs : ~Serving(q, t)
         /\ \A q \in Procs : q # p => ~Serving(q, t)'
<1>1. \A q \in Procs : ~Serving(q, t)
  BY DEF ServeInv, Opens
<1> QED  BY <1>1 DEF Opens, Serving

\* What p's data in the call becomes, and that nothing else does.
LEMMA ContributesIn ==
  ASSUME CollInv, NEW p \in Procs, NEW t \in Calls, t = ticket[p], Contributes(p)
  PROVE  /\ buf'[p][t] = IF Kind(t) = "bcast" /\ Root(t) # p THEN {} ELSE {p}
         /\ \A q \in Procs, u \in Calls : q # p \/ u # t => buf'[q][u] = buf[q][u]
<1>1. PICK data : data = IF Kind(t) = "bcast" /\ Root(t) # p THEN {} ELSE {p}
  OBVIOUS
<1>2. buf' = [buf EXCEPT ![p][t] = data]
  BY <1>1 DEF Contributes, Op, Kind, Root
<1>3. buf'[p][t] = data /\ \A q \in Procs, u \in Calls : q # p \/ u # t => buf'[q][u] = buf[q][u]
  BY <1>2 DEF CollInv, TypeOK
<1> QED  BY <1>1, <1>3

-----------------------------------------------------------------------------
(* Calls with a root                                                       *)

\* The data of a call with a root, when p makes it: what p does not transfer itself is to come.
LEMMA RootedOpens ==
  ASSUME CollInv, BusyInv, NEW p \in Procs, NEW t \in Calls, Opens(p, t), Kind(t) \in Rooted, RootedData(t),
         buf'[p][t] = (IF Kind(t) = "bcast" /\ Root(t) # p THEN {} ELSE {p}),
         \A q \in Procs : q # p => buf'[q][t] = buf[q][t],
         Root(t) # p => pc'[p] = "join" \/ Root(t) \notin Made(t),
         Root(t) = p => \A q \in Made(t) : Owes(p, q, t)',
         Kind(t) = "gatherv" =>
           slots'[t % NSlots].displs = IF Root(t) = p THEN t ELSE slots[t % NSlots].displs
  PROVE  RootedData(t)'
<1>1. /\ program' = program /\ Made(t)' = Made(t) \cup {p} /\ Made(t) \subseteq Procs
      /\ Kind(t)' = Kind(t) /\ Root(t)' = Root(t) /\ Root(t) \in Procs
      /\ pc'[p] # "idle" => call'[p] = t
      /\ \A q \in Procs : q # p => pc'[q] = pc[q] /\ call'[q] = call[q] /\ at'[q] = at[q] /\ todo'[q] = todo[q]
      /\ \A c \in Cookies : InUse(c) => cookie'[c].owner = cookie[c].owner
  <2>1. Made(t) \subseteq Procs /\ Root(t) \in Procs
    BY KindsAre DEF Made, CollInv
  <2> QED  BY <2>1 DEF Opens, SameCookie, Kind, Root
<1>2. \A q \in Made(t)' :
        /\ buf'[q][t] \subseteq Procs
        /\ (Kind(t) = "bcast" /\ q # Root(t)) \/ q \in buf'[q][t]
  <2> TAKE q \in Made(t)'
  <2>1. CASE q = p
    BY <2>1
  <2>2. CASE q # p
    <3>1. q \in Made(t) /\ q \in Procs
      BY <1>1, <2>2
    <3> QED  BY <2>2, <3>1 DEF RootedData
  <2> QED  BY <2>1, <2>2
<1>3. ASSUME NEW q \in Procs \ {Root(t)}
      PROVE  ToCome(q, t)' \/ (IF Kind(t) = "bcast" THEN Root(t) \in buf'[q][t] ELSE q \in buf'[Root(t)][t])
  <2>1. CASE Root(t) = p
    <3>1. q \in Made(t)' \/ ToCome(q, t)'
      BY DEF ToCome
    <3>2. q \in Made(t)' => Owes(Root(t), q, t)'
      BY <1>1, <1>3, <2>1
    <3> QED  BY <1>1, <3>1, <3>2 DEF ToCome
  <2>2. CASE Root(t) # p /\ q = p
    <3>1. pc'[p] = "join" => call'[p] = t
      BY <1>1
    <3>2. Root(t) \notin Made(t) => Root(t) \notin Made(t)'
      BY <1>1, <2>2
    <3> QED  BY <1>1, <2>2, <3>1, <3>2 DEF ToCome
  <2>3. CASE Root(t) # p /\ q # p
    <3>1. buf'[q][t] = buf[q][t] /\ buf'[Root(t)][t] = buf[Root(t)][t]
      BY <1>1, <2>3
    <3>2. ASSUME Owes(Root(t), q, t)  PROVE Owes(Root(t), q, t)'
      <4>1. PICK r \in Procs : r = Root(t) /\ r # p
        BY <1>1, <2>3
      <4>2. PICK c \in Rest(r) : Serving(r, t) /\ cookie[c].owner = q
        BY <3>2, <4>1 DEF Owes
      <4>3. c \in Cookies /\ InUse(c)
        BY <4>1, RestUsed
      <4>4. Rest(r)' = Rest(r) /\ Serving(r, t)' /\ cookie'[c].owner = q
        BY <1>1, <4>1, <4>2, <4>3 DEF Rest, Serving
      <4>5. Owes(r, q, t)'
        BY <4>2, <4>4 DEF Owes
      <4> QED  BY <1>1, <4>1, <4>5
    <3>3. ToCome(q, t) => ToCome(q, t)'
      BY <1>1, <2>3, <3>2 DEF ToCome
    <3> QED  BY <2>3, <3>1, <3>3 DEF RootedData
  <2> QED  BY <2>1, <2>2, <2>3
<1>4. Kind(t) = "gatherv" /\ Root(t) \in Made(t)' => slots'[t % NSlots].displs = t
  BY <1>1 DEF RootedData
<1> QED  BY <1>1, <1>2, <1>3, <1>4 DEF RootedData

\* p finds the root's cookie: its transfer is to come.
LEMMA LeafJoinsData ==
  ASSUME ScratchApart, CollInv, CountInv, BusyInv, DataInv, NEW p \in Procs, LeafJoins(p)
  PROVE  DataInv'
<1>1. /\ Enters(p) /\ RootWaits(p) /\ IsLeaf(p) /\ TakesTurn(p, Box(p), TRUE) /\ Contributes(p)
      /\ Goes(p, "join", ticket[p], Head(Box(p)), <<>>) /\ cookie' = cookie /\ program' = program
  BY DEF LeafJoins, cookies
<1>2. PICK t : t = ticket[p]
  OBVIOUS
<1>3. PICK box : box = slots[t % NSlots].box
  OBVIOUS
<1>4. /\ t \in Calls /\ Box(p) = box /\ box \in Seq(Cookies) /\ box # <<>>
      /\ Kind(t) \in Rooted /\ Root(t) # p /\ cookie[Head(box)].src = Root(t)
  BY <1>1, <1>2, <1>3, LastIs DEF IsLeaf, RootWaits
<1>5. Opens(p, t)
  BY <1>1, <1>2, LeafJoinsKeeps, OpensIs DEF Keeps
<1>6. /\ slots'[t % NSlots].sendbuf = slots[t % NSlots].sendbuf
      /\ slots'[t % NSlots].recvbuf = slots[t % NSlots].recvbuf
      /\ slots'[t % NSlots].displs = slots[t % NSlots].displs
      /\ slots'[t % NSlots].box = box
  <2>1. Enters(p) /\ TakesTurn(p, Box(p), TRUE) /\ Box(p) \in Seq(Cookies) /\ t = ticket[p]
    BY <1>1, <1>2, <1>4
  <2>2. Left(p, t, Box(p), TRUE)
    BY <2>1, TurnScratch
  <2> QED  BY <1>4, <2>2 DEF Left
<1>7. pc'[p] = "join" /\ todo'[p] = <<>> /\ at'[p] = Head(box)
  BY <1>1, <1>4 DEF Goes, CollInv, TypeOK
<1>8. Head(box) \in ToSet(box) /\ Head(box) \in Cookies
  BY <1>4, TailMembers
<1>9. Root(t) \in Made(t)
  <2>1. Known(Head(box)) /\ ticket[cookie[Head(box)].src] > t
    BY <1>1, <1>2, <1>4, <1>8, InBoxKnown
  <2> QED  BY <1>4, <2>1 DEF Made, Known
<1>10. cookie'[Head(box)].owner = Root(t)
  BY <1>1, <1>4, <1>8 DEF DataInv, OpenInv
<1>11. Properly(p, t)
  BY <1>4, <1>6, <1>7, <1>10 DEF Properly
<1>12. Present(t)'
  <2>1. Kind(t)' = Kind(t) /\ Root(t)' = Root(t) /\ Root(t) \in Made(t)'
    BY <1>1, <1>5, <1>9 DEF Opens, Kind, Root
  <2> QED  BY <1>1, <1>4, <1>6, <2>1 DEF Present
<1>15. Contributes(p) /\ t \in Calls /\ t = ticket[p]
  BY <1>1, <1>2, <1>4
<1>16. /\ buf'[p][t] = IF Kind(t) = "bcast" /\ Root(t) # p THEN {} ELSE {p}
      /\ \A q \in Procs, u \in Calls : q # p \/ u # t => buf'[q][u] = buf[q][u]
  BY <1>15, ContributesIn
<1>13. RootedData(t)'
  <2>2. RootedData(t)
    BY <1>4 DEF DataInv, DataOf
  <2> QED  BY <1>4, <1>5, <1>6, <1>7, <1>16, <2>2, RootedOpens
<1>14. DataOf(t)'
  BY <1>1, <1>4, <1>12, <1>13 DEF DataOf, Kind, Rooted, Scans
<1> QED  BY <1>4, <1>5, <1>11, <1>14, <1>16, OpensData

\* p comes before the root: its transfer is to come.
LEMMA LeafPostsData ==
  ASSUME ScratchApart, CollInv, CountInv, BusyInv, DataInv, NEW p \in Procs, LeafPosts(p)
  PROVE  DataInv'
<1>1. /\ Enters(p) /\ ~RootWaits(p) /\ IsLeaf(p) /\ Contributes(p) /\ program' = program
      /\ UNCHANGED calls
  BY DEF LeafPosts
<1>2. PICK t : t = ticket[p]
  OBVIOUS
<1>3. PICK box : box = slots[t % NSlots].box
  OBVIOUS
<1>4. /\ t \in Calls /\ Box(p) = box /\ box \in Seq(Cookies)
      /\ Kind(t) \in Rooted /\ Root(t) # p
      /\ box = <<>> => Made(t) = {}
      /\ box # <<>> => Gathering(t) /\ cookie[Head(box)].src # Root(t)
  BY <1>1, <1>2, <1>3, LastIs DEF IsLeaf, RootWaits
<1>5. PICK c \in Cookies : Creates(p, c, 1, busy) /\ TakesTurn(p, Append(box, c), FALSE) /\ Holds(p, t, c)
  BY <1>2, <1>4 DEF LeafPosts
<1>6. Opens(p, t)
  BY <1>1, <1>2, LeafPostsKeeps, OpensIs DEF Keeps
<1>7. Append(box, c) \in Seq(Cookies)
  BY <1>4
<1>8. /\ slots'[t % NSlots].sendbuf = slots[t % NSlots].sendbuf
      /\ slots'[t % NSlots].recvbuf = slots[t % NSlots].recvbuf
      /\ slots'[t % NSlots].displs = slots[t % NSlots].displs
      /\ slots'[t % NSlots].box = Append(box, c) /\ ~slots'[t % NSlots].locked
  <2>1. Enters(p) /\ TakesTurn(p, Append(box, c), FALSE) /\ Append(box, c) \in Seq(Cookies) /\ t = ticket[p]
    BY <1>1, <1>2, <1>5, <1>7
  <2>2. Left(p, t, Append(box, c), FALSE)
    BY <2>1, TurnScratch
  <2> QED  BY <1>4, <2>2 DEF Left
<1>9. pc'[p] = "idle"
  BY <1>1, StaysIdle
<1>10. Present(t) /\ RootedData(t) /\ Root(t) \in Procs
  BY <1>4, KindsAre DEF DataInv, DataOf, CollInv
<1>11. Root(t) \notin Made(t)
  BY <1>3, <1>4, <1>10 DEF Present
<1>12. Properly(p, t)
  BY <1>4, <1>8, <1>9 DEF Properly
<1>13. Present(t)'
  <2>1. cookie'[c].src = p
    BY <1>1, <1>2, <1>5, PostsIs
  <2>2. Root(t) \notin Made(t) \cup {p} /\ Made(t) \cup {p} # Procs
    BY <1>4, <1>10, <1>11
  <2> QED  BY <1>1, <1>2, <1>4, <1>6, <1>8, <1>10, <2>1, <2>2, PresentPosted
<1>16. Contributes(p) /\ t \in Calls /\ t = ticket[p]
  BY <1>1, <1>2, <1>4
<1>17. /\ buf'[p][t] = IF Kind(t) = "bcast" /\ Root(t) # p THEN {} ELSE {p}
      /\ \A q \in Procs, u \in Calls : q # p \/ u # t => buf'[q][u] = buf[q][u]
  BY <1>16, ContributesIn
<1>14. RootedData(t)'
  <2> QED  BY <1>4, <1>6, <1>8, <1>10, <1>11, <1>17, RootedOpens
<1>15. DataOf(t)'
  BY <1>1, <1>4, <1>13, <1>14 DEF DataOf, Kind, Rooted, Scans
<1> QED  BY <1>4, <1>6, <1>12, <1>15, <1>17, OpensData

\* Who takes the cookies out of the slot has to serve all that have come.
LEMMA TakenOwes ==
  ASSUME CollInv, OpenInv, NEW p \in Procs, Enters(p), NEW t, t = ticket[p], Opens(p, t), Present(t),
         Kind(t) \in Rooted => Root(t) \notin Made(t), Serves(p, ticket[p], Box(p))
  PROVE  /\ \A q \in Made(t) : Owes(p, q, t)'
         /\ todo'[p] = Box(p)
         /\ pc'[p] = (IF Box(p) = <<>> THEN "idle" ELSE "serve")
<1> DEFINE box == slots[t % NSlots].box
<1>1. /\ t \in Calls /\ t \in Nat /\ t % NSlots \in Turns /\ Box(p) = box /\ box \in Seq(Cookies)
      /\ box = <<>> => Made(t) = {}
      /\ box # <<>> => Gathering(t)
  BY LastIs
<1>2. TypeOK /\ ticket[p] \in Nat /\ Box(p) \in Seq(Cookies)
  BY <1>1 DEF CollInv
<1>3. todo' = [todo EXCEPT ![p] = Box(p)]
  BY <1>2, ServesIs
<1>4. \/ pc'[p] = "idle" /\ Box(p) = <<>>
      \/ pc'[p] = "serve" /\ call'[p] = ticket[p] /\ Box(p) # <<>>
  BY <1>2, ServesIs
<1>6. todo'[p] = Box(p)
  BY <1>2, <1>3 DEF TypeOK
<1>5. ASSUME NEW q \in Made(t)  PROVE Owes(p, q, t)'
  <2>1. box # <<>>
    BY <1>1
  <2>2. PICK b \in ToSet(box) : cookie[b].src = q
    BY <1>1, <2>1 DEF Present
  <2>3. b \in Cookies /\ InUse(b)
    BY <1>1, SlotTypes, InUseIs DEF CollInv
  <2>4. cookie'[b].owner = q
    BY <2>2, <2>3 DEF Opens, SameCookie, OpenInv
  <2>5. b \in Rest(p)' /\ Serving(p, t)'
    BY <1>1, <1>4, <1>6, <2>1, <2>2 DEF Rest, Serving
  <2> QED  BY <2>4, <2>5 DEF Owes
<1> QED  BY <1>4, <1>5, <1>6

\* The root has all to serve that have come, and leaves its cookie for the others.
LEMMA RootPostsData ==
  ASSUME ScratchApart, CollInv, CountInv, BusyInv, DataInv, NEW p \in Procs, RootPosts(p)
  PROVE  DataInv'
<1>1. /\ Enters(p) /\ ~ComesLast(p) /\ IsRoot(p) /\ Contributes(p) /\ program' = program
      /\ Serves(p, ticket[p], Box(p))
  BY DEF RootPosts
<1>2. PICK t : t = ticket[p]
  OBVIOUS
<1>3. /\ t \in Calls /\ t % NSlots \in Turns /\ p \notin Made(t)
      /\ Kind(t) \in Rooted /\ Root(t) = p
  BY <1>1, <1>2, LastIs DEF IsRoot
<1>4. PICK c \in Cookies : Creates(p, c, Remaining(p), busy) /\ TakesTurn(p, <<c>>, FALSE) /\ Holds(p, t, c)
  BY <1>2 DEF RootPosts
<1>5. Opens(p, t)
  BY <1>1, <1>2, RootPostsKeeps, OpensIs DEF Keeps
<1>6. PICK one \in Seq(Cookies) : one = <<c>> /\ Head(one) = c
  <2>1. <<c>> \in Seq(Cookies)
    OBVIOUS
  <2>2. Head(<<c>>) = c
    OBVIOUS
  <2> QED  BY <2>1, <2>2
<1>7. Left(p, t, <<c>>, FALSE)
  <2>1. Enters(p) /\ TakesTurn(p, <<c>>, FALSE) /\ <<c>> \in Seq(Cookies) /\ t = ticket[p]
    BY <1>1, <1>2, <1>4, <1>6
  <2> QED  BY <2>1, TurnScratch
<1>8. Present(t) /\ RootedData(t)
  BY <1>3 DEF DataInv, DataOf
<1>9. /\ \A q \in Made(t) : Owes(p, q, t)'
      /\ pc'[p] \in {"idle", "serve"}
  BY <1>1, <1>2, <1>3, <1>5, <1>8, TakenOwes DEF DataInv
<1>10. Properly(p, t)
  BY <1>3, <1>7, <1>9 DEF Properly, Left
<1>11. Present(t)'
  <2>1. cookie'[c].src = p
    BY <1>1, <1>2, <1>4, PostsIs
  <2>2. Kind(t)' = Kind(t) /\ Root(t)' = Root(t) /\ Root(t) \in Made(t)'
    BY <1>3, <1>5 DEF Opens, Kind, Root
  <2>3. slots'[t % NSlots].box = one
    BY <1>6, <1>7 DEF Left
  <2>4. cookie'[Head(slots'[t % NSlots].box)].src = Root(t)'
    BY <1>3, <1>6, <2>1, <2>2, <2>3
  <2> QED  BY <1>3, <2>2, <2>4 DEF Present
<1>12. Contributes(p) /\ t \in Calls /\ t = ticket[p]
  BY <1>1, <1>2, <1>3
<1>13. /\ buf'[p][t] = IF Kind(t) = "bcast" /\ Root(t) # p THEN {} ELSE {p}
       /\ \A q \in Procs, u \in Calls : q # p \/ u # t => buf'[q][u] = buf[q][u]
  BY <1>12, ContributesIn
<1>14. slots'[t % NSlots].displs = IF Kind(t) = "gatherv" THEN t ELSE slots[t % NSlots].displs
  BY <1>3, <1>7 DEF Left
<1>15. RootedData(t)'
  BY <1>3, <1>5, <1>8, <1>9, <1>13, <1>14, RootedOpens
<1>16. DataOf(t)'
  BY <1>1, <1>3, <1>11, <1>15 DEF DataOf, Kind, Rooted, Scans
<1> QED  BY <1>3, <1>5, <1>10, <1>13, <1>16, OpensData

\* The root comes last and has all others to serve.
LEMMA RootLastData ==
  ASSUME ScratchApart, CollInv, CountInv, BusyInv, DataInv, NEW p \in Procs, RootLast(p)
  PROVE  DataInv'
<1>1. /\ Enters(p) /\ IsRoot(p) /\ Contributes(p) /\ program' = program
      /\ Serves(p, ticket[p], Box(p)) /\ TakesTurn(p, <<>>, FALSE)
  BY DEF RootLast, Borrows
<1>2. PICK t : t = ticket[p]
  OBVIOUS
<1>3. /\ t \in Calls /\ t % NSlots \in Turns /\ p \notin Made(t)
      /\ Kind(t) \in Rooted /\ Root(t) = p
  BY <1>1, <1>2, LastIs DEF IsRoot
<1>4. Opens(p, t)
  BY <1>1, <1>2, RootLastKeeps, OpensIs DEF Keeps
<1>5. Left(p, t, <<>>, FALSE)
  <2>1. Enters(p) /\ TakesTurn(p, <<>>, FALSE) /\ <<>> \in Seq(Cookies) /\ t = ticket[p]
    BY <1>1, <1>2, EmptyList
  <2> QED  BY <2>1, TurnScratch
<1>6. Present(t) /\ RootedData(t)
  BY <1>3 DEF DataInv, DataOf
<1>7. /\ \A q \in Made(t) : Owes(p, q, t)'
      /\ pc'[p] \in {"idle", "serve"}
  BY <1>1, <1>2, <1>3, <1>4, <1>6, TakenOwes DEF DataInv
<1>8. Properly(p, t)
  BY <1>3, <1>5, <1>7 DEF Properly, Left
<1>9. Present(t)'
  BY <1>5 DEF Present, Gathering, Left
<1>10. Contributes(p) /\ t \in Calls /\ t = ticket[p]
  BY <1>1, <1>2, <1>3
<1>11. /\ buf'[p][t] = IF Kind(t) = "bcast" /\ Root(t) # p THEN {} ELSE {p}
       /\ \A q \in Procs, u \in Calls : q # p \/ u # t => buf'[q][u] = buf[q][u]
  BY <1>10, ContributesIn
<1>12. slots'[t % NSlots].displs = IF Kind(t) = "gatherv" THEN t ELSE slots[t % NSlots].displs
  BY <1>3, <1>5 DEF Left
<1>13. RootedData(t)'
  BY <1>3, <1>4, <1>6, <1>7, <1>11, <1>12, RootedOpens
<1>14. DataOf(t)'
  BY <1>1, <1>3, <1>9, <1>13 DEF DataOf, Kind, Rooted, Scans
<1> QED  BY <1>3, <1>4, <1>8, <1>11, <1>14, OpensData

-----------------------------------------------------------------------------
(* Calls without a root                                                    *)

\* Nobody serves others yet in a call that not all have made.
LEMMA NobodyYet ==
  ASSUME ServeInv, NEW p \in Procs, NEW t \in Calls, Opens(p, t), Kind(t) \notin Rooted, pc'[p] = "idle"
  PROVE  \A q \in Procs : ~Serving(q, t)'
<1>1. \A q \in Procs : q # p => ~Serving(q, t)'
  BY NobodyServes
<1> QED  BY <1>1 DEF Serving

\* The first one of an exchange has its own data.
LEMMA ExchangeFirstData ==
  ASSUME ScratchApart, CollInv, CountInv, BusyInv, DataInv, NEW p \in Procs, ExchangeFirst(p)
  PROVE  DataInv'
<1>1. /\ Enters(p) /\ ComesFirst(p) /\ IsExchange(p) /\ Contributes(p) /\ program' = program
      /\ UNCHANGED calls
  BY DEF ExchangeFirst
<1>2. PICK t : t = ticket[p]
  OBVIOUS
<1>3. /\ t \in Calls /\ t % NSlots \in Turns /\ Made(t) = {} /\ Box(p) = <<>>
      /\ Kind(t) \in {"allgather", "allreduce"} /\ Kind(t) \notin Rooted \cup Scans
  <2>1. t \in Calls /\ t % NSlots \in Turns /\ Made(t) = {} /\ Box(p) = <<>> /\ Op(p).kind = Kind(t)
    BY <1>1, <1>2, LastIs
  <2> QED  BY <1>1, <2>1 DEF IsExchange, Rooted, Scans
<1>4. Made(t) \cup {p} # Procs
  <2>1. Cardinality({p}) = 1
    BY FS_Singleton
  <2>2. Cardinality(Procs) # 1
    BY ProcsAssumption, FS_CardinalityType
  <2> QED  BY <1>3, <2>1, <2>2
<1>5. PICK c \in Cookies, num \in Int :
        Creates(p, c, num, busy) /\ TakesTurn(p, <<c>>, FALSE) /\ Holds(p, t, c)
  <2>1. (IF Op(p).kind = "allgather" THEN N ELSE 2) \in Int
    BY ConstantTypes
  <2> QED  BY <1>2, <2>1 DEF ExchangeFirst
<1>6. Opens(p, t)
  BY <1>1, <1>2, ExchangeFirstKeeps, OpensIs DEF Keeps
<1>7. PICK one \in Seq(Cookies) : one = <<c>> /\ Head(one) = c /\ Last(one) = c
  <2>1. <<c>> \in Seq(Cookies)
    OBVIOUS
  <2>2. Head(<<c>>) = c /\ Last(<<c>>) = c
    BY DEF Last
  <2> QED  BY <2>1, <2>2
<1>8. Left(p, t, <<c>>, FALSE)
  <2>1. Enters(p) /\ TakesTurn(p, <<c>>, FALSE) /\ <<c>> \in Seq(Cookies) /\ t = ticket[p]
    BY <1>1, <1>2, <1>5, <1>7
  <2> QED  BY <2>1, TurnScratch
<1>9. pc'[p] = "idle"
  BY <1>1, StaysIdle
<1>10. Properly(p, t)
  BY <1>3, <1>8, <1>9 DEF Properly, Left
<1>11. cookie'[c].src = p /\ cookie'[c].owner = p
  BY <1>1, <1>2, <1>5, PostsIs
<1>12. /\ Made(t)' = {p} /\ Made(t)' # Procs /\ Kind(t)' = Kind(t) /\ Root(t)' = Root(t)
       /\ slots'[t % NSlots].box = one
  <2>1. Made(t)' = Made(t) \cup {p}
    BY <1>6 DEF Opens
  <2> QED  BY <1>1, <1>3, <1>4, <1>7, <1>8, <2>1 DEF Kind, Root, Left
<1>13. Present(t)'
  <2>1. \E b \in ToSet(one) : cookie'[b].src = p
    <3>1. Head(one) \in ToSet(one)
      BY <1>7, EmptyList, TailMembers
    <3> QED  BY <1>7, <1>11, <3>1
  <2> QED  BY <1>3, <1>12, <2>1 DEF Present
<1>14. Contributes(p) /\ t \in Calls /\ t = ticket[p]
  BY <1>1, <1>2, <1>3
<1>15. /\ buf'[p][t] = IF Kind(t) = "bcast" /\ Root(t) # p THEN {} ELSE {p}
       /\ \A q \in Procs, u \in Calls : q # p \/ u # t => buf'[q][u] = buf[q][u]
  BY <1>14, ContributesIn
<1>16. buf'[p][t] = {p}
  BY <1>3, <1>15
<1>17. \A q \in Procs : ~Serving(q, t)'
  BY <1>3, <1>6, <1>9, NobodyYet DEF DataInv
<1>18. GatheredData(t)'
  BY <1>7, <1>11, <1>12, <1>16, <1>17 DEF GatheredData
<1>19. Kind(t) = "allreduce" => ReducedData(t)'
  BY <1>7, <1>11, <1>12, <1>16, <1>17 DEF ReducedData
<1>20. DataOf(t)'
  BY <1>3, <1>12, <1>13, <1>18, <1>19 DEF DataOf
<1> QED  BY <1>3, <1>6, <1>10, <1>15, <1>20, OpensData

\* What an exchange of p in call t with o does to the buffers.
Exchanged(p, t, o) ==
  /\ o \in Made(t) /\ o \in Procs /\ o # p /\ t \in Calls
  /\ \A q \in Procs, u \in Calls : u # t => buf'[q][u] = buf[q][u]
  /\ Kind(t) = "allgather" =>
       /\ buf'[p][t] = {p} /\ buf'[o][t] = buf[o][t] \cup {p}
       /\ \A q \in Procs : q # p /\ q # o => buf'[q][t] = buf[q][t]
  /\ Kind(t) = "allreduce" =>
       /\ buf'[p][t] = Plus({p}, buf[o][t])
       /\ \A q \in Procs : q # p => buf'[q][t] = buf[q][t]

\* Nobody else's buffer changes, nor any in another call.
LEMMA ExchangedIs ==
  ASSUME CollInv, OpenInv, NEW p \in Procs, Exchanges(p), NEW t, t = ticket[p], NEW o, o = cookie[Partner(p)].owner
  PROVE  Exchanged(p, t, o)
<1>1. Enters(p) /\ ~ComesFirst(p)
  BY ExchangesIs
<1>2. t \in Calls /\ t \in Nat /\ Op(p).kind = Kind(t)
  BY <1>1, LastIs
<1>3. PICK c \in Cookies : c = Partner(p) /\ c \in ToSet(Box(p))
  BY <1>1, PartnerIs
<1>4. cookie[c].call = t /\ ticket[cookie[c].src] > t /\ cookie[c].src \in Procs
  BY <1>1, <1>3, InBoxKnown DEF Known
<1>5. o \in Procs /\ o \in Made(t) /\ o # p
  BY <1>2, <1>3, <1>4 DEF OpenInv, Made
<1>6. buf' = IF Kind(t) = "allgather"
             THEN [[buf EXCEPT ![p][t] = {p}] EXCEPT ![o][t] = @ \cup {p}]
             ELSE [buf EXCEPT ![p][t] = Plus({p}, buf[o][t])]
  BY <1>2, <1>3, <1>4 DEF Exchanges
<1>7. buf \in [Procs -> [Calls -> Data]]
  BY DEF CollInv, TypeOK
<1>8. CASE Kind(t) = "allgather"
  <2>1. PICK b \in [Procs -> [Calls -> Data]] : b = [buf EXCEPT ![p][t] = {p}]
    BY <1>2, <1>7, DataTypes
  <2>2. buf' = [b EXCEPT ![o][t] = b[o][t] \cup {p}]
    BY <1>6, <1>8, <2>1
  <2>3. PICK d : d = b[o][t] \cup {p}
    OBVIOUS
  <2>4. buf' = [b EXCEPT ![o][t] = d]
    BY <2>2, <2>3
  <2>5. b[p][t] = {p} /\ \A q \in Procs, u \in Calls : q # p \/ u # t => b[q][u] = buf[q][u]
    BY <1>2, <1>7, <2>1
  <2>6. buf'[o][t] = d /\ \A q \in Procs, u \in Calls : q # o \/ u # t => buf'[q][u] = b[q][u]
    BY <1>2, <1>5, <2>1, <2>4
  <2> QED  BY <1>2, <1>5, <1>8, <2>3, <2>5, <2>6 DEF Exchanged
<1>9. CASE Kind(t) # "allgather"
  <2>1. PICK d : d = Plus({p}, buf[o][t])
    OBVIOUS
  <2>2. buf' = [buf EXCEPT ![p][t] = d]
    BY <1>6, <1>9, <2>1
  <2>3. buf'[p][t] = d /\ \A q \in Procs, u \in Calls : q # p \/ u # t => buf'[q][u] = buf[q][u]
    BY <1>2, <1>7, <2>2
  <2> QED  BY <1>2, <1>5, <1>9, <2>1, <2>3 DEF Exchanged
<1> QED  BY <1>8, <1>9

\* The partner of an exchange has the data of all that have come.
LEMMA PartnerHas ==
  ASSUME CollInv, DataInv, NEW p \in Procs, Enters(p), ~ComesFirst(p), NEW t, t = ticket[p],
         Kind(t) \in {"allgather", "allreduce"}
  PROVE  buf[cookie[Partner(p)].owner][t] = Made(t)
<1>1. t \in Calls /\ Op(p).kind = Kind(t) /\ Box(p) = slots[t % NSlots].box /\ Gathering(t)
  BY LastIs
<1>2. DataOf(t)
  BY <1>1 DEF DataInv
<1>3. CASE Kind(t) = "allgather"
  <2>1. GatheredData(t) /\ Partner(p) = Head(slots[t % NSlots].box)
    BY <1>1, <1>2, <1>3 DEF DataOf, Partner
  <2> QED  BY <1>1, <2>1 DEF GatheredData
<1>4. CASE Kind(t) = "allreduce"
  <2>1. ReducedData(t) /\ Partner(p) = Last(slots[t % NSlots].box)
    BY <1>1, <1>2, <1>4 DEF DataOf, Partner
  <2> QED  BY <1>1, <1>4, <2>1 DEF ReducedData
<1> QED  BY <1>3, <1>4

\* The buffer of the first one, or that of p, has the data of all that have come.
LEMMA ExchangeMiddleData ==
  ASSUME ScratchApart, CollInv, CountInv, BusyInv, DataInv, NEW p \in Procs, ExchangeMiddle(p)
  PROVE  DataInv'
<1>1. /\ Exchanges(p) /\ ~ComesLast(p) /\ IsExchange(p) /\ program' = program /\ UNCHANGED calls
      /\ Enters(p) /\ ~ComesFirst(p)
  BY ExchangesIs DEF ExchangeMiddle, Exchanges, ComesLater
<1>2. PICK t : t = ticket[p]
  OBVIOUS
<1>3. PICK o : o = cookie[Partner(p)].owner
  OBVIOUS
<1>4. PICK box : box = slots[t % NSlots].box
  OBVIOUS
<1>5. /\ t \in Calls /\ t % NSlots \in Turns /\ p \notin Made(t) /\ Made(t) \cup {p} # Procs
      /\ Box(p) = box /\ box \in Seq(Cookies) /\ box # <<>> /\ Gathering(t) /\ Op(p).kind = Kind(t)
  BY <1>1, <1>2, <1>4, LastIs
<1>6. Kind(t) \in {"allgather", "allreduce"} /\ Kind(t) \notin Rooted /\ Kind(t) \notin Scans
  BY <1>1, <1>5 DEF IsExchange, Rooted, Scans
<1>7. PICK c, num, waits :
        /\ c \in Cookies
        /\ Creates(p, c, num, waits) /\ TakesTurn(p, Append(box, c), FALSE) /\ Holds(p, t, c)
  BY <1>2, <1>5 DEF ExchangeMiddle
<1>8. Opens(p, t)
  BY <1>1, <1>2, ExchangeMiddleKeeps, OpensIs DEF Keeps
<1>9. PICK new \in Seq(Cookies) :
        /\ new = Append(box, c) /\ new # <<>> /\ Head(new) = Head(box) /\ Last(new) = c
        /\ Head(box) \in Cookies /\ InUse(Head(box))
  <2>1. /\ Append(box, c) # <<>> /\ Head(Append(box, c)) = Head(box) /\ Last(Append(box, c)) = c
        /\ Append(box, c) \in Seq(Cookies)
    <3>1. box \in Seq(Cookies) /\ box # <<>> /\ c \in Cookies
      BY <1>5, <1>7
    <3>2. Append(box, c) \in Seq(Cookies)
      BY <3>1
    <3> QED  BY <3>1, <3>2, AppendIs
  <2>2. Head(box) \in Cookies /\ Head(box) \in ToSet(box)
    BY <1>5, TailMembers
  <2>3. \E s \in Turns : Head(box) \in ToSet(slots[s].box)
    <3>1. t % NSlots \in Turns /\ Head(box) \in ToSet(slots[t % NSlots].box)
      BY <1>4, <1>5, <2>2
    <3> QED  BY <3>1
  <2>4. InUse(Head(box))
    BY <2>3, InUseIs
  <2> QED  BY <2>1, <2>2, <2>4
<1>10. Left(p, t, Append(box, c), FALSE)
  <2>1. Enters(p) /\ TakesTurn(p, Append(box, c), FALSE) /\ Append(box, c) \in Seq(Cookies) /\ t = ticket[p]
    BY <1>1, <1>2, <1>7, <1>9
  <2> QED  BY <2>1, TurnScratch
<1>11. pc'[p] = "idle"
  BY <1>1, StaysIdle
<1>12. Properly(p, t)
  BY <1>6, <1>10, <1>11 DEF Properly, Left
<1>13. cookie'[c].src = p /\ cookie'[c].owner = p
  BY <1>1, <1>2, <1>7, PostsIs
<1>14. /\ Made(t)' = Made(t) \cup {p} /\ Made(t)' # Procs /\ Kind(t)' = Kind(t) /\ Root(t)' = Root(t)
       /\ slots'[t % NSlots].box = new
  BY <1>1, <1>5, <1>8, <1>9, <1>10 DEF Opens, Kind, Root, Left
<1>15. DataOf(t) /\ Present(t)
  BY <1>5 DEF DataInv, DataOf
<1>16. Present(t)'
  BY <1>1, <1>2, <1>5, <1>6, <1>7, <1>8, <1>9, <1>13, <1>14, <1>15, PresentPosted
<1>17. /\ o \in Made(t) /\ o \in Procs /\ o # p
       /\ \A q \in Procs, u \in Calls : u # t => buf'[q][u] = buf[q][u]
       /\ Kind(t) = "allgather" =>
            /\ buf'[p][t] = {p} /\ buf'[o][t] = buf[o][t] \cup {p}
            /\ \A q \in Procs : q # p /\ q # o => buf'[q][t] = buf[q][t]
       /\ Kind(t) = "allreduce" =>
            /\ buf'[p][t] = Plus({p}, buf[o][t])
            /\ \A q \in Procs : q # p => buf'[q][t] = buf[q][t]
  <2>1. Exchanged(p, t, o)
    BY <1>1, <1>2, <1>3, ExchangedIs DEF DataInv
  <2> QED  BY <2>1 DEF Exchanged
<1>18. buf[o][t] = Made(t)
  BY <1>1, <1>2, <1>3, <1>6, PartnerHas
<1>19. \A q \in Procs : ~Serving(q, t)'
  BY <1>5, <1>6, <1>8, <1>11, NobodyYet DEF DataInv
<1>20. Kind(t) = "allgather" => GatheredData(t)'
  <2> SUFFICES ASSUME Kind(t) = "allgather"  PROVE GatheredData(t)'
    OBVIOUS
  <2>1. GatheredData(t) /\ Made(t) \subseteq Procs
    BY <1>15 DEF DataOf, Made
  <2>2. \A q \in Made(t)' : buf'[q][t] \subseteq Procs
    <3> SUFFICES ASSUME NEW q \in Made(t)'  PROVE buf'[q][t] \subseteq Procs
      OBVIOUS
    <3>1. q = p \/ q \in Made(t)
      BY <1>14
    <3>2. q \in Made(t) => buf[q][t] \subseteq Procs /\ q \in Procs
      BY <2>1 DEF GatheredData
    <3> QED  BY <1>5, <1>17, <3>1, <3>2
  <2>3. cookie'[Head(new)].owner = o
    <3>1. Partner(p) = Head(box)
      BY <1>5 DEF Partner
    <3> QED  BY <1>3, <1>8, <1>9, <3>1 DEF Opens, SameCookie
  <2> QED  BY <1>14, <1>17, <1>18, <1>19, <2>2, <2>3 DEF GatheredData
<1>21. Kind(t) = "allreduce" => ReducedData(t)'
  <2>1. Plus({p}, Made(t)) = Made(t) \cup {p}
    BY <1>5 DEF Plus
  <2> QED  BY <1>9, <1>13, <1>14, <1>17, <1>18, <1>19, <2>1 DEF ReducedData
<1>22. DataOf(t)'
  BY <1>6, <1>14, <1>16, <1>20, <1>21 DEF DataOf
<1> QED  BY <1>5, <1>8, <1>12, <1>17, <1>22, OpensData

\* The last to come to a call without root has to serve all others.
LEMMA LastTakes ==
  ASSUME CollInv, DataInv, NEW p \in Procs, Enters(p), ComesLast(p), NEW t, t = ticket[p], Opens(p, t),
         Kind(t) \notin Rooted, Serves(p, ticket[p], Box(p)), slots'[t % NSlots].box = <<>>
  PROVE  /\ Made(t)' = Procs /\ ~Gathering(t)' /\ Present(t)'
         /\ \A q \in Procs \ {p} : Owes(p, q, t)'
         /\ pc'[p] = "serve" /\ todo'[p] = Box(p) /\ Rest(p)' = ToSet(Box(p))
         /\ \A q \in Procs : Serving(q, t)' => q = p
<1>1. t \in Calls /\ Made(t) \cup {p} = Procs /\ Box(p) # <<>>
  BY LastIs, JoinedIs
<1>2. Made(t)' = Procs /\ ~Gathering(t)' /\ Present(t)'
  BY <1>1 DEF Opens, Gathering, Present
<1>3. Present(t)
  BY <1>1 DEF DataInv, DataOf
<1>4. /\ \A q \in Made(t) : Owes(p, q, t)'
      /\ todo'[p] = Box(p)
      /\ pc'[p] = "serve"
  BY <1>1, <1>3, TakenOwes DEF DataInv
<1>5. \A q \in Procs : Serving(q, t)' => q = p
  BY <1>1, NobodyServes DEF DataInv
<1>6. Rest(p)' = ToSet(Box(p))
  BY <1>4 DEF Rest
<1> QED  BY <1>1, <1>2, <1>4, <1>5, <1>6

\* It has the data of all now, and p has all others to serve.
LEMMA ExchangeLastData ==
  ASSUME ScratchApart, CollInv, CountInv, BusyInv, DataInv, NEW p \in Procs, ExchangeLast(p)
  PROVE  DataInv'
<1>1. /\ Exchanges(p) /\ ComesLast(p) /\ IsExchange(p) /\ program' = program /\ cookie' = cookie
      /\ Enters(p) /\ ~ComesFirst(p) /\ TakesTurn(p, <<>>, FALSE)
      /\ Holds(p, ticket[p], Partner(p)) /\ Serves(p, ticket[p], Box(p))
  BY ExchangesIs DEF ExchangeLast, Exchanges, ComesLater, Borrows
<1>2. PICK t : t = ticket[p]
  OBVIOUS
<1>3. PICK c \in Cookies : c = Partner(p) /\ c \in ToSet(Box(p))
  BY <1>1, PartnerIs
<1>4. PICK o : o = cookie[c].owner
  OBVIOUS
<1>5. /\ t \in Calls /\ t % NSlots \in Turns /\ p \notin Made(t) /\ Made(t) \cup {p} = Procs /\ Op(p).kind = Kind(t)
  BY <1>1, <1>2, LastIs
<1>6. Kind(t) \in {"allgather", "allreduce"} /\ Kind(t) \notin Rooted /\ Kind(t) \notin Scans
  BY <1>1, <1>5 DEF IsExchange, Rooted, Scans
<1>7. Opens(p, t)
  BY <1>1, <1>2, ExchangeLastKeeps, OpensIs DEF Keeps
<1>8. Left(p, t, <<>>, FALSE)
  <2>1. Enters(p) /\ TakesTurn(p, <<>>, FALSE) /\ <<>> \in Seq(Cookies) /\ t = ticket[p]
    BY <1>1, <1>2, EmptyList
  <2> QED  BY <2>1, TurnScratch
<1>9. /\ Made(t)' = Procs /\ ~Gathering(t)' /\ Present(t)'
      /\ \A q \in Procs \ {p} : Owes(p, q, t)'
      /\ pc'[p] = "serve" /\ todo'[p] = Box(p) /\ Rest(p)' = ToSet(Box(p))
      /\ \A q \in Procs : Serving(q, t)' => q = p
  <2>1. slots'[t % NSlots].box = <<>>
    BY <1>8 DEF Left
  <2> QED  BY <1>1, <1>2, <1>6, <1>7, <2>1, LastTakes
<1>10. Properly(p, t)
  BY <1>5, <1>6, <1>8, <1>9 DEF Properly, Left
<1>11. reqs'[p][t] = c
  BY <1>1, <1>2, <1>3, <1>5, HoldsIs DEF CollInv
<1>12. /\ o \in Made(t) /\ o \in Procs /\ o # p
       /\ \A q \in Procs, u \in Calls : u # t => buf'[q][u] = buf[q][u]
       /\ Kind(t) = "allgather" =>
            /\ buf'[p][t] = {p} /\ buf'[o][t] = buf[o][t] \cup {p}
            /\ \A q \in Procs : q # p /\ q # o => buf'[q][t] = buf[q][t]
       /\ Kind(t) = "allreduce" =>
            /\ buf'[p][t] = Plus({p}, buf[o][t])
            /\ \A q \in Procs : q # p => buf'[q][t] = buf[q][t]
  <2>1. Exchanged(p, t, o)
    BY <1>1, <1>2, <1>3, <1>4, ExchangedIs DEF DataInv
  <2> QED  BY <2>1 DEF Exchanged
<1>13. buf[o][t] = Made(t)
  BY <1>1, <1>2, <1>3, <1>4, <1>6, PartnerHas
<1>14. Kind(t)' = Kind(t) /\ Root(t)' = Root(t)
  BY <1>1 DEF Kind, Root
<1>15. Kind(t) = "allgather" => GatheredData(t)'
  <2> SUFFICES ASSUME Kind(t) = "allgather"  PROVE GatheredData(t)'
    OBVIOUS
  <2>1. GatheredData(t)
    BY <1>5 DEF DataInv, DataOf
  <2>2. \A q \in Made(t)' : buf'[q][t] \subseteq Procs
    <3> SUFFICES ASSUME NEW q \in Made(t)'  PROVE buf'[q][t] \subseteq Procs
      OBVIOUS
    <3>1. q \in Procs /\ (q = p \/ q \in Made(t))
      BY <1>5, <1>9
    <3>2. q \in Made(t) => buf[q][t] \subseteq Procs
      BY <2>1 DEF GatheredData
    <3> QED  BY <1>5, <1>12, <3>1, <3>2
  <2>3. Got(o, t)' /\ cookie'[c].owner = o
    BY <1>1, <1>4, <1>5, <1>12, <1>13 DEF Got
  <2>4. c = Head(Box(p))
    BY <1>3, <1>5 DEF Partner
  <2>5. Serving(p, t)' /\ c \in Rest(p)'
    <3>1. call'[p] = t
      BY <1>7, <1>9 DEF Opens
    <3> QED  BY <1>3, <1>9, <3>1 DEF Serving
  <2>6. \A q \in Procs : \/ Got(q, t)'
                         \/ \E r \in Procs \ {q} : Owes(r, q, t)'
                         \/ Serving(q, t)' /\ reqs'[q][t] \in Rest(q)'
    BY <1>9, <1>11, <2>5
  <2>7. ASSUME NEW q \in Procs, Serving(q, t)'
        PROVE  /\ reqs'[q][t] \in Cookies /\ Got(cookie[reqs[q][t]].owner, t)'
               /\ reqs'[q][t] \in Rest(q)' => IF pc'[q] = "serve" THEN Head(todo'[q]) = reqs'[q][t] ELSE at'[q] = reqs'[q][t]
               /\ reqs'[q][t] \notin Rest(q)' => Got(q, t)'
    <3>1. q = p
      BY <1>9, <2>7
    <3>2. reqs'[q][t] = c /\ cookie'[reqs'[q][t]].owner = o /\ c \in Rest(q)'
      BY <1>11, <2>3, <2>5, <3>1 DEF Rest
    <3>3. buf'[o][t] = Procs
      BY <2>3 DEF Got
    <3>4. pc'[q] = "serve" /\ Head(todo'[q]) = c
      BY <1>9, <2>4, <3>1
    <3> QED  BY <3>2, <3>3, <3>4 DEF Got
  <2> QED  BY <1>9, <2>2, <2>6, <2>7 DEF GatheredData
<1>16. Kind(t) = "allreduce" => ReducedData(t)'
  <2> SUFFICES ASSUME Kind(t) = "allreduce"  PROVE ReducedData(t)'
    OBVIOUS
  <2>1. Plus({p}, Made(t)) = Procs
    BY <1>5 DEF Plus
  <2>2. Got(p, t)'
    BY <1>12, <1>13, <2>1 DEF Got
  <2> QED  BY <1>9, <2>2 DEF ReducedData
<1>17. DataOf(t)'
  BY <1>6, <1>9, <1>14, <1>15, <1>16 DEF DataOf
<1> QED  BY <1>5, <1>7, <1>10, <1>12, <1>17, OpensData

-----------------------------------------------------------------------------
(* MPI_IN_PLACE                                                            *)

\* What p adds up in the slot is the data of all that have come.
LEMMA AddedUp ==
  ASSUME CollInv, DataInv, NEW p \in Procs, Enters(p), NEW t, t = ticket[p], Kind(t) = "inplace"
  PROVE  Added(p) = Made(t) \cup {p}
<1>1. /\ t \in Calls /\ p \notin Made(t) /\ Box(p) = slots[t % NSlots].box
      /\ Slot(p) = slots[t % NSlots]
      /\ ComesFirst(p) => Made(t) = {}
      /\ ~ComesFirst(p) => Gathering(t)
  BY LastIs DEF Slot, Turn
<1>2. ReducedData(t)
  BY <1>1 DEF DataInv, DataOf
<1>3. ~ComesFirst(p) => Slot(p).sendbuf = Made(t)
  BY <1>1, <1>2 DEF ReducedData
<1>4. Plus(Made(t), {p}) = Made(t) \cup {p}
  BY <1>1 DEF Plus
<1> QED  BY <1>1, <1>3, <1>4 DEF Added

\* p leaves box and the sum in the slot of call t.
LeftSum(t, box, sum) ==
  LET new == slots'[t % NSlots]
      old == slots[t % NSlots]
  IN
  new.displs = old.displs /\ new.box = box /\ ~new.locked /\ (new.sendbuf = sum \/ box = <<>>)

\* The slot has the sum of all that have come.
LEMMA InplacePostsData ==
  ASSUME ScratchApart, CollInv, CountInv, BusyInv, DataInv, NEW p \in Procs, InplacePosts(p)
  PROVE  DataInv'
<1>1. /\ Enters(p) /\ ~ComesLast(p) /\ Op(p).kind = "inplace" /\ Contributes(p) /\ program' = program
      /\ UNCHANGED calls
  BY DEF InplacePosts
<1>2. PICK t : t = ticket[p]
  OBVIOUS
<1>3. PICK box : box = slots[t % NSlots].box
  OBVIOUS
<1>4. /\ t \in Calls /\ t % NSlots \in Turns /\ Turn(p) = t % NSlots /\ p \notin Made(t) /\ Made(t) \cup {p} # Procs
      /\ Box(p) = box /\ box \in Seq(Cookies) /\ Kind(t) = "inplace"
  BY <1>1, <1>2, <1>3, LastIs
<1>5. PICK sum \in Data : sum = Added(p)
  BY <1>1, AddedType
<1>6. PICK c \in Cookies :
        /\ Creates(p, c, 1, busy) /\ Holds(p, t, c)
        /\ TakesTurnWith(p, [Turned(p, Append(box, c), FALSE) EXCEPT
             !.sendbuf = sum, !.recvbuf = IF ComesFirst(p) THEN @ ELSE sum])
  BY <1>2, <1>4, <1>5 DEF InplacePosts
<1>7. Opens(p, t)
  BY <1>1, <1>2, InplacePostsKeeps, OpensIs DEF Keeps
<1>8. Append(box, c) \in Seq(Cookies)
  BY <1>4
<1>9. LeftSum(t, Append(box, c), sum)
  <2>1. PICK old \in SlotRecords : old = slots[t % NSlots] /\ old = Slot(p)
    BY <1>4, SlotTypes DEF Slot, CollInv
  <2>2. PICK turned \in SlotRecords :
          turned = Turned(p, Append(box, c), FALSE) /\ turned.box = Append(box, c) /\ turned.locked = FALSE
    BY <1>1, <1>8, TurnedIs
  <2>3. turned.displs = old.displs
    <3>1. turned = [old EXCEPT !.ticket = ticket[p], !.joined = JoinedBy(p), !.box = Append(box, c), !.locked = FALSE]
      BY <2>1, <2>2 DEF Turned
    <3> QED  BY <3>1 DEF SlotRecords
  <2>4. PICK b : b = IF ComesFirst(p) THEN turned.recvbuf ELSE sum
    OBVIOUS
  <2>5. PICK slot : slot = [turned EXCEPT !.sendbuf = sum, !.recvbuf = b]
    OBVIOUS
  <2>6. TakesTurnWith(p, slot)
    BY <1>6, <2>2, <2>4, <2>5
  <2>7. slot.sendbuf = sum /\ slot.displs = turned.displs /\ slot.box = turned.box /\ slot.locked = turned.locked
    BY <2>5 DEF SlotRecords
  <2>8. slots'[t % NSlots] = slot
    BY <1>4, <2>6 DEF TakesTurnWith, CollInv, TypeOK, Turns
  <2> QED  BY <2>1, <2>2, <2>3, <2>7, <2>8 DEF LeftSum
<1>10. pc'[p] = "idle"
  BY <1>1, StaysIdle
<1>11. Properly(p, t)
  BY <1>4, <1>9, <1>10 DEF Properly, LeftSum, Rooted
<1>12. Present(t) /\ Kind(t) \notin Rooted /\ Kind(t) \notin Scans
  BY <1>4 DEF DataInv, DataOf, Rooted, Scans
<1>13. Made(t)' = Made(t) \cup {p} /\ Kind(t)' = Kind(t)
  BY <1>1, <1>7 DEF Opens, Kind
<1>14. Present(t)'
  <2>1. cookie'[c].src = p
    BY <1>1, <1>2, <1>6, PostsIs
  <2>2. slots'[t % NSlots].box = Append(Box(p), c)
    BY <1>4, <1>9 DEF LeftSum
  <2> QED  BY <1>1, <1>2, <1>4, <1>7, <1>12, <2>1, <2>2, PresentPosted
<1>15. Contributes(p) /\ t \in Calls /\ t = ticket[p]
  BY <1>1, <1>2, <1>4
<1>16. /\ buf'[p][t] = IF Kind(t) = "bcast" /\ Root(t) # p THEN {} ELSE {p}
       /\ \A q \in Procs, u \in Calls : q # p \/ u # t => buf'[q][u] = buf[q][u]
  BY <1>15, ContributesIn
<1>17. \A q \in Procs : ~Serving(q, t)'
  BY <1>4, <1>7, <1>10, <1>12, NobodyYet DEF DataInv
<1>18. sum = Made(t) \cup {p}
  BY <1>1, <1>2, <1>4, <1>5, AddedUp
<1>19. ReducedData(t)'
  <2>1. slots'[t % NSlots].sendbuf = Made(t)'
    <3>1. Append(box, c) # <<>>
      BY <1>4, AppendIs
    <3> QED  BY <1>9, <1>13, <1>18, <3>1 DEF LeftSum
  <2> QED  BY <1>4, <1>13, <1>17, <2>1 DEF ReducedData
<1>20. DataOf(t)'
  BY <1>4, <1>12, <1>13, <1>14, <1>19 DEF DataOf
<1> QED  BY <1>4, <1>7, <1>11, <1>16, <1>20, OpensData

\* p has the whole sum, and all others to serve.
LEMMA InplaceLastData ==
  ASSUME ScratchApart, CollInv, CountInv, BusyInv, DataInv, NEW p \in Procs, InplaceLast(p)
  PROVE  DataInv'
<1>1. /\ Enters(p) /\ ComesLast(p) /\ Op(p).kind = "inplace" /\ program' = program
      /\ Serves(p, ticket[p], Box(p))
      /\ TakesTurnWith(p, [Turned(p, <<>>, FALSE) EXCEPT !.recvbuf = Slot(p).sendbuf])
      /\ buf' = [buf EXCEPT ![p][ticket[p]] = Added(p)]
  BY DEF InplaceLast, Borrows
<1>2. PICK t : t = ticket[p]
  OBVIOUS
<1>3. /\ t \in Calls /\ t % NSlots \in Turns /\ Turn(p) = t % NSlots /\ Made(t) \cup {p} = Procs
      /\ Kind(t) = "inplace" /\ Kind(t) \notin Rooted /\ Kind(t) \notin Scans
  BY <1>1, <1>2, LastIs DEF Rooted, Scans
<1>4. Opens(p, t)
  BY <1>1, <1>2, InplaceLastKeeps, OpensIs DEF Keeps
<1>5. LeftSum(t, <<>>, {})
  <2>1. PICK old \in SlotRecords : old = slots[t % NSlots] /\ old = Slot(p)
    BY <1>3, SlotTypes DEF Slot, CollInv
  <2>2. PICK turned \in SlotRecords :
          turned = Turned(p, <<>>, FALSE) /\ turned.box = <<>> /\ turned.locked = FALSE
    BY <1>1, EmptyList, TurnedIs
  <2>3. turned.displs = old.displs
    <3>1. turned = [old EXCEPT !.ticket = ticket[p], !.joined = JoinedBy(p), !.box = <<>>, !.locked = FALSE]
      BY <2>1, <2>2 DEF Turned
    <3> QED  BY <3>1 DEF SlotRecords
  <2>4. PICK slot : slot = [turned EXCEPT !.recvbuf = Slot(p).sendbuf]
    OBVIOUS
  <2>5. TakesTurnWith(p, slot)
    BY <1>1, <2>2, <2>4
  <2>6. slot.displs = turned.displs /\ slot.box = turned.box /\ slot.locked = turned.locked
    BY <2>4 DEF SlotRecords
  <2>7. slots'[t % NSlots] = slot
    BY <1>3, <2>5 DEF TakesTurnWith, CollInv, TypeOK, Turns
  <2> QED  BY <2>1, <2>2, <2>3, <2>6, <2>7 DEF LeftSum
<1>6. /\ Made(t)' = Procs /\ ~Gathering(t)' /\ Present(t)'
      /\ \A q \in Procs \ {p} : Owes(p, q, t)'
      /\ pc'[p] = "serve"
      /\ \A q \in Procs : Serving(q, t)' => q = p
  <2>1. slots'[t % NSlots].box = <<>>
    BY <1>5 DEF LeftSum
  <2> QED  BY <1>1, <1>2, <1>3, <1>4, <2>1, LastTakes
<1>7. Properly(p, t)
  BY <1>3, <1>5, <1>6 DEF Properly, LeftSum
<1>8. buf'[p][t] = Added(p) /\ \A q \in Procs, u \in Calls : q # p \/ u # t => buf'[q][u] = buf[q][u]
  <2>1. PICK sum : sum = Added(p)
    OBVIOUS
  <2>2. buf' = [buf EXCEPT ![p][t] = sum]
    BY <1>1, <1>2, <2>1
  <2> QED  BY <1>3, <2>1, <2>2 DEF CollInv, TypeOK
<1>9. Got(p, t)'
  BY <1>1, <1>2, <1>3, <1>8, AddedUp DEF Got
<1>10. ReducedData(t)'
  BY <1>6, <1>9 DEF ReducedData
<1>11. DataOf(t)'
  BY <1>1, <1>3, <1>6, <1>10 DEF DataOf, Kind
<1> QED  BY <1>3, <1>4, <1>7, <1>8, <1>11, OpensData

-----------------------------------------------------------------------------
(* MPI_Scan and MPI_Exscan                                                 *)

\* A number k with room for i numbers up to it, and for n - i + 1 from it up to n - 1.
LEMMA Squeezed ==
  ASSUME NEW n \in Nat, NEW i \in 1..n, NEW k \in 0..(n - 1),
         NEW low \in Injection(1..i, 0..k), NEW high \in Injection(i..n, k..(n - 1))
  PROVE  k = i - 1
<1>1. i \in Int /\ n \in Int /\ k \in Int /\ 1 <= i /\ i <= n /\ 0 <= k /\ k <= n - 1 /\ 0 \in Int /\ 1 \in Int /\ n - 1 \in Int
  OBVIOUS
<1>2. Cardinality(1..i) <= Cardinality(0..k)
  <2>1. IsFiniteSet(0..k)
    BY <1>1, FS_Interval
  <2> QED  BY <2>1, FS_Injection
<1>3. Cardinality(i..n) <= Cardinality(k..(n - 1))
  <2>1. IsFiniteSet(k..(n - 1))
    BY <1>1, FS_Interval
  <2> QED  BY <2>1, FS_Injection
<1>4. Cardinality(1..i) = i - 1 + 1
  BY <1>1, FS_Interval
<1>5. Cardinality(0..k) = k - 0 + 1
  BY <1>1, FS_Interval
<1>6. Cardinality(i..n) = n - i + 1
  BY <1>1, FS_Interval
<1>7. Cardinality(k..(n - 1)) = n - 1 - k + 1
  BY <1>1, FS_Interval
<1>8. i - 1 + 1 <= k - 0 + 1
  BY <1>2, <1>4, <1>5
<1>9. n - i + 1 <= n - 1 - k + 1
  BY <1>3, <1>6, <1>7
<1> QED  BY <1>1, <1>8, <1>9

\* As many different ranks as there are, in their order, are all the ranks.
LEMMA AllRanks ==
  ASSUME NEW n \in Nat, NEW f \in [1..n -> 0..(n - 1)], \A i, j \in 1..n : i < j => f[i] < f[j],
         NEW i \in 1..n
  PROVE  f[i] = i - 1
<1> DEFINE low  == [k \in 1..i |-> f[k]]
           high == [k \in i..n |-> f[k]]
<1>1. \A k \in 1..n : f[k] \in 0..(n - 1)
  OBVIOUS
<1>2. \A j, k \in 1..n : f[j] = f[k] => j = k
  <2> SUFFICES ASSUME NEW j \in 1..n, NEW k \in 1..n, f[j] = f[k]  PROVE j = k
    OBVIOUS
  <2>1. f[j] \in Int /\ ~(j < k) /\ ~(k < j)
    BY <1>1
  <2> QED  BY <2>1
<1>3. low \in Injection(1..i, 0..f[i])
  <2>1. \A k \in 1..i : f[k] \in 0..f[i]
    <3> SUFFICES ASSUME NEW k \in 1..i  PROVE f[k] \in 0..f[i]
      OBVIOUS
    <3>1. k \in 1..n /\ (k < i \/ k = i)
      OBVIOUS
    <3> QED  BY <1>1, <3>1
  <2>2. low \in [1..i -> 0..f[i]]
    BY <2>1
  <2>3. \A j, k \in 1..i : low[j] = low[k] => j = k
    BY <1>2
  <2> HIDE DEF low
  <2> QED  BY <2>2, <2>3 DEF Injection, IsInjective
<1>4. high \in Injection(i..n, f[i]..(n - 1))
  <2>1. \A k \in i..n : f[k] \in f[i]..(n - 1)
    <3> SUFFICES ASSUME NEW k \in i..n  PROVE f[k] \in f[i]..(n - 1)
      OBVIOUS
    <3>1. k \in 1..n /\ (i < k \/ k = i)
      OBVIOUS
    <3> QED  BY <1>1, <3>1
  <2>2. high \in [i..n -> f[i]..(n - 1)]
    BY <2>1
  <2>3. \A j, k \in i..n : high[j] = high[k] => j = k
    BY <1>2
  <2> HIDE DEF high
  <2> QED  BY <2>2, <2>3 DEF Injection, IsInjective
<1>5. f[i] \in 0..(n - 1)
  BY <1>1
<1> QED  BY <1>3, <1>4, <1>5, Squeezed

\* The last process of a scan serves the cookies of all, that of rank 0 first.
LEMMA ScanOrder ==
  ASSUME NEW list \in Seq(Cookies), RanksRise(list), \A q \in Procs : \E c \in ToSet(list) : cookie'[c].src = q
  PROVE  Len(list) = N /\ \A i \in 1..N : Rank[cookie'[list[i]].src] = i - 1
<1> DEFINE n == Len(list)
           src == [i \in 1..n |-> cookie'[list[i]].src]
           f == [i \in 1..n |-> Rank[cookie'[list[i]].src]]
<1>1. n \in Nat /\ DOMAIN list = 1..n /\ \A i \in 1..n : list[i] \in ToSet(list)
  BY LenProperties, MembersAre DEF ToSet
<1>2. \A i \in 1..n : cookie'[list[i]].src \in Procs /\ Rank[cookie'[list[i]].src] \in 0..(N - 1)
  BY <1>1, RankAssumption DEF RanksRise, N
<1>3. \A i, j \in 1..n : i < j => Rank[cookie'[list[i]].src] < Rank[cookie'[list[j]].src]
  BY <1>1 DEF RanksRise
<1>4. src \in Injection(1..n, Procs)
  <2>1. src \in [1..n -> Procs]
    BY <1>2
  <2>2. ASSUME NEW i \in 1..n, NEW j \in 1..n, src[i] = src[j]  PROVE i = j
    <3>1. Rank[cookie'[list[i]].src] = Rank[cookie'[list[j]].src] /\ Rank[cookie'[list[i]].src] \in Int
      BY <1>2, <2>2
    <3>2. ~(i < j) /\ ~(j < i)
      BY <1>3, <3>1
    <3> QED  BY <1>1, <3>2
  <2> HIDE DEF src
  <2> QED  BY <2>1, <2>2 DEF Injection, IsInjective
<1>5. src \in Surjection(1..n, Procs)
  <2>1. ASSUME NEW q \in Procs  PROVE \E i \in 1..n : src[i] = q
    <3>1. PICK c \in ToSet(list) : cookie'[c].src = q
      OBVIOUS
    <3>2. PICK i \in 1..n : list[i] = c
      BY <1>1, <3>1 DEF ToSet
    <3> QED  BY <3>1, <3>2
  <2>2. src \in [1..n -> Procs]
    BY <1>2
  <2> HIDE DEF src
  <2> QED  BY <2>1, <2>2 DEF Surjection
<1>6. n = N
  <2>1. IsFiniteSet(1..n) /\ Cardinality(1..n) = n
    BY <1>1, FS_Interval
  <2>2. Cardinality(1..n) = Cardinality(Procs)
    <3> HIDE DEF src, n
    <3> QED  BY <1>4, <1>5, ConstantTypes, FS_Injection
  <2> QED  BY <2>1, <2>2 DEF N
<1>7. f \in [1..N -> 0..(N - 1)] /\ \A i, j \in 1..N : i < j => f[i] < f[j]
  BY <1>2, <1>3, <1>6
<1>8. \A i \in 1..N : f[i] = i - 1
  <2> HIDE DEF f
  <2> QED  BY <1>7, ConstantTypes, AllRanks
<1> QED  BY <1>6, <1>8

\* The last one has all to serve, itself among them, in the order of their ranks.
LEMMA ScanPostsData ==
  ASSUME ScratchApart, CollInv, CountInv, BusyInv, DataInv, NEW p \in Procs, ScanPosts(p)
  PROVE  DataInv'
<1> DEFINE num == IF Rank[p] = 0 THEN 1 ELSE 2
<1>1. /\ Enters(p) /\ IsScan(p) /\ Contributes(p) /\ program' = program
  BY DEF ScanPosts
<1>2. PICK t : t = ticket[p]
  OBVIOUS
<1>3. PICK box : box = slots[t % NSlots].box
  OBVIOUS
<1>4. /\ t \in Calls /\ t \in Nat /\ t % NSlots \in Turns /\ Turn(p) = t % NSlots /\ p \notin Made(t)
      /\ Box(p) = box /\ box \in Seq(Cookies) /\ IsInjective(box)
      /\ box = <<>> => Made(t) = {}
      /\ box # <<>> => Gathering(t)
      /\ ComesLast(p) <=> Made(t) \cup {p} = Procs
      /\ Kind(t) \in Scans /\ Kind(t) \notin Rooted /\ Kind(t) \notin {"allgather", "allreduce", "inplace", "bcast"}
  <2>1. /\ t \in Calls /\ t \in Nat /\ t % NSlots \in Turns /\ Turn(p) = t % NSlots /\ p \notin Made(t)
        /\ Box(p) = box /\ box \in Seq(Cookies) /\ IsInjective(box)
        /\ box = <<>> => Made(t) = {}
        /\ box # <<>> => Gathering(t)
        /\ ComesLast(p) <=> Made(t) \cup {p} = Procs
        /\ Kind(t) = Op(p).kind
    BY <1>1, <1>2, <1>3, LastIs
  <2> QED  BY <1>1, <2>1 DEF IsScan, Scans, Rooted
<1>5. PICK c \in Cookies :
        /\ Creates(p, c, num, busy) /\ Holds(p, t, c)
        /\ TakesTurn(p, IF ComesLast(p) THEN <<>> ELSE Append(box, c), FALSE)
        /\ IF ComesLast(p) THEN Serves(p, ticket[p], InOrderOfRank(Append(box, c), cookie'))
                           ELSE UNCHANGED calls
  <2>1. PICK c \in Cookies :
          /\ Creates(p, c, num, busy) /\ Holds(p, ticket[p], c)
          /\ TakesTurn(p, IF ComesLast(p) THEN <<>> ELSE Append(Box(p), c), FALSE)
          /\ IF ComesLast(p) THEN Serves(p, ticket[p], InOrderOfRank(Append(Box(p), c), cookie'))
                             ELSE UNCHANGED <<pc, call, at, todo>>
    BY DEF ScanPosts
  <2>2. UNCHANGED seen
    BY DEF ScanPosts
  <2> QED  BY <1>2, <1>4, <2>1, <2>2 DEF calls
<1>6. Opens(p, t)
  BY <1>1, <1>2, ScanPostsKeeps, OpensIs DEF Keeps
<1>7. DataOf(t) /\ Present(t) /\ ScannedData(t)
  BY <1>4 DEF DataInv, DataOf
<1>8. Made(t)' = Made(t) \cup {p} /\ Kind(t)' = Kind(t) /\ Made(t) \subseteq Procs
  BY <1>1, <1>6 DEF Opens, Kind, Made
<1>9. cookie'[c].src = p /\ cookie'[c].owner = p
  BY <1>1, <1>2, <1>5, PostsIs
<1>10. Contributes(p) /\ t \in Calls /\ t = ticket[p]
  BY <1>1, <1>2, <1>4
<1>11. /\ buf'[p][t] = IF Kind(t) = "bcast" /\ Root(t) # p THEN {} ELSE {p}
       /\ \A q \in Procs, u \in Calls : q # p \/ u # t => buf'[q][u] = buf[q][u]
  BY <1>10, ContributesIn
<1>12. \A q \in Made(t)' : buf'[q][t] = {q}
  <2> SUFFICES ASSUME NEW q \in Made(t)'  PROVE buf'[q][t] = {q}
    OBVIOUS
  <2>1. CASE q = p
    BY <1>4, <1>11, <2>1
  <2>2. CASE q # p
    <3>1. q \in Made(t) /\ q \in Procs
      BY <1>8, <2>2
    <3>2. Made(t) # Procs
      BY <1>4
    <3>3. buf[q][t] = {q}
      BY <1>7, <3>1, <3>2 DEF ScannedData
    <3> QED  BY <1>4, <1>11, <2>2, <3>1, <3>3
  <2> QED  BY <2>1, <2>2
<1>13. PICK mine \in Seq(Cookies) :
         mine = Append(box, c) /\ IsInjective(mine) /\ ToSet(mine) = ToSet(box) \cup {c}
  <2>1. busy \in [Cookies -> Int] /\ num \in Int
    BY DEF CollInv, TypeOK
  <2> HIDE DEF num
  <2>2. Fresh(p, c)
    BY <1>1, <1>5, <2>1, CreatesIs
  <2>3. c \notin ToSet(box)
    BY <1>3, <1>4, <2>2, ContentsAre, PlaceTypes DEF Fresh
  <2>4. /\ Append(box, c) \in Seq(Cookies) /\ IsInjective(Append(box, c))
        /\ ToSet(Append(box, c)) = ToSet(box) \cup {c}
    BY <1>4, <2>3, AppendMembers
  <2> QED  BY <2>4
<1>14. CASE ~ComesLast(p)
  <2>1. Left(p, t, Append(box, c), FALSE)
    <3>1. Enters(p) /\ TakesTurn(p, Append(box, c), FALSE) /\ Append(box, c) \in Seq(Cookies) /\ t = ticket[p]
      BY <1>1, <1>2, <1>5, <1>13, <1>14
    <3> QED  BY <3>1, TurnScratch
  <2>2. pc'[p] = "idle"
    BY <1>1, <1>5, <1>14, StaysIdle
  <2>3. Properly(p, t)
    BY <1>4, <2>1, <2>2 DEF Properly, Left
  <2>4. Present(t)'
    <3>1. slots'[t % NSlots].box = Append(Box(p), c)
      BY <1>4, <2>1 DEF Left
    <3>2. Made(t) \cup {p} # Procs
      BY <1>4, <1>14
    <3> QED  BY <1>1, <1>2, <1>4, <1>6, <1>7, <1>9, <3>1, <3>2, PresentPosted
  <2>5. \A q \in Procs : ~Serving(q, t)'
    BY <1>4, <1>6, <2>2, NobodyYet DEF DataInv
  <2>6. ScannedData(t)'
    <3>1. Made(t)' # Procs
      BY <1>4, <1>8, <1>14
    <3> QED  BY <1>12, <2>5, <3>1 DEF ScannedData
  <2>7. DataOf(t)'
    BY <1>4, <1>8, <2>4, <2>6 DEF DataOf
  <2> QED  BY <1>4, <1>6, <1>11, <2>3, <2>7, OpensData
<1>15. CASE ComesLast(p)
  <2>1. Left(p, t, <<>>, FALSE)
    <3>1. Enters(p) /\ TakesTurn(p, <<>>, FALSE) /\ <<>> \in Seq(Cookies) /\ t = ticket[p]
      BY <1>1, <1>2, <1>5, <1>15, EmptyList
    <3> QED  BY <3>1, TurnScratch
  <2>2. PICK list \in Seq(Cookies) :
          list = InOrderOfRank(mine, cookie') /\ ToSet(list) = ToSet(mine) /\ RanksRise(list)
    <3>1. busy \in [Cookies -> Int] /\ num \in Int
      BY DEF CollInv, TypeOK
    <3> HIDE DEF num
    <3>2. Created(p, {c})
      BY <1>1, <1>5, <3>1, CreatesIs
    <3>3. ToSet(mine) = ToSet(Box(p)) \cup {c}
      BY <1>4, <1>13
    <3>4. /\ InOrderOfRank(mine, cookie') \in Seq(Cookies)
          /\ ToSet(InOrderOfRank(mine, cookie')) = ToSet(mine)
          /\ RanksRise(InOrderOfRank(mine, cookie'))
      BY <1>1, <1>13, <3>2, <3>3, SortedIs
    <3> QED  BY <3>4
  <2>3. todo'[p] = list /\ pc'[p] = "serve" /\ call'[p] = t /\ list # <<>> /\ c \in ToSet(list)
    <3>1. c \in ToSet(list) /\ list # <<>>
      BY <1>13, <2>2, EmptyList
    <3>2. Serves(p, t, list)
      BY <1>2, <1>5, <1>13, <1>15, <2>2
    <3>3. TypeOK
      BY DEF CollInv
    <3>4. todo' = [todo EXCEPT ![p] = list] /\ pc'[p] = "serve" /\ call'[p] = t
      BY <1>4, <3>1, <3>2, <3>3, ServesIs
    <3> QED  BY <3>1, <3>3, <3>4 DEF TypeOK
  <2>4. \A q \in Procs : \E b \in ToSet(list) : cookie'[b].src = q /\ cookie'[b].owner = q
    <3> SUFFICES ASSUME NEW q \in Procs  PROVE \E b \in ToSet(list) : cookie'[b].src = q /\ cookie'[b].owner = q
      OBVIOUS
    <3>1. CASE q = p
      BY <1>9, <2>3, <3>1
    <3>2. CASE q # p
      <4>1. q \in Made(t)
        BY <1>4, <1>15, <3>2
      <4>2. PICK b \in ToSet(box) : cookie[b].src = q
        BY <1>3, <1>4, <1>7, <4>1 DEF Present
      <4>3. b \in Cookies /\ InUse(b) /\ cookie[b].owner = cookie[b].src
        BY <1>3, <1>4, SlotTypes, InUseIs DEF CollInv, DataInv, OpenInv
      <4>4. cookie'[b].src = q /\ cookie'[b].owner = q
        BY <1>6, <4>2, <4>3 DEF Opens, SameCookie
      <4> QED  BY <1>13, <2>2, <4>2, <4>4
    <3> QED  BY <3>1, <3>2
  <2>5. Rest(p)' = ToSet(list) /\ Serving(p, t)'
    BY <2>3 DEF Rest, Serving
  <2>6. \A q \in Procs : Owes(p, q, t)'
    BY <2>4, <2>5 DEF Owes
  <2>7. Len(list) = N /\ \A i \in 1..N : Rank[cookie'[list[i]].src] = i - 1
    BY <2>2, <2>4, ScanOrder
  <2>8. \A q \in Procs : Serving(q, t)' => q = p
    BY <1>4, <1>6, NobodyServes DEF DataInv
  <2>9. Made(t)' = Procs
    BY <1>4, <1>8, <1>15
  <2>10. Properly(p, t)
    BY <1>4, <1>15, <2>1, <2>3 DEF Properly, Left
  <2>11. Present(t)'
    BY <2>1 DEF Present, Gathering, Left
  <2>12. ASSUME NEW q \in Procs, Serving(q, t)'
         PROVE  /\ \A i \in DOMAIN todo'[q] : Rank[cookie'[todo'[q][i]].src] = N - Len(todo'[q]) + i - 1
                /\ pc'[q] = "serve" /\ Reached(q)' = 0
    <3>1. q = p
      BY <2>8, <2>12
    <3>2. DOMAIN list = 1..N /\ N - Len(list) = 0 /\ N \in Nat
      <4>1. DOMAIN list = 1..Len(list)
        BY LenProperties
      <4> QED  BY <2>7, <4>1, ConstantTypes
    <3>3. \A i \in 1..N : N - Len(list) + i - 1 = i - 1
      BY <3>2
    <3>4. \A i \in DOMAIN list : Rank[cookie'[list[i]].src] = N - Len(list) + i - 1
      BY <2>7, <3>2, <3>3
    <3>5. Reached(p)' = 0
      <4>1. Reached(p)' = N - Len(list) - 0
        BY <2>3 DEF Reached
      <4> QED  BY <3>2, <4>1
    <3> QED  BY <2>3, <3>1, <3>4, <3>5 DEF Reached
  <2>13. ScannedData(t)'
    BY <1>12, <2>6, <2>9, <2>12 DEF ScannedData
  <2>14. DataOf(t)'
    BY <1>4, <1>8, <2>11, <2>13 DEF DataOf
  <2> QED  BY <1>4, <1>6, <1>11, <2>10, <2>14, OpensData
<1> QED  BY <1>14, <1>15

-----------------------------------------------------------------------------
(* What a process that moves data leaves as it was                         *)

\* p, which is inside of call t, does the next thing there.
Advances(p, t) ==
  /\ t = call[p] /\ Inside(p) /\ program' = program /\ ticket' = ticket /\ cookie' = cookie
  /\ \A q \in Procs : q # p =>
       pc'[q] = pc[q] /\ call'[q] = call[q] /\ at'[q] = at[q] /\ todo'[q] = todo[q] /\ reqs'[q] = reqs[q]
  /\ pc'[p] \in {"idle", "serve", "deliver", "scan"}
  /\ pc'[p] # "idle" => call'[p] = t
  /\ Kind(t) \in Rooted /\ Root(t) # p /\ pc'[p] # "idle" =>
       pc'[p] = "deliver" /\ todo'[p] = <<>> /\ at'[p] = at[p]
  /\ pc'[p] = "scan" => Kind(t) \in Scans
  /\ \A q \in Procs, u \in Calls : u # t => buf'[q][u] = buf[q][u]
  /\ \A s \in Turns : s # t % NSlots => slots'[s] = slots[s]
  /\ LET new == slots'[t % NSlots]
         old == slots[t % NSlots]
     IN
     /\ new.ticket = old.ticket /\ (old.ticket = t \/ new.box = old.box)
     /\ new.displs = old.displs
     /\ (new.sendbuf = old.sendbuf /\ new.recvbuf = old.recvbuf) \/ Kind(t) \in Scans
     /\ new.locked => old.locked /\ pc[p] # "join"

\* Whom the others serve does not change.
LEMMA AdvancesInside ==
  ASSUME LeafInv, NEW p \in Procs, NEW t \in Calls, Advances(p, t)
  PROVE  /\ Made(t)' = Made(t) /\ Kind(t)' = Kind(t) /\ Root(t)' = Root(t)
         /\ Kind(t) \notin Rooted \/ pc[p] # "join" => Serving(p, t)
         /\ \A q \in Procs : q # p => (Serving(q, t)' <=> Serving(q, t))
         /\ \A q \in Procs : q # p => Rest(q)' = Rest(q) /\ \A r : Owes(q, r, t)' <=> Owes(q, r, t)
<1>1. Kind(t) \notin Rooted \/ pc[p] # "join" => Serving(p, t)
  BY DEF Advances, LeafInv, Inside, Serving
<1>2. \A q \in Procs : q # p => (Serving(q, t)' <=> Serving(q, t)) /\ Rest(q)' = Rest(q)
  BY DEF Advances, Serving, Rest
<1>3. cookie' = cookie
  BY DEF Advances
<1>4. ASSUME NEW q \in Procs, q # p, NEW r  PROVE  Owes(q, r, t)' <=> Owes(q, r, t)
  BY <1>2, <1>3, <1>4 DEF Owes
<1>5. Made(t)' = Made(t) /\ Kind(t)' = Kind(t) /\ Root(t)' = Root(t)
  BY DEF Advances, Made, Kind, Root
<1> QED  BY <1>1, <1>2, <1>4, <1>5

\* p is still inside of the call, or has returned from it.
LEMMA AdvancesOpen ==
  ASSUME OpenInv, LeafInv, NEW p \in Procs, NEW t \in Calls, Advances(p, t)
  PROVE  OpenInv' /\ LeafInv'
<1>1. /\ t = call[p] /\ Inside(p) /\ program' = program /\ ticket' = ticket /\ cookie' = cookie
      /\ \A q \in Procs : q # p =>
           pc'[q] = pc[q] /\ call'[q] = call[q] /\ at'[q] = at[q] /\ todo'[q] = todo[q]
      /\ pc'[p] \in {"idle", "serve", "deliver", "scan"}
      /\ pc'[p] # "idle" => call'[p] = t
  BY DEF Advances
<1>2. \A q \in Procs : Inside(q)' => ticket'[q] = call'[q] + 1
  BY <1>1 DEF Inside, OpenInv
<1>3. \A s \in Turns : slots'[s].locked => \E q \in Procs : pc'[q] = "join" /\ call'[q] % NSlots = s
  <2> SUFFICES ASSUME NEW s \in Turns, slots'[s].locked
               PROVE  \E q \in Procs : pc'[q] = "join" /\ call'[q] % NSlots = s
    OBVIOUS
  <2>1. slots[s].locked /\ (s = t % NSlots => pc[p] # "join")
    BY DEF Advances
  <2>2. PICK q \in Procs : pc[q] = "join" /\ call[q] % NSlots = s
    BY <2>1 DEF OpenInv
  <2> QED  BY <1>1, <2>1, <2>2
<1>4. LeafInv'
  <2> SUFFICES ASSUME NEW q \in Procs, Inside(q)'
               PROVE  /\ pc'[q] = "join" => Kind(call'[q]) \in Rooted /\ Root(call'[q]) # q
                      /\ Kind(call'[q]) \in Rooted /\ Root(call'[q]) # q =>
                           /\ pc'[q] \in {"join", "deliver"} /\ todo'[q] = <<>>
                           /\ cookie'[at'[q]].owner = Root(call'[q])
                      /\ Kind(call'[q]) \notin Scans => pc'[q] # "scan"
    BY <1>1 DEF LeafInv, Kind, Root
  <2>1. CASE q = p
    <3>1. call'[p] = t /\ pc'[p] \in {"serve", "deliver", "scan"}
      BY <1>1, <2>1 DEF Inside
    <3>2. Kind(t) \in Rooted /\ Root(t) # p => cookie[at[p]].owner = Root(t)
      BY <1>1 DEF LeafInv
    <3>3. /\ Kind(t) \in Rooted /\ Root(t) # p => pc'[p] = "deliver" /\ todo'[p] = <<>> /\ at'[p] = at[p]
          /\ pc'[p] = "scan" => Kind(t) \in Scans
      BY <3>1 DEF Advances
    <3> QED  BY <1>1, <2>1, <3>1, <3>2, <3>3
  <2>2. CASE q # p
    <3>1. Inside(q)
      BY <1>1, <2>2 DEF Inside
    <3> QED  BY <1>1, <2>2, <3>1 DEF LeafInv
  <2> QED  BY <2>1, <2>2
<1> QED  BY <1>1, <1>2, <1>3, <1>4 DEF OpenInv

\* Nobody begins to serve.
LEMMA AdvancesServing ==
  ASSUME LeafInv, ServeInv, NEW p \in Procs, NEW t \in Calls, Advances(p, t)
  PROVE  ServeInv'
<1>1. program' = program /\ ticket' = ticket
  BY DEF Advances
<1>2. ASSUME NEW q \in Procs, NEW u \in Calls, Kind(u) \notin Rooted, Serving(q, u)'  PROVE  Serving(q, u)
  <2>1. CASE q = p
    <3>1. u = t
      BY <1>2, <2>1 DEF Advances, Serving
    <3> QED  BY <1>2, <2>1, <3>1, AdvancesInside
  <2>2. CASE q # p
    BY <1>2, <2>2 DEF Advances, Serving
  <2> QED  BY <2>1, <2>2
<1>3. \A u : Made(u)' = Made(u) /\ Kind(u)' = Kind(u)
  BY <1>1 DEF Made, Kind
<1> QED  BY <1>2, <1>3 DEF ServeInv

\* It is enough to show the invariant for the call p is inside of.
LEMMA AdvancesData ==
  ASSUME ScratchApart, CollInv, CountInv, BusyInv, DataInv, NEW p \in Procs, NEW t \in Calls, Advances(p, t),
         DataOf(t)'
  PROVE  DataInv'
<1>1. OnlyCall(p, t)
  <2>1. /\ \A u : Made(u)' = Made(u)
        /\ \A c \in Cookies : SameCookie(c)
        /\ Inside(p)' => call'[p] = t
    BY DEF Advances, Made, SameCookie, Inside
  <2>2. Kind(t) \in Scans => Serving(p, t)
    BY AdvancesInside DEF DataInv, Scans, Rooted
  <2> QED  BY <2>1, <2>2 DEF Advances, OnlyCall
<1>2. \A u \in Calls : DataOf(u)'
  <2>1. ASSUME NEW u \in Calls, u # t  PROVE  DataOf(u)'
    <3>1. Same(u)
      BY <1>1, <2>1, OthersSame
    <3> QED  BY <3>1, SameData DEF DataInv
  <2> QED  BY <2>1
<1>3. OpenInv' /\ LeafInv' /\ ServeInv'
  BY AdvancesOpen, AdvancesServing DEF DataInv
<1>4. program' \in Programs
  BY DEF Advances, DataInv
<1> QED  BY <1>2, <1>3, <1>4 DEF DataInv

\* Those that have come stay in the slot, or leave it together.
LEMMA PresentStays ==
  ASSUME NEW p \in Procs, NEW t \in Calls, Advances(p, t), Present(t),
         slots'[t % NSlots].box \in {slots[t % NSlots].box, <<>>}
  PROVE  /\ Present(t)'
         /\ Gathering(t)' => Gathering(t) /\ slots'[t % NSlots].box = slots[t % NSlots].box
<1>1. /\ Made(t)' = Made(t) /\ Kind(t)' = Kind(t) /\ Root(t)' = Root(t) /\ cookie' = cookie
      /\ slots'[t % NSlots].ticket = slots[t % NSlots].ticket
  BY DEF Advances, Made, Kind, Root
<1>2. Gathering(t)' => Gathering(t) /\ slots'[t % NSlots].box = slots[t % NSlots].box
  BY <1>1 DEF Gathering
<1>3. Present(t)'
  BY <1>1, <1>2 DEF Present
<1> QED  BY <1>2, <1>3

\* The transfers p still has to make for call t become no fewer, and the buffers are as they were.
LEMMA RootedStays ==
  ASSUME NEW p \in Procs, NEW t \in Calls, Advances(p, t), Kind(t) \in Rooted, Root(t) \in Procs, RootedData(t),
         \A q \in Procs : buf'[q][t] = buf[q][t],
         pc[p] \in {"join", "deliver"} => pc'[p] = "deliver",
         \A q \in Procs : Owes(p, q, t) => Owes(p, q, t)',
         \A q \in Procs : q # p => \A r : Owes(q, r, t)' <=> Owes(q, r, t)
  PROVE  RootedData(t)'
<1>1. /\ Made(t)' = Made(t) /\ Kind(t)' = Kind(t) /\ Root(t)' = Root(t)
      /\ slots'[t % NSlots].displs = slots[t % NSlots].displs
      /\ \A q \in Procs : q # p => pc'[q] = pc[q] /\ call'[q] = call[q]
      /\ call[p] = t /\ (pc'[p] # "idle" => call'[p] = t)
  BY DEF Advances, Made, Kind, Root
<1>2. ASSUME NEW q \in Procs, ToCome(q, t)  PROVE ToCome(q, t)'
  <2>1. CASE {q, Root(t)} \ Made(t) # {}
    BY <1>1, <2>1 DEF ToCome
  <2>2. CASE pc[q] \in {"join", "deliver"} /\ call[q] = t
    BY <1>1, <2>2 DEF ToCome
  <2>3. CASE Owes(Root(t), q, t)
    <3>1. PICK r \in Procs : r = Root(t)
      OBVIOUS
    <3>2. Owes(r, q, t)'
      BY <2>3, <3>1
    <3>3. Owes(Root(t), q, t)'
      BY <1>1, <3>1, <3>2 DEF Owes, Serving, Rest
    <3> QED  BY <3>3 DEF ToCome
  <2> QED  BY <1>2, <2>1, <2>2, <2>3 DEF ToCome
<1>3. Made(t) \subseteq Procs
  BY DEF Made
<1> QED  BY <1>1, <1>2, <1>3 DEF RootedData

\* p takes the next cookie in hand.
LEMMA ServeData ==
  ASSUME ScratchApart, CollInv, CountInv, BusyInv, DataInv, NEW p \in Procs, Serve(p)
  PROVE  DataInv'
<1>1. /\ pc[p] = "serve" /\ Goes(p, "deliver", call[p], Head(todo[p]), Tail(todo[p]))
      /\ program' = program /\ slots' = slots /\ cookie' = cookie /\ ticket' = ticket /\ reqs' = reqs /\ buf' = buf
  BY DEF Serve, cookies
<1>2. /\ TypeOK /\ todo[p] # <<>> /\ todo[p] \in Seq(Cookies) /\ call[p] \in Calls
  BY <1>1 DEF CollInv, CallInv, TypeOK
<1>3. PICK t \in Calls : t = call[p]
  BY <1>2
<1>4. PICK c \in Cookies : c = Head(todo[p])
  BY <1>2, TailMembers
<1>5. /\ pc'[p] = "deliver" /\ call'[p] = t /\ at'[p] = c /\ todo'[p] = Tail(todo[p])
      /\ \A q \in Procs : q # p =>
           pc'[q] = pc[q] /\ call'[q] = call[q] /\ at'[q] = at[q] /\ todo'[q] = todo[q]
  <2>1. /\ pc' = [pc EXCEPT ![p] = "deliver"] /\ call' = [call EXCEPT ![p] = t]
        /\ at' = [at EXCEPT ![p] = c] /\ todo' = [todo EXCEPT ![p] = Tail(todo[p])]
    BY <1>1, <1>3, <1>4 DEF Goes
  <2> QED  BY <1>2, <2>1 DEF TypeOK
<1>6. ~(Kind(t) \in Rooted /\ Root(t) # p)
  BY <1>1, <1>3 DEF DataInv, LeafInv, Inside
<1>7. Advances(p, t)
  BY <1>1, <1>3, <1>5, <1>6 DEF Advances, Inside
<1>8. ToSet(todo[p]) = ToSet(Tail(todo[p])) \cup {c}
  BY <1>2, <1>4, TailMembers
<1>9. Rest(p)' = Rest(p) /\ Serving(p, t) /\ Serving(p, t)'
  BY <1>1, <1>3, <1>5, <1>8 DEF Rest, Serving
<1>10. /\ \A q \in Procs : Serving(q, t)' <=> Serving(q, t)
       /\ \A q \in Procs : Rest(q)' = Rest(q)
       /\ \A q \in Procs : \A r : Owes(q, r, t)' <=> Owes(q, r, t)
  <2>1. /\ \A q \in Procs : q # p => (Serving(q, t)' <=> Serving(q, t))
        /\ \A q \in Procs : q # p => Rest(q)' = Rest(q) /\ \A r : Owes(q, r, t)' <=> Owes(q, r, t)
    BY <1>7, AdvancesInside DEF DataInv
  <2>2. \A r : Owes(p, r, t)' <=> Owes(p, r, t)
    BY <1>1, <1>9 DEF Owes
  <2> QED  BY <1>9, <2>1, <2>2
<1>11. DataOf(t)
  BY DEF DataInv
<1>12. Made(t)' = Made(t) /\ Kind(t)' = Kind(t) /\ Root(t)' = Root(t)
  BY <1>1 DEF Made, Kind, Root
<1>13. Present(t)' /\ (Gathering(t)' => Gathering(t))
  <2>1. Present(t) /\ slots'[t % NSlots].box \in {slots[t % NSlots].box, <<>>}
    BY <1>1, <1>11 DEF DataOf
  <2> QED  BY <1>7, <2>1, PresentStays
<1>14. Kind(t) \in Rooted => RootedData(t)'
  <2> SUFFICES ASSUME Kind(t) \in Rooted  PROVE RootedData(t)'
    OBVIOUS
  <2>1. RootedData(t) /\ Root(t) \in Procs
    BY <1>2, <1>11, KindsAre DEF DataOf
  <2>2. \A q \in Procs : buf'[q][t] = buf[q][t]
    BY <1>1
  <2> QED  BY <1>1, <1>7, <1>10, <2>1, <2>2, RootedStays
<1>15. Kind(t) = "allgather" => GatheredData(t)'
  <2> SUFFICES ASSUME Kind(t) = "allgather"  PROVE GatheredData(t)'
    OBVIOUS
  <2>1. GatheredData(t)
    BY <1>11 DEF DataOf
  <2>2. \A q : Got(q, t)' <=> Got(q, t)
    BY <1>1 DEF Got
  <2>3. ASSUME NEW q \in Procs, Serving(q, t)'
        PROVE  /\ reqs'[q][t] \in Cookies /\ Got(cookie[reqs[q][t]].owner, t)'
               /\ reqs'[q][t] \in Rest(q)' => IF pc'[q] = "serve" THEN Head(todo'[q]) = reqs'[q][t] ELSE at'[q] = reqs'[q][t]
               /\ reqs'[q][t] \notin Rest(q)' => Got(q, t)'
    <3>1. Serving(q, t) /\ Rest(q)' = Rest(q) /\ reqs'[q][t] = reqs[q][t]
      BY <1>1, <1>10, <2>3
    <3>2. reqs[q][t] \in Cookies /\ Got(cookie[reqs[q][t]].owner, t)' /\ (reqs[q][t] \notin Rest(q) => Got(q, t)')
      BY <1>1, <2>1, <3>1 DEF GatheredData, Got
    <3>3. reqs[q][t] \in Rest(q) => IF pc'[q] = "serve" THEN Head(todo'[q]) = reqs[q][t] ELSE at'[q] = reqs[q][t]
      <4>1. CASE q = p
        BY <1>1, <1>4, <1>5, <2>1, <3>1, <4>1 DEF GatheredData
      <4>2. CASE q # p
        BY <1>5, <2>1, <3>1, <4>2 DEF GatheredData
      <4> QED  BY <4>1, <4>2
    <3> QED  BY <3>1, <3>2, <3>3
  <2>4. /\ \A q \in Made(t)' : buf'[q][t] \subseteq Procs
        /\ Gathering(t)' => buf'[cookie'[Head(slots'[t % NSlots].box)].owner][t] = Made(t)'
    BY <1>1, <1>12, <1>13, <2>1 DEF GatheredData
  <2>5. Made(t)' = Procs => \A q \in Procs :
          Got(q, t)' \/ (\E r \in Procs \ {q} : Owes(r, q, t)') \/ (Serving(q, t)' /\ reqs'[q][t] \in Rest(q)')
    <3> SUFFICES ASSUME Made(t) = Procs, NEW q \in Procs
                 PROVE Got(q, t)' \/ (\E r \in Procs \ {q} : Owes(r, q, t)') \/ (Serving(q, t)' /\ reqs'[q][t] \in Rest(q)')
      BY <1>12
    <3>1. Got(q, t) \/ (\E r \in Procs \ {q} : Owes(r, q, t)) \/ (Serving(q, t) /\ reqs[q][t] \in Rest(q))
      BY <2>1 DEF GatheredData
    <3> QED  BY <1>1, <1>10, <2>2, <3>1
  <2> QED  BY <2>3, <2>4, <2>5 DEF GatheredData
<1>16. Kind(t) \in {"allreduce", "inplace"} => ReducedData(t)'
  <2> SUFFICES ASSUME Kind(t) \in {"allreduce", "inplace"}  PROVE ReducedData(t)'
    OBVIOUS
  <2>1. ReducedData(t)
    BY <1>11 DEF DataOf
  <2>2. \A q : Got(q, t)' <=> Got(q, t)
    BY <1>1 DEF Got
  <2>3. Gathering(t)' => IF Kind(t)' = "inplace" THEN slots'[t % NSlots].sendbuf = Made(t)'
                         ELSE buf'[cookie'[Last(slots'[t % NSlots].box)].owner][t] = Made(t)'
    BY <1>1, <1>12, <1>13, <2>1 DEF ReducedData
  <2>4. Made(t)' = Procs => \A q \in Procs : Got(q, t)' \/ \E r \in Procs \ {q} : Owes(r, q, t)'
    BY <1>10, <1>12, <2>1, <2>2 DEF ReducedData
  <2> QED  BY <1>10, <2>1, <2>2, <2>3, <2>4 DEF ReducedData
<1>17. Kind(t) \in Scans => ScannedData(t)'
  <2> SUFFICES ASSUME Kind(t) \in Scans  PROVE ScannedData(t)'
    OBVIOUS
  <2>1. ScannedData(t)
    BY <1>11 DEF DataOf
  <2>2. /\ Len(Tail(todo[p])) = Len(todo[p]) - 1 /\ Len(todo[p]) \in Nat /\ Len(todo[p]) > 0 /\ N \in Nat
        /\ \A i \in DOMAIN Tail(todo[p]) : i \in Nat /\ i + 1 \in DOMAIN todo[p] /\ Tail(todo[p])[i] = todo[p][i + 1]
        /\ 1 \in DOMAIN todo[p] /\ todo[p][1] = c
    <3>1. N \in Nat
      BY ConstantTypes
    <3> QED  BY <1>2, <1>4, <3>1
  <2>3. Reached(p)' = Reached(p) /\ Reached(p) = N - Len(todo[p])
    <3>1. Reached(p)' = N - Len(Tail(todo[p])) - 1
      BY <1>5 DEF Reached
    <3>2. Reached(p) = N - Len(todo[p]) - 0
      BY <1>1 DEF Reached
    <3>3. PICK k \in Nat : k = Len(todo[p])
      BY <2>2
    <3>4. PICK m : m = Len(Tail(todo[p]))
      OBVIOUS
    <3>5. m = k - 1
      BY <2>2, <3>3, <3>4
    <3>6. N \in Nat
      BY <2>2
    <3>7. N - m - 1 = N - k /\ N - k - 0 = N - k
      BY <3>5, <3>6
    <3> QED  BY <3>1, <3>2, <3>3, <3>4, <3>7
  <2>4. \A i \in DOMAIN todo[p] : Rank[cookie[todo[p][i]].src] = N - Len(todo[p]) + i - 1
    BY <1>9, <2>1 DEF ScannedData
  <2>5. \A i \in DOMAIN Tail(todo[p]) : Rank[cookie[Tail(todo[p])[i]].src] = N - Len(Tail(todo[p])) + i - 1
    <3> SUFFICES ASSUME NEW i \in DOMAIN Tail(todo[p])
                 PROVE Rank[cookie[Tail(todo[p])[i]].src] = N - Len(Tail(todo[p])) + i - 1
      OBVIOUS
    <3>1. Rank[cookie[todo[p][i + 1]].src] = N - Len(todo[p]) + (i + 1) - 1
      BY <2>2, <2>4
    <3>2. N - Len(todo[p]) + (i + 1) - 1 = N - Len(Tail(todo[p])) + i - 1
      BY <2>2
    <3> QED  BY <2>2, <3>1, <3>2
  <2>6. Rank[cookie[c].src] = N - Len(todo[p])
    <3>1. Rank[cookie[c].src] = N - Len(todo[p]) + 1 - 1
      BY <2>2, <2>4
    <3> QED  BY <2>2, <3>1
  <2>7. ASSUME NEW q \in Procs, Serving(q, t)'
        PROVE  /\ \A i \in DOMAIN todo'[q] : Rank[cookie'[todo'[q][i]].src] = N - Len(todo'[q]) + i - 1
               /\ pc'[q] # "serve" => Rank[cookie'[at'[q]].src] = Reached(q)'
               /\ Reached(q)' > 0 => slots'[t % NSlots].sendbuf = Below(Reached(q)')
               /\ pc'[q] = "scan" => Reached(q)' > 0 /\ slots'[t % NSlots].recvbuf = {cookie'[at'[q]].owner}
    <3>1. CASE q = p
      <4>1. Reached(p) > 0 => slots[t % NSlots].sendbuf = Below(Reached(p))
        BY <1>9, <2>1 DEF ScannedData
      <4> QED  BY <1>1, <1>5, <2>3, <2>5, <2>6, <3>1, <4>1 DEF Reached
    <3>2. CASE q # p
      <4>1. Serving(q, t)
        BY <1>10, <2>7
      <4>2. pc'[q] = pc[q] /\ at'[q] = at[q] /\ todo'[q] = todo[q] /\ Reached(q)' = Reached(q)
        BY <1>5, <3>2 DEF Reached
      <4> QED  BY <1>1, <2>1, <4>1, <4>2 DEF ScannedData
    <3> QED  BY <3>1, <3>2
  <2>8. /\ \A q \in Made(t)' : (Made(t)' # Procs \/ \E r \in Procs : Owes(r, q, t)') => buf'[q][t] = {q}
        /\ Made(t)' = Procs => \A q \in Procs :
             \/ \E r \in Procs : Owes(r, q, t)'
             \/ Kind(t)' = "scan" /\ buf'[q][t] = Below(Rank[q] + 1)
             \/ Kind(t)' = "exscan" /\ (Rank[q] > 0 => buf'[q][t] = Below(Rank[q]))
    BY <1>1, <1>10, <1>12, <2>1 DEF ScannedData
  <2> QED  BY <2>7, <2>8 DEF ScannedData, Below
<1>18. DataOf(t)'
  BY <1>12, <1>13, <1>14, <1>15, <1>16, <1>17 DEF DataOf
<1> QED  BY <1>7, <1>18, AdvancesData

-----------------------------------------------------------------------------
(* Moving the data                                                         *)

\* p has in hand the cookie c of o for call t.
Handles(p, t, c, o) ==
  /\ c \in Cookies /\ c = at[p] /\ o \in Procs /\ o = cookie[c].owner /\ t \in Calls /\ t = call[p]
  /\ cookie[c].call = t /\ reqs[o][t] = c
  /\ p \in Made(t) /\ o \in Made(t) /\ Serving(p, t) /\ Inside(p)
  /\ c \notin ToSet(todo[p]) /\ Rest(p) = ToSet(todo[p]) \cup {c}
  /\ \A b \in ToSet(todo[p]) : cookie[b].owner # o

\* Each process that moves data has.
LEMMA HandlesIs ==
  ASSUME CollInv, BusyInv, NEW p \in Procs, pc[p] \in {"deliver", "scan"}
  PROVE  Handles(p, call[p], at[p], cookie[at[p]].owner)
<1>1. /\ TypeOK /\ at[p] \in Cookies /\ cookie[at[p]].owner \in Procs /\ call[p] \in Calls /\ call[p] < ticket[p]
  BY WorksOn
<1>2. PICK c \in Cookies, o \in Procs, t \in Calls : c = at[p] /\ o = cookie[c].owner /\ t = call[p]
  BY <1>1
<1>3. pc[p] \in Moving
  BY DEF Moving
<1>4. InUse(c) /\ busy[c] > 0 /\ cookie[c].call = t
  BY <1>2, <1>3, MoversPlaced, MoverBusy DEF BusyInv, MoverInv
<1>5. reqs[o][t] = c
  BY <1>2, <1>4 DEF BusyInv, OwnerInv
<1>6. p \in Made(t) /\ o \in Made(t)
  <2>1. c # NoCookie /\ t \in Nat /\ ticket[p] \in Nat /\ ticket[o] \in Nat
    BY <1>1, ConstantTypes, CallsAre, TicketType
  <2>2. t < ticket[o] /\ t < ticket[p]
    BY <1>1, <1>2, <1>5, <2>1 DEF CollInv, CallInv
  <2> QED  BY <2>1, <2>2 DEF Made
<1>7. Rest(p) = ToSet(todo[p]) \cup {c}
  BY <1>2 DEF Rest
<1>8. c \notin ToSet(todo[p])
  BY <1>2, <1>3, Unmoved DEF Movers, Moving
<1>9. \A b \in ToSet(todo[p]) : cookie[b].owner # o
  <2> SUFFICES ASSUME NEW b \in ToSet(todo[p]), cookie[b].owner = o  PROVE FALSE
    OBVIOUS
  <2>1. b \in Cookies /\ InUse(b) /\ busy[b] > 0 /\ cookie[b].call = t
    BY <1>2, <1>7, RestBusy
  <2>2. reqs[o][t] = b
    BY <2>1 DEF BusyInv, OwnerInv
  <2> QED  BY <1>5, <1>8, <2>2
<1>10. Serving(p, t) /\ Inside(p)
  BY <1>2 DEF Serving, Inside
<1> QED  BY <1>2, <1>4, <1>5, <1>6, <1>7, <1>8, <1>9, <1>10 DEF Handles

\* p is done with the cookie, and goes on to those left.
Finishes(p, t, o) ==
  /\ todo'[p] = todo[p]
  /\ pc'[p] = (IF todo[p] = <<>> THEN "idle" ELSE "serve")
  /\ pc'[p] # "idle" => call'[p] = t
  /\ \A q \in Procs : q # p =>
       pc'[q] = pc[q] /\ call'[q] = call[q] /\ at'[q] = at[q] /\ todo'[q] = todo[q]
  /\ Rest(p)' = ToSet(todo[p])
  /\ \A q \in Procs : q # p => (Serving(q, t)' <=> Serving(q, t)) /\ Rest(q)' = Rest(q)
  /\ \A r \in Procs : Owes(p, r, t)' <=> Owes(p, r, t) /\ r # o
  /\ \A q, r \in Procs : q # p => (Owes(q, r, t)' <=> Owes(q, r, t))
  /\ \A q, r \in Procs : Owes(q, r, t) => Owes(q, r, t)' \/ (q = p /\ r = o)

\* cookie::notify_done, and what p does then.
LEMMA FinishesIs ==
  ASSUME CollInv, BusyInv, NEW p \in Procs, NEW t, NEW c, NEW o, Handles(p, t, c, o),
         Serves(p, call[p], todo[p]), cookie' = cookie
  PROVE  Finishes(p, t, o)
<1>1. /\ c \in Cookies /\ c = at[p] /\ o \in Procs /\ o = cookie[c].owner /\ t \in Calls /\ t = call[p]
      /\ Serving(p, t) /\ c \notin ToSet(todo[p]) /\ Rest(p) = ToSet(todo[p]) \cup {c}
      /\ \A b \in ToSet(todo[p]) : cookie[b].owner # o
  BY DEF Handles
<1>2. /\ TypeOK /\ t \in Nat /\ todo[p] \in Seq(Cookies)
  BY <1>1, CallsAre DEF CollInv, TypeOK
<1>3. Serves(p, t, todo[p])
  BY <1>1
<1>4. /\ todo' = [todo EXCEPT ![p] = todo[p]]
      /\ \A q \in Procs : q # p => pc'[q] = pc[q] /\ call'[q] = call[q] /\ at'[q] = at[q]
      /\ at'[p] = NoCookie
      /\ \/ pc'[p] = "idle" /\ todo[p] = <<>>
         \/ pc'[p] = "serve" /\ call'[p] = t /\ todo[p] # <<>>
  BY <1>2, <1>3, ServesIs
<1>5. todo'[p] = todo[p] /\ \A q \in Procs : q # p => todo'[q] = todo[q]
  BY <1>2, <1>4 DEF TypeOK
<1>6. pc'[p] = (IF todo[p] = <<>> THEN "idle" ELSE "serve") /\ (pc'[p] # "idle" => call'[p] = t)
  BY <1>4
<1>7. Rest(p)' = ToSet(todo[p])
  BY <1>5, <1>6 DEF Rest
<1>8. \A q \in Procs : q # p => (Serving(q, t)' <=> Serving(q, t)) /\ Rest(q)' = Rest(q)
  BY <1>4, <1>5 DEF Serving, Rest
<1>9. ASSUME NEW r \in Procs  PROVE Owes(p, r, t)' <=> Owes(p, r, t) /\ r # o
  <2>1. ASSUME Owes(p, r, t)'  PROVE Owes(p, r, t) /\ r # o
    <3>1. PICK b \in ToSet(todo[p]) : cookie[b].owner = r
      BY <1>7, <2>1 DEF Owes
    <3> QED  BY <1>1, <3>1 DEF Owes
  <2>2. ASSUME Owes(p, r, t), r # o  PROVE Owes(p, r, t)'
    <3>1. PICK b \in ToSet(todo[p]) : cookie[b].owner = r
      BY <1>1, <2>2 DEF Owes
    <3>2. todo[p] # <<>>
      BY <3>1, EmptyList
    <3>3. Serving(p, t)'
      BY <1>6, <3>2 DEF Serving
    <3> QED  BY <1>7, <3>1, <3>3 DEF Owes
  <2> QED  BY <2>1, <2>2
<1>10. \A q, r \in Procs : q # p => (Owes(q, r, t)' <=> Owes(q, r, t))
  BY <1>8 DEF Owes
<1>11. \A q, r \in Procs : Owes(q, r, t) => Owes(q, r, t)' \/ (q = p /\ r = o)
  BY <1>9, <1>10
<1> QED  BY <1>4, <1>5, <1>6, <1>7, <1>8, <1>9, <1>10, <1>11 DEF Finishes

\* The data of x for call t becomes data, and nothing else does.
Gets(x, t, data) ==
  /\ buf'[x][t] = data
  /\ \A q \in Procs, u \in Calls : q # x \/ u # t => buf'[q][u] = buf[q][u]

\* What cookie::read_from_owner and cookie::write_to_owner move, and whose buffer gets it.
LEMMA MovedIs ==
  ASSUME CollInv, NEW p \in Procs, NEW t, NEW c, NEW o, Handles(p, t, c, o), buf' = Moved(p)
  PROVE  /\ Reads(p) => Gets(p, t, buf[p][t] \cup buf[o][t])
         /\ ~Reads(p) /\ Kind(t) \in {"allreduce", "inplace"} => Gets(o, t, buf[p][t])
         /\ ~Reads(p) /\ Kind(t) \notin {"allreduce", "inplace"} /\ (Kind(t) = "gatherv" => slots[t % NSlots].displs = t) =>
              Gets(o, t, buf[o][t] \cup buf[p][t])
         /\ Reads(p) <=> \/ Kind(t) = "bcast" /\ Root(t) # p
                         \/ Kind(t) \in {"gather", "gatherv"} /\ Root(t) = p
                         \/ Kind(t) = "allgather" /\ reqs[p][t] = c
<1>1. /\ c = at[p] /\ o \in Procs /\ o = cookie[c].owner /\ t \in Calls /\ t = call[p] /\ cookie[c].call = t
  BY DEF Handles
<1>2. buf \in [Procs -> [Calls -> Data]]
  BY DEF CollInv, TypeOK
<1>3. Reads(p) <=> \/ Kind(t) = "bcast" /\ Root(t) # p
                   \/ Kind(t) \in {"gather", "gatherv"} /\ Root(t) = p
                   \/ Kind(t) = "allgather" /\ reqs[p][t] = c
  BY <1>1 DEF Reads, Kind, Root
<1>4. ASSUME NEW x \in Procs, NEW data, buf' = [buf EXCEPT ![x][t] = data]  PROVE Gets(x, t, data)
  <2>1. buf'[x][t] = data
    BY <1>1, <1>2, <1>4
  <2>2. \A q \in Procs, u \in Calls : q # x \/ u # t => buf'[q][u] = buf[q][u]
    BY <1>1, <1>2, <1>4
  <2> QED  BY <2>1, <2>2 DEF Gets
<1>5. Aimed(p) <=> (Kind(t) = "gatherv" => slots[t % NSlots].displs = t)
  BY <1>1 DEF Aimed, Kind
<1>6. /\ Reads(p) => buf' = [buf EXCEPT ![p][t] = buf[p][t] \cup buf[o][t]]
      /\ ~Reads(p) /\ Kind(t) \in {"allreduce", "inplace"} => buf' = [buf EXCEPT ![o][t] = buf[p][t]]
      /\ ~Reads(p) /\ Kind(t) \notin {"allreduce", "inplace"} /\ Aimed(p) =>
           buf' = [buf EXCEPT ![o][t] = buf[o][t] \cup buf[p][t]]
  BY <1>1, <1>2 DEF Moved, Kind
<1> QED  BY <1>1, <1>3, <1>4, <1>5, <1>6

\* p has moved the data of a call that is not a scan.
Delivers(p, t, c, o) ==
  /\ Handles(p, t, c, o) /\ Finishes(p, t, o) /\ Advances(p, t) /\ buf' = Moved(p)
  /\ pc[p] = "deliver" /\ slots' = slots /\ cookie' = cookie /\ reqs' = reqs

\* Of a call with a root, this was the transfer of one process, and the others are to come.
LEMMA DeliversRooted ==
  ASSUME CollInv, LeafInv, NEW p \in Procs, NEW t \in Calls, NEW c, NEW o, Delivers(p, t, c, o),
         Kind(t) \in Rooted, RootedData(t)
  PROVE  RootedData(t)'
<1>1. /\ Handles(p, t, c, o) /\ Finishes(p, t, o) /\ buf' = Moved(p) /\ pc[p] = "deliver" /\ slots' = slots
      /\ Made(t)' = Made(t) /\ Kind(t)' = Kind(t) /\ Root(t)' = Root(t)
  BY AdvancesInside DEF Delivers
<1>2. o \in Procs /\ p \in Made(t) /\ o \in Made(t) /\ t = call[p] /\ o = cookie[at[p]].owner /\ Inside(p)
  BY <1>1 DEF Handles
<1>3. Root(t) \in Procs /\ Kind(t) \in {"bcast", "gather", "gatherv"} /\ Kind(t) \notin {"allreduce", "inplace", "allgather"}
  BY KindsAre DEF CollInv, Rooted
<1>4. PICK r \in Procs : r = Root(t)
  BY <1>3
<1>5. /\ \A q \in Made(t) : buf[q][t] \subseteq Procs /\ ((Kind(t) = "bcast" /\ q # r) \/ q \in buf[q][t])
      /\ \A q \in Procs \ {r} : ToCome(q, t) \/ (IF Kind(t) = "bcast" THEN r \in buf[q][t] ELSE q \in buf[r][t])
      /\ Kind(t) = "gatherv" /\ r \in Made(t) => slots[t % NSlots].displs = t
  BY <1>4 DEF RootedData
<1>6. r # p => o = r /\ todo[p] = <<>>
  BY <1>2, <1>3, <1>4 DEF LeafInv
<1>7. r \in Made(t)
  BY <1>2, <1>6
<1>8. /\ Reads(p) => Gets(p, t, buf[p][t] \cup buf[o][t])
      /\ ~Reads(p) => Gets(o, t, buf[o][t] \cup buf[p][t])
      /\ Reads(p) <=> (IF Kind(t) = "bcast" THEN r # p ELSE r = p)
  <2>1. /\ Reads(p) => Gets(p, t, buf[p][t] \cup buf[o][t])
        /\ ~Reads(p) /\ Kind(t) \notin {"allreduce", "inplace"} /\ (Kind(t) = "gatherv" => slots[t % NSlots].displs = t) =>
             Gets(o, t, buf[o][t] \cup buf[p][t])
        /\ Reads(p) <=> \/ Kind(t) = "bcast" /\ Root(t) # p
                        \/ Kind(t) \in {"gather", "gatherv"} /\ Root(t) = p
                        \/ Kind(t) = "allgather" /\ reqs[p][t] = c
    <3>1. Handles(p, t, c, o) /\ buf' = Moved(p)
      BY <1>1
    <3> QED  BY <3>1, MovedIs
  <2> QED  BY <1>3, <1>4, <1>5, <1>7, <2>1
<1>9. /\ \A q \in Procs : buf[q][t] \subseteq buf'[q][t]
      /\ \A q \in Made(t) : buf'[q][t] \subseteq Procs
  <2>1. buf[p][t] \subseteq Procs /\ buf[o][t] \subseteq Procs
    BY <1>2, <1>5
  <2>2. CASE Reads(p)
    BY <1>5, <1>8, <2>1, <2>2 DEF Gets, Made
  <2>3. CASE ~Reads(p)
    BY <1>5, <1>8, <2>1, <2>3 DEF Gets, Made
  <2> QED  BY <2>2, <2>3
<1>10. ASSUME NEW q \in Procs, q # r, ToCome(q, t), ~ToCome(q, t)'
       PROVE  IF Kind(t) = "bcast" THEN r \in buf'[q][t] ELSE q \in buf'[r][t]
  <2>1. {q, r} \ Made(t) = {}
    BY <1>1, <1>4, <1>10 DEF ToCome
  <2>2. \A x \in Procs : x # p => pc'[x] = pc[x] /\ call'[x] = call[x]
    BY <1>1 DEF Finishes
  <2>3. ~Owes(r, q, t)'
    <3>1. Owes(r, q, t)' => Owes(Root(t), q, t)'
      BY <1>1, <1>4 DEF Owes, Serving, Rest
    <3> QED  BY <1>10, <3>1 DEF ToCome
  <2>4. CASE r = p
    <3>1. Owes(p, q, t)
      BY <1>4, <1>10, <2>1, <2>2, <2>4 DEF ToCome
    <3>2. q = o
      BY <1>1, <2>3, <2>4, <3>1 DEF Finishes
    <3>3. q \in Made(t) /\ r \in Made(t)
      BY <2>1
    <3>4. CASE Kind(t) = "bcast"
      BY <1>5, <1>8, <2>4, <3>2, <3>3, <3>4 DEF Gets
    <3>5. CASE Kind(t) # "bcast"
      BY <1>5, <1>8, <2>4, <3>2, <3>3, <3>5 DEF Gets
    <3> QED  BY <3>4, <3>5
  <2>5. CASE r # p
    <3>1. ~Owes(r, q, t)
      BY <1>1, <2>3, <2>5 DEF Finishes
    <3>2. q = p
      BY <1>4, <1>10, <2>1, <2>2, <3>1 DEF ToCome
    <3>3. o = r /\ q \in Made(t) /\ r \in Made(t)
      BY <1>6, <2>1, <2>5
    <3>4. CASE Kind(t) = "bcast"
      BY <1>5, <1>8, <2>5, <3>2, <3>3, <3>4 DEF Gets
    <3>5. CASE Kind(t) # "bcast"
      BY <1>5, <1>8, <2>5, <3>2, <3>3, <3>5 DEF Gets
    <3> QED  BY <3>4, <3>5
  <2> QED  BY <2>4, <2>5
<1>11. \A q \in Procs \ {r} : ToCome(q, t)' \/ (IF Kind(t) = "bcast" THEN r \in buf'[q][t] ELSE q \in buf'[r][t])
  BY <1>5, <1>9, <1>10
<1>12. \A q \in Made(t) : (Kind(t) = "bcast" /\ q # r) \/ q \in buf'[q][t]
  BY <1>5, <1>9 DEF Made
<1> QED  BY <1>1, <1>4, <1>5, <1>9, <1>11, <1>12 DEF RootedData

\* In a call without a root p is the only one to serve others, and all have come.
LEMMA DeliversAlone ==
  ASSUME LeafInv, ServeInv, NEW p \in Procs, NEW t \in Calls, NEW c, NEW o, Delivers(p, t, c, o),
         Kind(t) \notin Rooted, Present(t)
  PROVE  /\ Made(t) = Procs /\ \A q \in Procs : Serving(q, t) => q = p
         /\ \A q \in Procs : Serving(q, t)' => q = p
         /\ ~Gathering(t)'
         /\ Made(t)' = Made(t) /\ Kind(t)' = Kind(t)
<1>1. Handles(p, t, c, o) /\ Finishes(p, t, o) /\ Advances(p, t) /\ slots' = slots
  BY DEF Delivers
<1>2. Made(t) = Procs /\ \A q \in Procs : Serving(q, t) => q = p
  BY <1>1 DEF ServeInv, Handles
<1>3. \A q \in Procs : Serving(q, t)' => q = p
  BY <1>1, <1>2 DEF Finishes
<1>4. ~Gathering(t)'
  BY <1>1, <1>2 DEF Present, Gathering
<1>5. Made(t)' = Made(t) /\ Kind(t)' = Kind(t)
  BY <1>1, AdvancesInside
<1> QED  BY <1>2, <1>3, <1>4, <1>5

\* In an allgather p gets all data from the first one, and gives it to the others.
LEMMA DeliversGathered ==
  ASSUME CollInv, LeafInv, ServeInv, NEW p \in Procs, NEW t \in Calls, NEW c, NEW o, Delivers(p, t, c, o),
         Kind(t) = "allgather", Present(t), GatheredData(t)
  PROVE  GatheredData(t)'
<1>1. /\ Handles(p, t, c, o) /\ Finishes(p, t, o) /\ buf' = Moved(p) /\ pc[p] = "deliver"
      /\ slots' = slots /\ cookie' = cookie /\ reqs' = reqs
      /\ c = at[p] /\ o = cookie[c].owner /\ o \in Procs /\ Serving(p, t)
      /\ Rest(p) = ToSet(todo[p]) \cup {c} /\ c \notin ToSet(todo[p])
  BY DEF Delivers, Handles
<1>2. /\ Made(t) = Procs /\ \A q \in Procs : Serving(q, t) => q = p
      /\ \A q \in Procs : Serving(q, t)' => q = p
      /\ ~Gathering(t)' /\ Made(t)' = Made(t)
  BY DeliversAlone DEF Rooted
<1>3. /\ reqs[p][t] \in Cookies /\ Got(cookie[reqs[p][t]].owner, t)
      /\ reqs[p][t] \in Rest(p) => reqs[p][t] = c
      /\ reqs[p][t] \notin Rest(p) => Got(p, t)
      /\ \A q \in Procs : buf[q][t] \subseteq Procs
  BY <1>1, <1>2 DEF GatheredData
<1>4. /\ Reads(p) => Gets(p, t, buf[p][t] \cup buf[o][t])
      /\ ~Reads(p) => Gets(o, t, buf[o][t] \cup buf[p][t])
      /\ Reads(p) <=> reqs[p][t] = c
  <2>1. /\ Reads(p) => Gets(p, t, buf[p][t] \cup buf[o][t])
        /\ ~Reads(p) /\ Kind(t) \notin {"allreduce", "inplace"} /\ (Kind(t) = "gatherv" => slots[t % NSlots].displs = t) =>
             Gets(o, t, buf[o][t] \cup buf[p][t])
        /\ Reads(p) <=> \/ Kind(t) = "bcast" /\ Root(t) # p
                        \/ Kind(t) \in {"gather", "gatherv"} /\ Root(t) = p
                        \/ Kind(t) = "allgather" /\ reqs[p][t] = c
    <3>1. Handles(p, t, c, o) /\ buf' = Moved(p)
      BY <1>1
    <3> QED  BY <3>1, MovedIs
  <2>2. Kind(t) \notin {"bcast", "gather", "gatherv", "allreduce", "inplace"}
    OBVIOUS
  <2>3. Reads(p) <=> reqs[p][t] = c
    BY <2>1, <2>2
  <2>4. ~Reads(p) => Gets(o, t, buf[o][t] \cup buf[p][t])
    BY <2>1, <2>2
  <2> QED  BY <2>1, <2>3, <2>4
<1>5. Got(p, t)' /\ Got(o, t)' /\ \A q \in Procs : buf'[q][t] \subseteq Procs /\ (Got(q, t) => Got(q, t)')
  <2>1. CASE Reads(p)
    <3>1. Got(o, t)
      BY <1>1, <1>3, <1>4, <2>1
    <3>2. buf'[p][t] = Procs /\ \A q \in Procs : q # p => buf'[q][t] = buf[q][t]
      <4>1. buf[o][t] = Procs /\ buf[p][t] \subseteq Procs /\ t \in Calls
        BY <1>3, <3>1 DEF Got
      <4>2. buf[p][t] \cup buf[o][t] = Procs
        BY <4>1
      <4> QED  BY <1>4, <2>1, <4>1, <4>2 DEF Gets
    <3> QED  BY <1>1, <1>3, <3>1, <3>2 DEF Got
  <2>2. CASE ~Reads(p)
    <3>1. Got(p, t)
      BY <1>1, <1>3, <1>4, <2>2
    <3> QED  BY <1>1, <1>3, <1>4, <2>2, <3>1 DEF Gets, Got
  <2> QED  BY <2>1, <2>2
<1>6. reqs[p][t] \notin Rest(p)'
  BY <1>1, <1>3 DEF Finishes
<1>7. Got(cookie[reqs[p][t]].owner, t)'
  <2>1. CASE reqs[p][t] = c
    BY <1>1, <1>5, <2>1 DEF Got
  <2>2. CASE reqs[p][t] # c
    <3>1. ~Reads(p) /\ Got(p, t)
      BY <1>3, <1>4, <2>2
    <3>2. PICK x : x = cookie[reqs[p][t]].owner
      OBVIOUS
    <3>3. Got(x, t)
      BY <1>3, <3>2
    <3>4. x \in Procs => Got(x, t)'
      BY <1>5, <3>3
    <3>5. x \in Procs
      <4>1. reqs[p][t] # NoCookie
        BY <1>3, ConstantTypes
      <4> QED  BY <3>2, <4>1 DEF CollInv, KnownInv, Known
    <3> QED  BY <1>1, <3>2, <3>4, <3>5 DEF Got
  <2> QED  BY <2>1, <2>2
<1>8. ASSUME NEW q \in Procs, Serving(q, t)'
      PROVE  /\ reqs'[q][t] \in Cookies /\ Got(cookie[reqs[q][t]].owner, t)'
             /\ reqs'[q][t] \notin Rest(q)' /\ Got(q, t)'
  <2>1. q = p
    BY <1>2, <1>8
  <2> QED  BY <1>1, <1>3, <1>5, <1>6, <1>7, <2>1 DEF Rest
<1>9. \A q \in Procs : Got(q, t)' \/ \E r \in Procs \ {q} : Owes(r, q, t)'
  <2> SUFFICES ASSUME NEW q \in Procs, ~Got(q, t)'  PROVE \E r \in Procs \ {q} : Owes(r, q, t)'
    OBVIOUS
  <2>1. ~Got(q, t) /\ q # p /\ q # o
    BY <1>5
  <2>2. PICK r \in Procs \ {q} : Owes(r, q, t)
    BY <1>2, <2>1 DEF GatheredData
  <2>3. Owes(r, q, t)'
    BY <1>1, <2>1, <2>2 DEF Finishes
  <2> QED  BY <2>2, <2>3
<1> QED  BY <1>2, <1>5, <1>8, <1>9 DEF GatheredData

\* In an allreduce p gives the sum to another process.
LEMMA DeliversReduced ==
  ASSUME CollInv, LeafInv, ServeInv, NEW p \in Procs, NEW t \in Calls, NEW c, NEW o, Delivers(p, t, c, o),
         Kind(t) \in {"allreduce", "inplace"}, Present(t), ReducedData(t)
  PROVE  ReducedData(t)'
<1>1. /\ Handles(p, t, c, o) /\ Finishes(p, t, o) /\ buf' = Moved(p) /\ o \in Procs /\ Serving(p, t)
  BY DEF Delivers, Handles
<1>2. /\ Made(t) = Procs /\ \A q \in Procs : Serving(q, t)' => q = p
      /\ ~Gathering(t)' /\ Made(t)' = Made(t)
  BY DeliversAlone DEF Rooted
<1>3. Got(p, t)
  BY <1>1 DEF ReducedData
<1>4. Gets(o, t, buf[p][t])
  <2>1. /\ ~Reads(p) /\ Kind(t) \in {"allreduce", "inplace"} => Gets(o, t, buf[p][t])
        /\ Reads(p) <=> \/ Kind(t) = "bcast" /\ Root(t) # p
                        \/ Kind(t) \in {"gather", "gatherv"} /\ Root(t) = p
                        \/ Kind(t) = "allgather" /\ reqs[p][t] = c
    <3>1. Handles(p, t, c, o) /\ buf' = Moved(p)
      BY <1>1
    <3> QED  BY <3>1, MovedIs
  <2> QED  BY <2>1
<1>5. Got(o, t)' /\ \A q \in Procs : Got(q, t) => Got(q, t)'
  BY <1>3, <1>4 DEF Gets, Got
<1>6. \A q \in Procs : Got(q, t)' \/ \E r \in Procs \ {q} : Owes(r, q, t)'
  <2> SUFFICES ASSUME NEW q \in Procs, ~Got(q, t)'  PROVE \E r \in Procs \ {q} : Owes(r, q, t)'
    OBVIOUS
  <2>1. ~Got(q, t) /\ q # o
    BY <1>5
  <2>2. PICK r \in Procs \ {q} : Owes(r, q, t)
    BY <1>2, <2>1 DEF ReducedData
  <2>3. Owes(r, q, t)'
    BY <1>1, <2>1, <2>2 DEF Finishes
  <2> QED  BY <2>2, <2>3
<1>7. \A q \in Procs : Serving(q, t)' => Got(q, t)'
  BY <1>2, <1>3, <1>5
<1> QED  BY <1>2, <1>6, <1>7 DEF ReducedData

\* Which of the three it is.
LEMMA DeliverData ==
  ASSUME ScratchApart, CollInv, CountInv, BusyInv, DataInv, NEW p \in Procs, Deliver(p)
  PROVE  DataInv'
<1>1. /\ pc[p] = "deliver" /\ ~InScan(p) /\ Serves(p, call[p], todo[p]) /\ buf' = Moved(p)
      /\ program' = program /\ slots' = slots /\ cookie' = cookie /\ ticket' = ticket /\ reqs' = reqs
  BY DEF Deliver
<1>2. PICK t, c, o : t = call[p] /\ c = at[p] /\ o = cookie[c].owner
  OBVIOUS
<1>3. Handles(p, t, c, o)
  BY <1>1, <1>2, HandlesIs
<1>4. /\ t \in Calls /\ o \in Procs /\ Inside(p)
      /\ Kind(t) \notin Scans
  BY <1>1, <1>2, <1>3 DEF Handles, InScan, Kind
<1>5. Finishes(p, t, o)
  BY <1>1, <1>3, FinishesIs
<1>6. /\ DataOf(t) /\ Present(t) /\ LeafInv /\ ServeInv
      /\ Kind(t) \in {"bcast", "gather", "gatherv", "allgather", "allreduce", "inplace"}
  BY <1>4, KindsAre DEF DataInv, DataOf, CollInv, Scans
<1>7. Kind(t) = "gatherv" => slots[t % NSlots].displs = t
  <2> SUFFICES ASSUME Kind(t) = "gatherv"  PROVE slots[t % NSlots].displs = t
    OBVIOUS
  <2>1. Root(t) # p => o = Root(t)
    BY <1>2, <1>4 DEF DataInv, LeafInv, Rooted
  <2>2. Root(t) \in Made(t)
    BY <1>3, <2>1 DEF Handles
  <2> QED  BY <1>6, <2>2 DEF DataOf, RootedData, Rooted
<1>8. \A q \in Procs, u \in Calls : u # t => buf'[q][u] = buf[q][u]
  <2>1. Gets(p, t, buf[p][t] \cup buf[o][t]) \/ Gets(o, t, buf[p][t]) \/ Gets(o, t, buf[o][t] \cup buf[p][t])
    <3>1. Handles(p, t, c, o) /\ buf' = Moved(p) /\ CollInv
      BY <1>1, <1>3
    <3>2. /\ Reads(p) => Gets(p, t, buf[p][t] \cup buf[o][t])
          /\ ~Reads(p) /\ Kind(t) \in {"allreduce", "inplace"} => Gets(o, t, buf[p][t])
          /\ ~Reads(p) /\ Kind(t) \notin {"allreduce", "inplace"} /\ (Kind(t) = "gatherv" => slots[t % NSlots].displs = t) =>
               Gets(o, t, buf[o][t] \cup buf[p][t])
      BY <3>1, MovedIs
    <3> QED  BY <1>7, <3>2
  <2> QED  BY <2>1 DEF Gets
<1>9. Kind(t) \in Rooted /\ Root(t) # p => todo[p] = <<>>
  BY <1>2, <1>4 DEF DataInv, LeafInv
<1>10. Advances(p, t)
  BY <1>1, <1>2, <1>4, <1>5, <1>8, <1>9 DEF Advances, Finishes
<1>11. Delivers(p, t, c, o)
  BY <1>1, <1>3, <1>5, <1>10 DEF Delivers
<1>12. Present(t)'
  BY <1>1, <1>4, <1>6, <1>10, PresentStays
<1>13. Kind(t)' = Kind(t)
  BY <1>1 DEF Kind
<1>14. CASE Kind(t) \in Rooted
  <2>1. RootedData(t)'
    BY <1>4, <1>6, <1>11, <1>14, DeliversRooted DEF DataOf
  <2> QED  BY <1>4, <1>10, <1>12, <1>13, <1>14, <2>1, AdvancesData DEF DataOf, Rooted
<1>15. CASE Kind(t) = "allgather"
  <2>1. GatheredData(t)'
    BY <1>4, <1>6, <1>11, <1>15, DeliversGathered DEF DataOf
  <2> QED  BY <1>4, <1>10, <1>12, <1>13, <1>15, <2>1, AdvancesData DEF DataOf, Rooted
<1>16. CASE Kind(t) \in {"allreduce", "inplace"}
  <2>1. ReducedData(t)'
    BY <1>4, <1>6, <1>11, <1>16, DeliversReduced DEF DataOf
  <2> QED  BY <1>4, <1>10, <1>12, <1>13, <1>16, <2>1, AdvancesData DEF DataOf, Rooted
<1> QED  BY <1>6, <1>14, <1>15, <1>16 DEF Rooted

-----------------------------------------------------------------------------
(* Moving the data of a scan                                               *)

\* The sums in slot s become send and recv.
Sums(s, send, recv) ==
  /\ \A u \in Turns : u # s => slots'[u] = slots[u]
  /\ LET new == slots'[s]
         old == slots[s]
     IN
     /\ new.ticket = old.ticket /\ new.box = old.box /\ new.locked = old.locked /\ new.displs = old.displs
     /\ new.sendbuf = send /\ new.recvbuf = recv

\* Each of the two assignments leaves the other sum alone.
LEMMA SumsAre ==
  ASSUME TypeOK, NEW s \in Turns, NEW data
  PROVE  /\ slots' = [slots EXCEPT ![s].sendbuf = data] => Sums(s, data, slots[s].recvbuf)
         /\ slots' = [slots EXCEPT ![s].recvbuf = data] => Sums(s, slots[s].sendbuf, data)
<1>1. slots \in [Turns -> SlotRecords]
  BY DEF TypeOK, Turns
<1>2. PICK old \in SlotRecords : old = slots[s]
  BY <1>1
<1>3. ASSUME slots' = [slots EXCEPT ![s].sendbuf = data]  PROVE Sums(s, data, slots[s].recvbuf)
  <2>1. PICK new : new = [old EXCEPT !.sendbuf = data]
    OBVIOUS
  <2>2. /\ new.ticket = old.ticket /\ new.box = old.box /\ new.locked = old.locked /\ new.displs = old.displs
        /\ new.sendbuf = data /\ new.recvbuf = old.recvbuf
    BY <2>1 DEF SlotRecords
  <2>3. slots' = [slots EXCEPT ![s] = new]
    BY <1>2, <1>3, <2>1
  <2>4. slots'[s] = new /\ \A u \in Turns : u # s => slots'[u] = slots[u]
    BY <1>1, <2>3
  <2> QED  BY <1>2, <2>2, <2>4 DEF Sums
<1>4. ASSUME slots' = [slots EXCEPT ![s].recvbuf = data]  PROVE Sums(s, slots[s].sendbuf, data)
  <2>1. PICK new : new = [old EXCEPT !.recvbuf = data]
    OBVIOUS
  <2>2. /\ new.ticket = old.ticket /\ new.box = old.box /\ new.locked = old.locked /\ new.displs = old.displs
        /\ new.sendbuf = old.sendbuf /\ new.recvbuf = data
    BY <2>1 DEF SlotRecords
  <2>3. slots' = [slots EXCEPT ![s] = new]
    BY <1>2, <1>4, <2>1
  <2>4. slots'[s] = new /\ \A u \in Turns : u # s => slots'[u] = slots[u]
    BY <1>1, <2>3
  <2> QED  BY <1>2, <2>2, <2>4 DEF Sums
<1> QED  BY <1>3, <1>4

\* The ranks p has served are those below that of the process it serves.
LEMMA ScanAt ==
  ASSUME CollInv, OpenInv, ServeInv, NEW p \in Procs, NEW t \in Calls, NEW c, NEW o, Handles(p, t, c, o),
         Kind(t) \in Scans, ScannedData(t), pc[p] \in {"deliver", "scan"}
  PROVE  /\ Made(t) = Procs /\ \A q \in Procs : Serving(q, t) => q = p
         /\ cookie[c].src = o /\ Rank[o] \in Nat /\ Rank[o] = Reached(p)
         /\ Len(todo[p]) \in Nat /\ Rank[o] = N - Len(todo[p]) - 1
         /\ Rank[o] > 0 => slots[t % NSlots].sendbuf = Below(Rank[o])
         /\ buf[o][t] = {o}
<1>1. c = at[p] /\ o = cookie[c].owner /\ o \in Procs /\ Serving(p, t) /\ c \in Rest(p) /\ c \in Cookies
  BY DEF Handles
<1>2. Made(t) = Procs /\ \A q \in Procs : Serving(q, t) => q = p
  BY <1>1 DEF ServeInv, Scans, Rooted
<1>3. cookie[c].src = o
  BY <1>1 DEF OpenInv
<1>4. Rank[o] = Reached(p) /\ (Reached(p) > 0 => slots[t % NSlots].sendbuf = Below(Reached(p)))
  BY <1>1, <1>3 DEF ScannedData
<1>5. Owes(p, o, t)
  BY <1>1 DEF Owes
<1>6. buf[o][t] = {o}
  BY <1>1, <1>2, <1>5 DEF ScannedData
<1>7. Rank[o] \in Nat
  BY <1>1, RankAssumption, ConstantTypes DEF N
<1>8. Len(todo[p]) \in Nat
  BY LenProperties DEF CollInv, TypeOK
<1>9. Reached(p) = N - Len(todo[p]) - 1
  BY DEF Reached
<1> QED  BY <1>2, <1>3, <1>4, <1>6, <1>7, <1>8, <1>9

\* p is done with o, and its sum is that of o and all below.
LEMMA ScanFinishes ==
  ASSUME CollInv, OpenInv, LeafInv, ServeInv, NEW p \in Procs, NEW t \in Calls, NEW c, NEW o,
         Handles(p, t, c, o), Finishes(p, t, o), Advances(p, t), pc[p] \in {"deliver", "scan"},
         Kind(t) \in Scans, ScannedData(t),
         \A q \in Procs : q # o => buf'[q][t] = buf[q][t],
         Kind(t) = "scan" => buf'[o][t] = Below(Rank[o] + 1),
         Kind(t) = "exscan" => (Rank[o] > 0 => buf'[o][t] = Below(Rank[o])),
         todo[p] # <<>> => slots'[t % NSlots].sendbuf = Below(Rank[o] + 1)
  PROVE  ScannedData(t)'
<1>1. /\ Made(t) = Procs /\ \A q \in Procs : Serving(q, t) => q = p
      /\ Rank[o] \in Nat /\ Len(todo[p]) \in Nat /\ Rank[o] = N - Len(todo[p]) - 1
  BY ScanAt
<1>2. Made(t)' = Made(t) /\ Kind(t)' = Kind(t) /\ cookie' = cookie
  BY AdvancesInside DEF Advances
<1>3. /\ todo'[p] = todo[p] /\ pc'[p] = (IF todo[p] = <<>> THEN "idle" ELSE "serve")
      /\ \A q \in Procs : q # p => (Serving(q, t)' <=> Serving(q, t))
      /\ \A r \in Procs : Owes(p, r, t)' <=> Owes(p, r, t) /\ r # o
      /\ \A q, r \in Procs : Owes(q, r, t) => Owes(q, r, t)' \/ (q = p /\ r = o)
      /\ \A q, r \in Procs : q # p => (Owes(q, r, t)' <=> Owes(q, r, t))
  BY DEF Finishes
<1>4. ASSUME NEW q \in Procs, NEW r \in Procs, Owes(r, q, t)'  PROVE buf'[q][t] = {q}
  <2>1. r = p
    BY <1>1, <1>3, <1>4 DEF Owes
  <2>2. Owes(p, q, t) /\ q # o
    BY <1>3, <1>4, <2>1
  <2>3. buf[q][t] = {q}
    BY <1>1, <2>2 DEF ScannedData
  <2> QED  BY <2>2, <2>3
<1>5. \A q \in Made(t)' : (Made(t)' # Procs \/ \E r \in Procs : Owes(r, q, t)') => buf'[q][t] = {q}
  BY <1>1, <1>2, <1>4
<1>6. ASSUME NEW q \in Procs
      PROVE  \/ \E r \in Procs : Owes(r, q, t)'
             \/ Kind(t) = "scan" /\ buf'[q][t] = Below(Rank[q] + 1)
             \/ Kind(t) = "exscan" /\ (Rank[q] > 0 => buf'[q][t] = Below(Rank[q]))
  <2>1. CASE q = o
    BY <2>1 DEF Scans
  <2>2. CASE q # o
    <3>1. \/ \E r \in Procs : Owes(r, q, t)
          \/ Kind(t) = "scan" /\ buf[q][t] = Below(Rank[q] + 1)
          \/ Kind(t) = "exscan" /\ (Rank[q] > 0 => buf[q][t] = Below(Rank[q]))
      BY <1>1 DEF ScannedData
    <3> QED  BY <1>3, <2>2, <3>1
  <2> QED  BY <2>1, <2>2
<1>7. ASSUME NEW q \in Procs, Serving(q, t)'
      PROVE  /\ \A i \in DOMAIN todo'[q] : Rank[cookie'[todo'[q][i]].src] = N - Len(todo'[q]) + i - 1
             /\ pc'[q] # "serve" => Rank[cookie'[at'[q]].src] = Reached(q)'
             /\ Reached(q)' > 0 => slots'[t % NSlots].sendbuf = Below(Reached(q)')
             /\ pc'[q] = "scan" => Reached(q)' > 0 /\ slots'[t % NSlots].recvbuf = {cookie'[at'[q]].owner}
  <2>1. q = p
    BY <1>1, <1>3, <1>7
  <2>2. pc'[p] = "serve" /\ todo[p] # <<>>
    BY <1>3, <1>7, <2>1 DEF Serving
  <2>3. \A i \in DOMAIN todo[p] : Rank[cookie[todo[p][i]].src] = N - Len(todo[p]) + i - 1
    BY DEF ScannedData, Handles
  <2>4. Reached(p)' = Rank[o] + 1
    <3>1. Reached(p)' = N - Len(todo[p]) - 0
      BY <1>3, <2>2 DEF Reached
    <3>2. N - Len(todo[p]) - 0 = Rank[o] + 1
      BY <1>1, ConstantTypes
    <3> QED  BY <3>1, <3>2
  <2> QED  BY <1>2, <1>3, <2>1, <2>2, <2>3, <2>4
<1> QED  BY <1>2, <1>5, <1>6, <1>7 DEF ScannedData, Below

\* The processes up to the rank of o are those below it and o.
LEMMA BelowIs ==
  ASSUME NEW o \in Procs
  PROVE  /\ Below(Rank[o] + 1) = Below(Rank[o]) \cup {o} /\ o \notin Below(Rank[o])
         /\ Rank[o] = 0 => Below(Rank[o] + 1) = {o}
         /\ Plus(Below(Rank[o]), {o}) = Below(Rank[o] + 1)
<1>1. \A q \in Procs : Rank[q] \in Nat
  BY RankAssumption, ConstantTypes DEF N
<1>2. \A q \in Procs : Rank[q] < Rank[o] + 1 <=> Rank[q] < Rank[o] \/ q = o
  <2> SUFFICES ASSUME NEW q \in Procs  PROVE Rank[q] < Rank[o] + 1 <=> Rank[q] < Rank[o] \/ q = o
    OBVIOUS
  <2>1. Rank[q] \in Nat /\ Rank[o] \in Nat /\ (Rank[q] = Rank[o] => q = o)
    BY <1>1, RankAssumption
  <2> QED  BY <2>1
<1>3. Below(Rank[o] + 1) = Below(Rank[o]) \cup {o}
  BY <1>2 DEF Below
<1>4. o \notin Below(Rank[o])
  BY <1>1 DEF Below
<1>5. Rank[o] = 0 => Below(Rank[o]) = {}
  BY <1>1 DEF Below
<1>6. Below(Rank[o]) \cap {o} = {}
  BY <1>4
<1> QED  BY <1>3, <1>4, <1>5, <1>6 DEF Plus

\* p is done with rank 0 when it has read from it, and writes to the others next.
LEMMA ScanReadsData ==
  ASSUME ScratchApart, CollInv, CountInv, BusyInv, DataInv, NEW p \in Procs, ScanReads(p)
  PROVE  DataInv'
<1> DEFINE data == buf[cookie[at[p]].owner][cookie[at[p]].call]
<1>1. /\ pc[p] = "deliver" /\ InScan(p)
      /\ program' = program /\ cookie' = cookie /\ ticket' = ticket /\ reqs' = reqs /\ buf' = buf
  BY DEF ScanReads
<1>2. PICK t, c, o : t = call[p] /\ c = at[p] /\ o = cookie[c].owner
  OBVIOUS
<1>3. Handles(p, t, c, o)
  BY <1>1, <1>2, HandlesIs
<1>4. /\ t \in Calls /\ o \in Procs /\ Inside(p) /\ Serving(p, t) /\ cookie[c].call = t
      /\ Kind(t) \in Scans /\ Kind(t) \notin Rooted /\ Kind(t) \notin {"allgather", "allreduce", "inplace"}
  BY <1>1, <1>2, <1>3 DEF Handles, InScan, Kind, Scans, Rooted
<1>5. PICK s \in Turns : s = t % NSlots
  BY <1>4, CallsAre, TurnOf
<1>6. TypeOK /\ Present(t) /\ ScannedData(t) /\ LeafInv /\ ServeInv /\ OpenInv
  BY <1>4 DEF DataInv, DataOf, CollInv
<1>7. /\ Made(t) = Procs /\ \A q \in Procs : Serving(q, t) => q = p
      /\ cookie[c].src = o /\ Rank[o] \in Nat /\ Rank[o] = Reached(p)
      /\ Rank[o] > 0 => slots[s].sendbuf = Below(Rank[o])
      /\ buf[o][t] = {o}
  BY <1>1, <1>3, <1>4, <1>5, <1>6, ScanAt
<1>8. data = {o}
  BY <1>2, <1>4, <1>7
<1>9. IF Rank[o] = 0
      THEN slots' = [slots EXCEPT ![s].sendbuf = data] /\ Serves(p, call[p], todo[p])
      ELSE slots' = [slots EXCEPT ![s].recvbuf = data] /\ Goes(p, "scan", call[p], at[p], todo[p])
  BY <1>2, <1>5, <1>7 DEF ScanReads
<1> HIDE DEF data
<1>10. CASE Rank[o] = 0
  <2>1. Sums(s, {o}, slots[s].recvbuf)
    BY <1>6, <1>8, <1>9, <1>10, SumsAre
  <2>2. Finishes(p, t, o)
    BY <1>1, <1>3, <1>9, <1>10, FinishesIs
  <2>3. Advances(p, t)
    BY <1>1, <1>2, <1>4, <1>5, <2>1, <2>2 DEF Advances, Finishes, Sums
  <2>4. slots'[t % NSlots].sendbuf = Below(Rank[o] + 1) /\ {o} = Below(Rank[o] + 1)
    BY <1>4, <1>5, <1>10, <2>1, BelowIs DEF Sums
  <2>5. ScannedData(t)'
    <3>1. /\ \A q \in Procs : q # o => buf'[q][t] = buf[q][t]
          /\ Kind(t) = "scan" => buf'[o][t] = Below(Rank[o] + 1)
          /\ ~(Rank[o] > 0)
      BY <1>1, <1>7, <1>10, <2>4
    <3> QED  BY <1>1, <1>3, <1>4, <1>6, <2>2, <2>3, <2>4, <3>1, ScanFinishes
  <2>6. Present(t)'
    BY <1>4, <1>5, <1>6, <2>1, <2>3, PresentStays DEF Sums
  <2>7. Kind(t)' = Kind(t)
    BY <1>1 DEF Kind
  <2>8. DataOf(t)'
    BY <1>4, <2>5, <2>6, <2>7 DEF DataOf
  <2> QED  BY <1>4, <2>3, <2>8, AdvancesData
<1>11. CASE Rank[o] # 0
  <2>1. Sums(s, slots[s].sendbuf, {o})
    BY <1>6, <1>8, <1>9, <1>11, SumsAre
  <2>2. Goes(p, "scan", t, c, todo[p])
    BY <1>2, <1>9, <1>11
  <2>3. /\ pc'[p] = "scan" /\ call'[p] = t /\ at'[p] = c /\ todo'[p] = todo[p]
        /\ \A q \in Procs : q # p => pc'[q] = pc[q] /\ call'[q] = call[q] /\ at'[q] = at[q] /\ todo'[q] = todo[q]
    BY <1>6, <2>2 DEF Goes, TypeOK
  <2>4. Advances(p, t)
    BY <1>1, <1>2, <1>4, <1>5, <2>1, <2>3 DEF Advances, Sums
  <2>5. Rest(p)' = Rest(p) /\ Serving(p, t)'
    BY <1>1, <1>2, <2>3 DEF Rest, Serving
  <2>6. \A q, r \in Procs : Owes(q, r, t)' <=> Owes(q, r, t)
    <3>1. \A r : Owes(p, r, t)' <=> Owes(p, r, t)
      BY <1>1, <1>4, <2>5 DEF Owes
    <3>2. \A q \in Procs : q # p => \A r : Owes(q, r, t)' <=> Owes(q, r, t)
      BY <1>4, <1>6, <2>4, AdvancesInside
    <3> QED  BY <3>1, <3>2
  <2>7. Made(t)' = Made(t) /\ Kind(t)' = Kind(t)
    BY <1>1 DEF Made, Kind
  <2>8. Reached(p)' = Reached(p)
    BY <1>1, <2>3 DEF Reached
  <2>9. ASSUME NEW q \in Procs, Serving(q, t)'
        PROVE  /\ \A i \in DOMAIN todo'[q] : Rank[cookie'[todo'[q][i]].src] = N - Len(todo'[q]) + i - 1
               /\ pc'[q] # "serve" => Rank[cookie'[at'[q]].src] = Reached(q)'
               /\ Reached(q)' > 0 => slots'[t % NSlots].sendbuf = Below(Reached(q)')
               /\ pc'[q] = "scan" => Reached(q)' > 0 /\ slots'[t % NSlots].recvbuf = {cookie'[at'[q]].owner}
    <3>1. q = p
      BY <1>7, <2>3, <2>9 DEF Serving
    <3>2. \A i \in DOMAIN todo[p] : Rank[cookie[todo[p][i]].src] = N - Len(todo[p]) + i - 1
      BY <1>4, <1>6 DEF ScannedData
    <3>3. Reached(p) > 0
      BY <1>7, <1>11
    <3>4. slots'[t % NSlots].sendbuf = slots[s].sendbuf /\ slots'[t % NSlots].recvbuf = {o}
      BY <1>5, <2>1 DEF Sums
    <3> QED  BY <1>1, <1>2, <1>7, <2>3, <2>8, <3>1, <3>2, <3>3, <3>4
  <2>10. ScannedData(t)'
    <3>1. \A q \in Made(t)' : (Made(t)' # Procs \/ \E r \in Procs : Owes(r, q, t)') => buf'[q][t] = {q}
      BY <1>1, <1>6, <1>7, <2>6, <2>7 DEF ScannedData
    <3>2. \A q \in Procs :
            \/ \E r \in Procs : Owes(r, q, t)'
            \/ Kind(t)' = "scan" /\ buf'[q][t] = Below(Rank[q] + 1)
            \/ Kind(t)' = "exscan" /\ (Rank[q] > 0 => buf'[q][t] = Below(Rank[q]))
      BY <1>1, <1>6, <1>7, <2>6, <2>7 DEF ScannedData
    <3> QED  BY <2>9, <3>1, <3>2 DEF ScannedData, Below
  <2>11. Present(t)'
    BY <1>4, <1>5, <1>6, <2>1, <2>4, PresentStays DEF Sums
  <2>12. DataOf(t)'
    BY <1>4, <2>7, <2>10, <2>11 DEF DataOf
  <2> QED  BY <1>4, <2>4, <2>12, AdvancesData
<1> QED  BY <1>10, <1>11

\* p writes the sum of those up to a rank, or below it, and adds up the data it has read.
LEMMA ScanWritesData ==
  ASSUME ScratchApart, CollInv, CountInv, BusyInv, DataInv, NEW p \in Procs, ScanWrites(p)
  PROVE  DataInv'
<1>1. /\ pc[p] = "scan" /\ Serves(p, call[p], todo[p])
      /\ program' = program /\ cookie' = cookie /\ ticket' = ticket /\ reqs' = reqs
  BY DEF ScanWrites
<1>2. PICK t, c, o : t = call[p] /\ c = at[p] /\ o = cookie[c].owner
  OBVIOUS
<1>3. Handles(p, t, c, o)
  BY <1>1, <1>2, HandlesIs
<1>4. /\ t \in Calls /\ o \in Procs /\ Inside(p) /\ Serving(p, t) /\ cookie[c].call = t
  BY <1>3 DEF Handles
<1>5. Kind(t) \in Scans /\ Kind(t) \notin Rooted /\ Kind(t) \notin {"allgather", "allreduce", "inplace"}
  <2>1. Kind(t) \in Scans
    BY <1>1, <1>2, <1>4 DEF DataInv, LeafInv
  <2> QED  BY <2>1 DEF Scans, Rooted
<1>6. PICK s \in Turns : s = t % NSlots
  BY <1>4, CallsAre, TurnOf
<1>7. TypeOK /\ Present(t) /\ ScannedData(t) /\ LeafInv /\ ServeInv /\ OpenInv
  BY <1>4, <1>5 DEF DataInv, DataOf, CollInv
<1>8. /\ Rank[o] \in Nat /\ Rank[o] = Reached(p)
      /\ Rank[o] > 0 => slots[s].sendbuf = Below(Rank[o])
  BY <1>1, <1>3, <1>4, <1>5, <1>6, <1>7, ScanAt
<1>9. Rank[o] > 0 /\ slots[s].recvbuf = {o}
  BY <1>1, <1>2, <1>4, <1>6, <1>7, <1>8 DEF ScannedData
<1>10. PICK with : with = Plus(slots[s].sendbuf, slots[s].recvbuf)
  OBVIOUS
<1>11. slots[s].sendbuf = Below(Rank[o]) /\ with = Below(Rank[o] + 1)
  BY <1>4, <1>8, <1>9, <1>10, BelowIs
<1>12. PICK result, sum :
         /\ result = Result(Kind(t), slots[s].sendbuf, with)
         /\ sum = IF Kind(t) = "exscan" /\ todo[p] = <<>> THEN slots[s].sendbuf ELSE with
  OBVIOUS
<1>13. buf' = [buf EXCEPT ![o][t] = result] /\ slots' = [slots EXCEPT ![s].sendbuf = sum]
  BY <1>2, <1>4, <1>6, <1>10, <1>12 DEF ScanWrites, Kind
<1>14. Sums(s, sum, slots[s].recvbuf)
  BY <1>7, <1>13, SumsAre
<1>15. Gets(o, t, result)
  <2>1. buf \in [Procs -> [Calls -> Data]]
    BY <1>7 DEF TypeOK
  <2>2. buf'[o][t] = result /\ \A q \in Procs, u \in Calls : q # o \/ u # t => buf'[q][u] = buf[q][u]
    BY <1>4, <1>13, <2>1
  <2> QED  BY <2>2 DEF Gets
<1>16. Finishes(p, t, o)
  BY <1>1, <1>3, FinishesIs
<1>17. Advances(p, t)
  BY <1>1, <1>2, <1>4, <1>5, <1>6, <1>14, <1>15, <1>16 DEF Advances, Finishes, Sums, Gets
<1>18. ScannedData(t)'
  <2>1. \A q \in Procs : q # o => buf'[q][t] = buf[q][t]
    BY <1>4, <1>15 DEF Gets
  <2>2. /\ Kind(t) = "scan" => buf'[o][t] = Below(Rank[o] + 1)
        /\ Kind(t) = "exscan" => buf'[o][t] = Below(Rank[o])
    BY <1>11, <1>12, <1>15 DEF Gets, Result
  <2>3. todo[p] # <<>> => slots'[t % NSlots].sendbuf = Below(Rank[o] + 1)
    BY <1>6, <1>11, <1>12, <1>14 DEF Sums
  <2> QED  BY <1>1, <1>3, <1>4, <1>5, <1>7, <1>16, <1>17, <2>1, <2>2, <2>3, ScanFinishes
<1>19. Present(t)'
  BY <1>4, <1>6, <1>7, <1>14, <1>17, PresentStays DEF Sums
<1>20. Kind(t)' = Kind(t)
  BY <1>1 DEF Kind
<1>21. DataOf(t)'
  BY <1>5, <1>18, <1>19, <1>20 DEF DataOf
<1> QED  BY <1>4, <1>17, <1>21, AdvancesData

-----------------------------------------------------------------------------
(* The other steps                                                         *)

\* The root's cookie is alone in the slot that p has joined it in.
LEMMA JoinsAlone ==
  ASSUME CollInv, BusyInv, NEW p \in Procs, pc[p] = "join", NEW s \in Turns, s = call[p] % NSlots
  PROVE  slots[s].ticket = call[p] /\ Tail(slots[s].box) = <<>>
<1>1. PICK c \in Cookies, o \in Procs : c = at[p] /\ o = cookie[c].owner
  BY WorksOn
<1>2. slots[s].box # <<>> /\ Head(slots[s].box) = c /\ slots[s].ticket = call[p]
  BY <1>1 DEF CollInv, JoinInv
<1>3. c \in ToSet(slots[s].box)
  BY <1>2, SlotTypes, TailMembers DEF CollInv
<1>4. c \in pending[o] \/ RootsCookie(s, c)
  BY <1>1 DEF BusyInv, MoverInv, Moving
<1>5. c \notin pending[o]
  <2>1. /\ <<"box", s>> \in Places /\ <<"pending", o>> \in Places /\ <<"box", s>> # <<"pending", o>>
        /\ Contents(<<"box", s>>) = ToSet(slots[s].box) /\ Contents(<<"pending", o>>) = pending[o]
    BY PlaceTypes, ContentsAre
  <2> QED  BY <1>3, <2>1 DEF CollInv, PlacedOnce
<1>6. slots[s].box = <<c>>
  BY <1>4, <1>5 DEF RootsCookie
<1>7. Tail(<<c>>) = <<>>
  OBVIOUS
<1> QED  BY <1>2, <1>6, <1>7

\* p has found the root's cookie and stores used_; the transfer is still to come.
LEMMA JoinStoresData ==
  ASSUME ScratchApart, CollInv, CountInv, BusyInv, DataInv, NEW p \in Procs, JoinStores(p)
  PROVE  DataInv'
<1>1. /\ pc[p] = "join" /\ pc' = [pc EXCEPT ![p] = "deliver"] /\ Holds(p, call[p], at[p])
      /\ program' = program /\ cookie' = cookie /\ ticket' = ticket /\ call' = call /\ at' = at /\ todo' = todo
      /\ buf' = buf
  BY DEF JoinStores
<1>2. PICK t \in Calls, s \in Turns : t = call[p] /\ s = t % NSlots
  BY <1>1, WorksOn
<1>3. TypeOK /\ at[p] \in Cookies
  BY <1>1, WorksOn
<1>4. pc'[p] = "deliver" /\ \A q \in Procs : q # p => pc'[q] = pc[q] /\ reqs'[q] = reqs[q]
  <2>1. pc'[p] = "deliver" /\ \A q \in Procs : q # p => pc'[q] = pc[q]
    BY <1>1, <1>3 DEF TypeOK
  <2>2. \A q \in Procs : q # p => reqs'[q] = reqs[q]
    BY <1>1, <1>2, <1>3, HoldsIs
  <2> QED  BY <2>1, <2>2
<1>5. slots[s].ticket = t /\ Tail(slots[s].box) = <<>>
  BY <1>1, <1>2, JoinsAlone
<1>6. PICK old, box :
        /\ old \in SlotRecords /\ old = slots[s] /\ box \in {old.box, <<>>}
        /\ slots' = [slots EXCEPT ![s] = [old EXCEPT !.box = box, !.locked = FALSE]]
  <2>1. slots \in [Turns -> SlotRecords]
    BY <1>3 DEF TypeOK, Turns
  <2>2. PICK old \in SlotRecords : old = slots[s]
    BY <2>1
  <2>3. CASE slots[s].joined = N
    <3>1. slots' = [slots EXCEPT ![s] = [old EXCEPT !.box = <<>>, !.locked = FALSE]]
      BY <1>2, <1>5, <2>1, <2>2, <2>3 DEF JoinStores, Removed
    <3> QED  BY <2>2, <3>1
  <2>4. CASE slots[s].joined # N
    <3>1. slots' = [slots EXCEPT ![s] = [old EXCEPT !.locked = FALSE]]
      BY <1>2, <2>1, <2>2, <2>4 DEF JoinStores
    <3>2. [old EXCEPT !.locked = FALSE] = [old EXCEPT !.box = old.box, !.locked = FALSE]
      BY <2>2 DEF SlotRecords
    <3> QED  BY <2>2, <3>1, <3>2
  <2> QED  BY <2>3, <2>4
<1>7. PICK new : new = [old EXCEPT !.box = box, !.locked = FALSE]
  OBVIOUS
<1>8. /\ new.ticket = old.ticket /\ new.box = box /\ new.locked = FALSE /\ new.displs = old.displs
      /\ new.sendbuf = old.sendbuf /\ new.recvbuf = old.recvbuf
  BY <1>7 DEF SlotRecords
<1>9. slots'[s] = new /\ \A u \in Turns : u # s => slots'[u] = slots[u]
  BY <1>3, <1>6, <1>7 DEF TypeOK, Turns
<1>10. Inside(p) /\ Kind(t) \in Rooted /\ Root(t) # p /\ todo[p] = <<>>
  BY <1>1, <1>2 DEF Inside, DataInv, LeafInv
<1>11. Advances(p, t)
  BY <1>1, <1>2, <1>4, <1>5, <1>6, <1>8, <1>9, <1>10 DEF Advances
<1>12. Present(t) /\ RootedData(t) /\ LeafInv /\ Root(t) \in Procs
  BY <1>3, <1>10, KindsAre DEF DataInv, DataOf
<1>13. Present(t)'
  BY <1>2, <1>6, <1>8, <1>9, <1>11, <1>12, PresentStays
<1>14. RootedData(t)'
  <2>1. \A q \in Procs : buf'[q][t] = buf[q][t]
    BY <1>1
  <2>2. \A q : ~Owes(p, q, t)
    BY <1>1 DEF Owes, Serving
  <2>3. \A q \in Procs : q # p => \A r : Owes(q, r, t)' <=> Owes(q, r, t)
    BY <1>11, <1>12, AdvancesInside
  <2> QED  BY <1>4, <1>10, <1>11, <1>12, <2>1, <2>2, <2>3, RootedStays
<1>15. DataOf(t)'
  BY <1>1, <1>10, <1>13, <1>14 DEF DataOf, Kind, Rooted, Scans
<1> QED  BY <1>11, <1>15, AdvancesData

\* A step of a process that is not inside of a call, which leaves the slots and the buffers
\* as they were.
Neutral(p) ==
  /\ program' = program /\ slots' = slots /\ ticket' = ticket /\ cookie' = cookie /\ buf' = buf
  /\ \A q \in Procs : q # p =>
       pc'[q] = pc[q] /\ call'[q] = call[q] /\ at'[q] = at[q] /\ todo'[q] = todo[q] /\ reqs'[q] = reqs[q]
  /\ ~Inside(p) /\ ~Inside(p)'

\* The invariant is not about such a step.
LEMMA NeutralData ==
  ASSUME CollInv, CountInv, BusyInv, DataInv, NEW p \in Procs, Neutral(p)
  PROVE  DataInv'
<1>1. /\ program' = program /\ slots' = slots /\ ticket' = ticket /\ cookie' = cookie /\ buf' = buf
      /\ \A q \in Procs : q # p =>
           pc'[q] = pc[q] /\ call'[q] = call[q] /\ at'[q] = at[q] /\ todo'[q] = todo[q] /\ reqs'[q] = reqs[q]
      /\ ~Inside(p) /\ ~Inside(p)'
  BY DEF Neutral
<1>2. \A q \in Procs : Inside(q)' <=> Inside(q)
  BY <1>1 DEF Inside
<1>3. \A q \in Procs : Inside(q) =>
        pc'[q] = pc[q] /\ call'[q] = call[q] /\ at'[q] = at[q] /\ todo'[q] = todo[q] /\ reqs'[q] = reqs[q]
  BY <1>1
<1>4. \A u : Kind(u)' = Kind(u) /\ Root(u)' = Root(u) /\ Made(u)' = Made(u) /\ (Gathering(u)' <=> Gathering(u))
  BY <1>1 DEF Kind, Root, Made, Gathering
<1>5. ASSUME NEW u \in Calls  PROVE  DataOf(u)'
  <2>1. \A q \in Procs : In(q, u)' <=> In(q, u)
    BY <1>2, <1>3 DEF In
  <2>2. Same(u)
    BY <1>1, <1>3, <1>4, <2>1 DEF Same, In, SameCookie
  <2> QED  BY <2>2, SameData DEF DataInv
<1>6. OpenInv'
  <2>1. \A q \in Procs : Inside(q)' => ticket'[q] = call'[q] + 1
    BY <1>1, <1>2, <1>3 DEF DataInv, OpenInv
  <2>2. \A s \in Turns : slots'[s].locked => \E q \in Procs : pc'[q] = "join" /\ call'[q] % NSlots = s
    BY <1>1, <1>3 DEF DataInv, OpenInv, Inside
  <2>3. \A c \in Cookies : cookie'[c].owner = cookie'[c].src
    BY <1>1 DEF DataInv, OpenInv
  <2> QED  BY <2>1, <2>2, <2>3 DEF OpenInv
<1>7. LeafInv'
  <2> SUFFICES ASSUME NEW q \in Procs, Inside(q)'
               PROVE  /\ pc'[q] = "join" => Kind(call'[q]) \in Rooted /\ Root(call'[q]) # q
                      /\ Kind(call'[q]) \in Rooted /\ Root(call'[q]) # q =>
                           /\ pc'[q] \in {"join", "deliver"} /\ todo'[q] = <<>>
                           /\ cookie'[at'[q]].owner = Root(call'[q])
                      /\ Kind(call'[q]) \notin Scans => pc'[q] # "scan"
    BY <1>1 DEF LeafInv, Kind, Root
  <2>1. Inside(q)
    BY <1>2
  <2> QED  BY <1>1, <1>3, <2>1 DEF DataInv, LeafInv
<1>8. ServeInv'
  <2>1. \A q \in Procs, u \in Calls : Serving(q, u)' <=> Serving(q, u)
    BY <1>1 DEF Serving, Inside
  <2> QED  BY <1>4, <2>1 DEF DataInv, ServeInv
<1> QED  BY <1>1, <1>5, <1>6, <1>7, <1>8 DEF DataInv

\* MPI_Wait is of this kind.
LEMMA WaitData ==
  ASSUME CollInv, NEW p \in Procs, (\E t \in Calls : Wait(p, t)) \/ Leaves(p) \/ Leave(p)
  PROVE  Neutral(p)
<1>1. TypeOK
  BY DEF CollInv
<1>2. CASE \E t \in Calls : Wait(p, t)
  <2>1. PICK t \in Calls : pc[p] = "idle" /\ Goes(p, "wait", t, reqs[p][t], <<>>)
    BY <1>2 DEF Wait
  <2>2. /\ pc' = [pc EXCEPT ![p] = "wait"] /\ call' = [call EXCEPT ![p] = t]
        /\ at' = [at EXCEPT ![p] = reqs[p][t]] /\ todo' = [todo EXCEPT ![p] = <<>>]
    BY <2>1 DEF Goes
  <2>3. program' = program /\ slots' = slots /\ ticket' = ticket /\ cookie' = cookie /\ buf' = buf /\ reqs' = reqs
    BY <1>2 DEF Wait, cookies
  <2> QED  BY <1>1, <2>1, <2>2, <2>3 DEF Neutral, Inside, TypeOK
<1>3. CASE Leaves(p)
  <2>1. pc[p] = "wait" /\ pc' = [pc EXCEPT ![p] = "leave"] /\ call' = call /\ at' = at /\ todo' = todo
    BY <1>3 DEF Leaves
  <2>2. program' = program /\ slots' = slots /\ ticket' = ticket /\ cookie' = cookie /\ buf' = buf /\ reqs' = reqs
    BY <1>3 DEF Leaves, cookies
  <2> QED  BY <1>1, <2>1, <2>2 DEF Neutral, Inside, TypeOK
<1>4. CASE Leave(p)
  <2>1. pc[p] = "leave" /\ Holds(p, call[p], NoCookie) /\ Returns(p)
    BY <1>4 DEF Leave
  <2>2. /\ pc' = [pc EXCEPT ![p] = "idle"] /\ call' = [call EXCEPT ![p] = 0]
        /\ at' = [at EXCEPT ![p] = NoCookie] /\ todo' = [todo EXCEPT ![p] = <<>>]
    BY <2>1 DEF Returns, Goes
  <2>3. program' = program /\ slots' = slots /\ ticket' = ticket /\ cookie' = cookie /\ buf' = buf
    BY <1>4 DEF Leave
  <2>4. \A q \in Procs : q # p => reqs'[q] = reqs[q]
    BY <1>1, <2>1, WorksOn, HoldsIs
  <2>5. /\ pc'[p] = "idle"
        /\ \A q \in Procs : q # p => pc'[q] = pc[q] /\ call'[q] = call[q] /\ at'[q] = at[q] /\ todo'[q] = todo[q]
    BY <1>1, <2>2 DEF TypeOK
  <2> QED  BY <2>1, <2>3, <2>4, <2>5 DEF Neutral, Inside
<1> QED  BY <1>2, <1>3, <1>4

\* Nor is it about a step that changes none of what it speaks of.
LEMMA StillData ==
  ASSUME CollInv, CountInv, BusyInv, DataInv,
         UNCHANGED <<program, slots, cookies, ticket, calls, reqs, buf>>
  PROVE  DataInv'
<1>1. /\ program' = program /\ slots' = slots /\ ticket' = ticket /\ cookie' = cookie /\ buf' = buf
      /\ pc' = pc /\ call' = call /\ at' = at /\ todo' = todo /\ reqs' = reqs
  BY DEF cookies, calls
<1>2. ASSUME NEW u \in Calls  PROVE  DataOf(u)'
  <2>1. /\ Made(u)' = Made(u) /\ (Gathering(u)' <=> Gathering(u))
        /\ \A q \in Procs : In(q, u)' <=> In(q, u)
    BY <1>1 DEF Made, Gathering, In, Inside
  <2>2. Same(u)
    BY <1>1, <2>1 DEF Same, SameCookie
  <2> QED  BY <2>2, SameData DEF DataInv
<1>3. OpenInv'
  BY <1>1 DEF DataInv, OpenInv, Inside
<1>4. LeafInv'
  BY <1>1 DEF DataInv, LeafInv, Inside, Kind, Root
<1>5. ServeInv'
  BY <1>1 DEF DataInv, ServeInv, Serving, Kind, Made
<1> QED  BY <1>1, <1>2, <1>3, <1>4, <1>5 DEF DataInv

\* Nobody has made a call.
LEMMA InitData ==
  ASSUME Init
  PROVE  DataInv
<1>1. /\ program \in Programs
      /\ slots = [s \in 0..(NSlots - 1) |->
                    [ticket |-> 0, joined |-> 0, box |-> <<>>, locked |-> FALSE, displs |-> 0,
                     sendbuf |-> {}, recvbuf |-> {}]]
      /\ cookie = [c \in Cookies |-> [owner |-> Nobody, src |-> Nobody, err |-> MPI_SUCCESS, call |-> 0]]
      /\ ticket = [p \in Procs |-> 0]
      /\ pc = [p \in Procs |-> "idle"]
  BY DEF Init
<1>2. \A p \in Procs : ~Inside(p)
  BY <1>1 DEF Inside
<1>3. \A p \in Procs : \A t : ~Serving(p, t) /\ \A q : ~Owes(p, q, t)
  BY <1>1 DEF Serving, Owes
<1>4. PICK first \in Procs : TRUE
  BY ProcsAssumption, FS_EmptySet
<1>5. OpenInv
  <2>1. \A s \in Turns : slots[s].locked = FALSE
    BY <1>1 DEF Turns
  <2>2. \A c \in Cookies : cookie[c].owner = cookie[c].src
    BY <1>1
  <2> QED  BY <1>2, <2>1, <2>2 DEF OpenInv
<1>6. LeafInv /\ ServeInv
  BY <1>2, <1>3 DEF LeafInv, ServeInv
<1>7. ASSUME NEW t \in Calls  PROVE  DataOf(t)
  <2>1. t \in Nat /\ t % NSlots \in 0..(NSlots - 1)
    BY BoundsAssumption DEF Calls
  <2>2. slots[t % NSlots].box = <<>>
    BY <1>1, <2>1
  <2>3. ~Gathering(t)
    BY <2>2 DEF Gathering
  <2>4. Made(t) = {}
    BY <1>1, <2>1 DEF Made
  <2>5. Made(t) # Procs
    BY <1>4, <2>4
  <2>6. \A q : ToCome(q, t)
    BY <2>4 DEF ToCome
  <2>7. Present(t)
    BY <2>3 DEF Present
  <2>8. RootedData(t)
    BY <2>4, <2>6 DEF RootedData
  <2>9. GatheredData(t)
    BY <1>3, <2>3, <2>4, <2>5 DEF GatheredData
  <2>10. ReducedData(t)
    BY <1>3, <2>3, <2>5 DEF ReducedData
  <2>11. ScannedData(t)
    BY <1>3, <2>4, <2>5 DEF ScannedData
  <2> QED  BY <2>7, <2>8, <2>9, <2>10, <2>11 DEF DataOf
<1> QED  BY <1>1, <1>5, <1>6, <1>7 DEF DataInv

\* Each step preserves the invariant.
LEMMA StepData ==
  ASSUME AtomicCounts, MPI_FAIL \notin Outcomes, ScratchApart, CollInv, CountInv, BusyInv, DataInv, [Next]_vars
  PROVE  DataInv'
<1>1. CASE UNCHANGED vars
  <2>1. UNCHANGED <<program, slots, cookies, ticket, calls, reqs, buf>>
    BY <1>1 DEF vars
  <2> QED  BY <2>1, StillData
<1>2. ASSUME NEW p \in Procs, Step(p)  PROVE  DataInv'
  <2>1. CASE Exits(p)
    <3>1. UNCHANGED <<program, slots, cookies, ticket, calls, reqs, buf>>
      BY <2>1 DEF Exits
    <3> QED  BY <3>1, StillData
  <2>2. ~ExchangeFails(p) /\ ~ScanRejects(p) /\ ~DeliverFails(p)
    BY DEF ExchangeFails, ScanRejects, DeliverFails
  <2>3. CASE Enter(p) /\ ~Exits(p)
    BY <2>2, <2>3, LeafJoinsData, LeafPostsData, RootPostsData, RootLastData, ExchangeFirstData,
       ExchangeMiddleData, ExchangeLastData, InplacePostsData, InplaceLastData, ScanPostsData DEF Enter
  <2>4. CASE (\E t \in Calls : Wait(p, t)) \/ Leaves(p) \/ Leave(p)
    <3>1. Neutral(p)
      BY <2>4, WaitData
    <3> QED  BY <3>1, NeutralData
  <2>5. CASE JoinStores(p) \/ Serve(p) \/ Deliver(p) \/ ScanReads(p) \/ ScanWrites(p)
    BY <2>5, JoinStoresData, ServeData, DeliverData, ScanReadsData, ScanWritesData
  <2> QED  BY <1>2, <2>1, <2>2, <2>3, <2>4, <2>5 DEF Step
<1> QED  BY <1>1, <1>2 DEF Next

\* In a job without errors, whose processes count references one after the other, a process
\* that completes a collective call has all the data it is to get, and those it gives data
\* to have it, in whatever order the processes come and serve each other: MPI_Wait returns
\* when busy_ is 0, and what class collect does before it counts busy_ down is enough. The
\* calls of the program must not overwrite what an earlier one keeps in the slot for a
\* process that still reads it, as a second MPI_Igatherv does with displs_.
THEOREM CompletedCorrect ==
  ASSUME AtomicCounts, MPI_FAIL \notin Outcomes, ScratchApart
  PROVE  Spec => []Completed
<1>1. Init => DataInv
  BY InitData
<1>2. CollInv /\ CountInv /\ BusyInv /\ DataInv /\ [Next]_vars => DataInv'
  BY StepData
<1>3. CollInv /\ CountInv /\ BusyInv /\ DataInv => Completed
  BY DataComplete
<1> QED  BY <1>1, <1>2, <1>3, WellInv, PTL DEF Spec

=============================================================================
