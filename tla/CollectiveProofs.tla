--------------------------- MODULE CollectiveProofs ---------------------------
(***************************************************************************)
(* Proofs about Collective, for every number of processes, cookies, slots  *)
(* and calls and every program.                                            *)
(***************************************************************************)
EXTENDS Collective, SequenceLemmas, FiniteSetTheorems, TLAPS

-----------------------------------------------------------------------------
(* The inductive invariant                                                 *)

Turns == 0..(NSlots - 1)

\* A cookie that some process has created.
Known(c) ==
  cookie[c].owner \in Procs /\ cookie[c].src \in Procs /\ cookie[c].call \in Calls

\* The lists a cookie may be in.
Places == ({"pending", "free", "todo"} \X Procs) \cup ({"box"} \X Turns)

Contents(x) ==
  CASE x[1] = "pending" -> pending[x[2]]
    [] x[1] = "free"    -> free[x[2]]
    [] x[1] = "todo"    -> ToSet(todo[x[2]])
    [] x[1] = "box"     -> ToSet(slots[x[2]].box)

\* Where a process is in the library tells what its local variables hold.
CallInv ==
  \A p \in Procs :
    /\ pc[p] # "idle" => call[p] \in Calls /\ call[p] < ticket[p]
    /\ pc[p] \notin {"serve", "deliver", "scan"} => todo[p] = <<>>
    /\ pc[p] = "serve" => todo[p] # <<>>
    /\ pc[p] \in {"idle", "serve"} => at[p] = NoCookie
    /\ pc[p] \in {"join", "deliver", "scan", "wait", "leave"} => at[p] \in Cookies
    /\ pc[p] \in {"wait", "leave"} => reqs[p][call[p]] = at[p]
    /\ pc[p] = "join" => reqs[p][call[p]] = NoCookie
    /\ \A t \in Calls : reqs[p][t] # NoCookie => t < ticket[p]

\* Whatever a process holds, and whatever is in a list, has been created.
KnownInv ==
  /\ \A p \in Procs : at[p] # NoCookie => Known(at[p])
  /\ \A p \in Procs, t \in Calls : reqs[p][t] # NoCookie => Known(reqs[p][t])
  /\ \A x \in Places : \A c \in Contents(x) : Known(c)

\* A cookie is in one list at a time, and once.
PlacedOnce ==
  /\ \A x, y \in Places : x # y => Contents(x) \cap Contents(y) = {}
  /\ \A p \in Procs : IsInjective(todo[p])
  /\ \A s \in Turns : IsInjective(slots[s].box)

\* The slot a process joins the root's cookie in is locked, and not by another one.
JoinInv ==
  /\ \A p \in Procs : pc[p] = "join" =>
       LET slot == slots[call[p] % NSlots] IN
       slot.locked /\ slot.box # <<>> /\ Head(slot.box) = at[p] /\ slot.ticket = call[p]
  /\ \A p, q \in Procs :
       pc[p] = "join" /\ pc[q] = "join" /\ call[p] % NSlots = call[q] % NSlots => p = q

\* The cookies of a slot are of different processes, which have made its call. A call
\* that some have made and others have not is that of its slot, which is not free.
RingInv ==
  /\ SlotMatchesCall
  /\ \A s \in Turns : \A c \in ToSet(slots[s].box) : ticket[cookie[c].src] > slots[s].ticket
  /\ \A s \in Turns : \A c, d \in ToSet(slots[s].box) : cookie[c].src = cookie[d].src => c = d
  /\ \A s \in Turns : slots[s].box # <<>> => slots[s].ticket % NSlots = s
  /\ \A t \in Calls : \A p, q \in Procs : ticket[p] <= t /\ t < ticket[q] =>
       LET slot == slots[t % NSlots] IN slot.ticket = t /\ (slot.box # <<>> \/ slot.locked)

CollInv == TypeOK /\ CallInv /\ KnownInv /\ PlacedOnce /\ JoinInv /\ RingInv

\* A cookie that is in a list other than a free one.
InUse(c) == \E x \in Places : x[1] # "free" /\ c \in Contents(x)

\* As long as no transfer fails, no reference is lost, and a cookie somebody holds is in
\* use.
CountInv ==
  /\ RefCount
  /\ \A c \in Cookies : lost[c] = 0
  /\ \A p \in Procs, t \in Calls : reqs[p][t] # NoCookie => InUse(reqs[p][t])

\* The root of a rooted operation waits in slot s, with nobody else.
RootsCookie(s, c) ==
  LET op == program[slots[s].ticket] IN
  slots[s].box = <<c>> /\ op.kind \in Rooted /\ cookie[c].src = op.root

Moving == {"join", "deliver", "scan"}

\* Those that move data for c and will do so once more.
Twice(c) == {q \in Movers(c) : MovesTwice(q)}

\* Who moves data does so for his own call, with a cookie that is pending, or with that of
\* a root who waits in the slot.
MoverInv ==
  \A p \in Procs : pc[p] \in Moving =>
    /\ cookie[at[p]].call = call[p]
    /\ at[p] \in pending[cookie[at[p]].owner] \/ RootsCookie(call[p] % NSlots, at[p])

\* A root does not wait with others in a slot, and in an allreduce everybody does.
BoxInv ==
  \A s \in Turns : slots[s].box # <<>> =>
    LET op == program[slots[s].ticket] IN
    /\ op.kind \in Rooted => \A c \in ToSet(slots[s].box) : cookie[c].src = op.root => slots[s].box = <<c>>
    /\ op.kind = "allreduce" => Len(slots[s].box) = slots[s].joined

\* A process serves the cookies of its call; pending cookies are with their owner.
ListsInv ==
  /\ \A p \in Procs : \A c \in ToSet(todo[p]) : cookie[c].call = call[p]
  /\ \A p \in Procs : \A c \in pending[p] : cookie[c].owner = p

\* The owner of a cookie still has it as long as data is to be moved.
OwnerInv ==
  /\ \A c \in Cookies : InUse(c) /\ busy[c] > 0 => reqs[cookie[c].owner][cookie[c].call] = c
  /\ \A p \in Procs : pc[p] = "leave" /\ cookie[at[p]].owner = p => busy[at[p]] = 0

BusyInv ==
  /\ BusyExact /\ MoverInv /\ BoxInv /\ ListsInv /\ OwnerInv
  /\ \A c \in Cookies : cookie[c].err = MPI_SUCCESS

-----------------------------------------------------------------------------
(* Facts about the constants and the slots                                 *)

LEMMA ConstantTypes ==
  /\ IsFiniteSet(Procs) /\ N \in Nat /\ N > 1
  /\ NSlots \in Nat /\ NSlots > 0 /\ MaxCalls \in Nat /\ Trigger \in Nat
  /\ NoCookie \notin Cookies
BY ProcsAssumption, BoundsAssumption, CookiesAssumption, FS_CardinalityType DEF N

LEMMA CallsAre == \A t : t \in Calls <=> t \in Nat /\ t < MaxCalls
BY ConstantTypes DEF Calls

LEMMA EmptyList == <<>> \in Seq(Cookies) /\ IsInjective(<<>>) /\ ToSet(<<>>) = {}
BY EmptySeq DEF IsInjective, ToSet

LEMMA TurnOf == \A t \in Nat : t % NSlots \in Turns
BY ConstantTypes DEF Turns

LEMMA SlotTypes ==
  ASSUME TypeOK, NEW s \in Turns
  PROVE  /\ slots[s] \in SlotRecords
         /\ slots[s].ticket \in Nat /\ slots[s].joined \in 0..N /\ slots[s].locked \in BOOLEAN
         /\ slots[s].box \in Seq(Cookies) /\ ToSet(slots[s].box) \subseteq Cookies
         /\ DOMAIN slots = Turns
<1>1. slots[s] \in SlotRecords /\ DOMAIN slots = Turns
  BY DEF TypeOK, Turns
<1>2. /\ slots[s].ticket \in Nat /\ slots[s].joined \in 0..N /\ slots[s].locked \in BOOLEAN
      /\ slots[s].box \in Seq(Cookies)
  BY <1>1 DEF SlotRecords
<1> QED  BY <1>1, <1>2, MembersAre

LEMMA TicketType ==
  ASSUME TypeOK, NEW p \in Procs
  PROVE  ticket[p] \in Nat /\ ticket[p] <= MaxCalls
<1>1. ticket[p] \in 0..MaxCalls
  BY DEF TypeOK
<1> QED  BY <1>1, ConstantTypes

LEMMA PlaceTypes ==
  /\ \A p \in Procs : <<"pending", p>> \in Places /\ <<"free", p>> \in Places /\ <<"todo", p>> \in Places
  /\ \A s \in Turns : <<"box", s>> \in Places
  /\ \A x \in Places :
       \/ \E p \in Procs : x = <<"pending", p>> \/ x = <<"free", p>> \/ x = <<"todo", p>>
       \/ \E s \in Turns : x = <<"box", s>>
BY DEF Places

LEMMA ContentsAre ==
  /\ \A p : /\ Contents(<<"pending", p>>) = pending[p]
            /\ Contents(<<"free", p>>) = free[p]
            /\ Contents(<<"todo", p>>) = ToSet(todo[p])
  /\ \A s : Contents(<<"box", s>>) = ToSet(slots[s].box)
BY DEF Contents

LEMMA ContentsBecome ==
  /\ \A p : /\ Contents(<<"pending", p>>)' = pending'[p]
            /\ Contents(<<"free", p>>)' = free'[p]
            /\ Contents(<<"todo", p>>)' = ToSet(todo'[p])
  /\ \A s : Contents(<<"box", s>>)' = ToSet(slots'[s].box)
BY DEF Contents

\* The processes that have made call t.
Made(t) == {p \in Procs : ticket[p] > t}

LEMMA MadeIsFinite ==
  \A t : /\ IsFiniteSet(Made(t)) /\ Cardinality(Made(t)) \in 0..N
         /\ Cardinality(Made(t)) = N => Made(t) = Procs
<1> TAKE t
<1>1. Made(t) \in SUBSET Procs
  BY DEF Made
<1>2. /\ IsFiniteSet(Made(t)) /\ Cardinality(Made(t)) <= Cardinality(Procs)
      /\ (Cardinality(Made(t)) = Cardinality(Procs) => Made(t) = Procs)
  BY <1>1, ConstantTypes, FS_Subset
<1>3. Cardinality(Made(t)) \in Nat
  BY <1>2, FS_CardinalityType
<1> QED  BY <1>2, <1>3, ConstantTypes DEF N

\* SlotMatchesCall for slot s.
Matches(s) ==
  slots[s].box # <<>> =>
    /\ slots[s].joined = Cardinality(Made(slots[s].ticket))
    /\ \A c \in ToSet(slots[s].box) : cookie[c].call = slots[s].ticket

LEMMA MatchesAre ==
  ASSUME DOMAIN slots = Turns
  PROVE  SlotMatchesCall <=> \A s \in Turns : Matches(s)
BY DEF SlotMatchesCall, Matches, Made

LEMMA MatchesBecome ==
  ASSUME DOMAIN slots' = Turns
  PROVE  SlotMatchesCall' <=> \A s \in Turns : Matches(s)'
BY DEF SlotMatchesCall, Matches, Made

\* A process that gets its slot finds the cookies of its own call, and joined_ becomes
\* the number of those that have made it.
LEMMA JoinedIs ==
  ASSUME CollInv, NEW p \in Procs, Enters(p)
  PROVE  /\ Turn(p) \in Turns /\ Slot(p) \in SlotRecords /\ ~Slot(p).locked
         /\ Box(p) = slots[Turn(p)].box /\ Box(p) \in Seq(Cookies) /\ IsInjective(Box(p))
         /\ ticket[p] \in Calls /\ ticket[p] \in Nat /\ p \notin Made(ticket[p])
         /\ JoinedBy(p) = Cardinality(Made(ticket[p]) \cup {p}) /\ JoinedBy(p) \in 1..N
         /\ Box(p) = <<>> => Made(ticket[p]) = {}
         /\ Box(p) # <<>> => Slot(p).ticket = ticket[p]
         /\ ComesFirst(p) => Box(p) = <<>>
         /\ ComesLast(p) => Box(p) # <<>>
<1> DEFINE t == ticket[p]
<1>1. TypeOK /\ RingInv /\ PlacedOnce
  BY DEF CollInv
<1>2. t \in Calls /\ ~Slot(p).locked
  BY DEF Enters, Calling
<1>3. t \in Nat /\ Turn(p) \in Turns
  BY <1>2, CallsAre, TurnOf DEF Turn
<1>4. /\ Slot(p) = slots[Turn(p)] /\ Box(p) = slots[Turn(p)].box
      /\ Slot(p) \in SlotRecords /\ Slot(p).joined \in 0..N /\ Box(p) \in Seq(Cookies) /\ IsInjective(Box(p))
  BY <1>1, <1>3, SlotTypes DEF Slot, Box, PlacedOnce
<1>5. p \notin Made(t)
  BY <1>3 DEF Made
<1>6. IsFiniteSet(Made(t) \cup {p}) /\ Cardinality(Made(t) \cup {p}) = Cardinality(Made(t)) + 1
  BY <1>5, MadeIsFinite, FS_AddElement
<1>7. Cardinality(Made(t)) \in 0..N /\ Cardinality(Made(t)) # N
  BY <1>5, MadeIsFinite
<1>8. Box(p) # <<>> => Slot(p).ticket = t
  BY DEF Enters, Fits
<1>9. CASE Box(p) = <<>>
  <2>1. Made(t) = {}
    <3> SUFFICES ASSUME NEW q \in Procs, ticket[q] > t  PROVE  FALSE
      BY DEF Made
    <3>1. ticket[q] \in Nat
      BY <1>1, TicketType
    <3>2. ticket[p] <= t /\ t < ticket[q]
      BY <1>3, <3>1
    <3>3. Box(p) # <<>> \/ Slot(p).locked
      BY <1>1, <1>2, <3>2 DEF RingInv, Slot, Box, Turn
    <3> QED  BY <1>2, <1>9, <3>3
  <2>2. Cardinality(Made(t)) = 0
    BY <2>1, FS_EmptySet
  <2>3. JoinedBy(p) = 1
    BY <1>9 DEF JoinedBy
  <2> QED  BY <1>2, <1>3, <1>4, <1>5, <1>6, <1>9, <2>1, <2>2, <2>3, ConstantTypes DEF ComesFirst, ComesLast
<1>10. CASE Box(p) # <<>>
  <2>1. Slot(p).joined = Cardinality(Made(t))
    <3>1. slots[Turn(p)].joined = Cardinality({q \in Procs : ticket[q] > slots[Turn(p)].ticket})
      BY <1>1, <1>3, <1>4, <1>10, SlotTypes DEF RingInv, SlotMatchesCall
    <3>2. slots[Turn(p)].ticket = t
      BY <1>4, <1>8, <1>10
    <3> QED  BY <1>4, <3>1, <3>2 DEF Made
  <2>2. JoinedBy(p) = Cardinality(Made(t)) + 1
    BY <1>10, <2>1 DEF JoinedBy
  <2>3. Cardinality(Made(t)) # 0
    <3>1. Head(Box(p)) \in ToSet(Box(p)) /\ Head(Box(p)) \in Cookies
      BY <1>4, <1>10, TailMembers
    <3>2. ticket[cookie[Head(Box(p))].src] > slots[Turn(p)].ticket /\ slots[Turn(p)].ticket = t
      BY <1>1, <1>3, <1>4, <1>8, <1>10, <3>1 DEF RingInv
    <3>3. cookie[Head(Box(p))].src \in Procs
      <4>1. Head(Box(p)) \in Contents(<<"box", Turn(p)>>) /\ <<"box", Turn(p)>> \in Places
        BY <1>3, <1>4, <3>1, PlaceTypes, ContentsAre
      <4> QED  BY <4>1 DEF CollInv, KnownInv, Known
    <3>4. Made(t) # {}
      BY <3>2, <3>3 DEF Made
    <3> QED  BY <3>4, MadeIsFinite, FS_EmptySet
  <2>4. JoinedBy(p) # 1 /\ JoinedBy(p) \in 1..N
    BY <1>7, <2>2, <2>3, ConstantTypes
  <2> QED  BY <1>2, <1>3, <1>4, <1>5, <1>6, <1>8, <1>10, <2>2, <2>4 DEF ComesFirst
<1> QED  BY <1>9, <1>10

-----------------------------------------------------------------------------
(* What a call does to the ring and to the lists                           *)

\* p has taken its turn and left box in its slot.
TurnTaken(p, box, locked) ==
  /\ slots' \in [Turns -> SlotRecords]
  /\ slots'[Turn(p)].ticket = ticket[p] /\ slots'[Turn(p)].joined = JoinedBy(p)
  /\ slots'[Turn(p)].box = box /\ slots'[Turn(p)].locked = locked
  /\ \A s \in Turns : s # Turn(p) => slots'[s] = slots[s]
  /\ ticket' = [ticket EXCEPT ![p] = @ + 1]

LEMMA TurnedIs ==
  ASSUME CollInv, NEW p \in Procs, Enters(p), NEW box \in Seq(Cookies), NEW locked \in BOOLEAN
  PROVE  /\ Turned(p, box, locked) \in SlotRecords
         /\ Turned(p, box, locked).ticket = ticket[p] /\ Turned(p, box, locked).joined = JoinedBy(p)
         /\ Turned(p, box, locked).box = box /\ Turned(p, box, locked).locked = locked
<1>1. Slot(p) \in SlotRecords /\ ticket[p] \in Nat /\ JoinedBy(p) \in 0..N
  <2>1. Slot(p) \in SlotRecords /\ ticket[p] \in Nat /\ JoinedBy(p) \in 1..N
    BY JoinedIs
  <2> QED  BY <2>1, ConstantTypes
<1>2. Turned(p, box, locked) =
        [Slot(p) EXCEPT !.ticket = ticket[p], !.joined = JoinedBy(p), !.box = box, !.locked = locked]
  BY DEF Turned
<1> HIDE DEF Turned
<1>3. PICK old \in SlotRecords : old = Slot(p)
  BY <1>1
<1>4. PICK new : new = Turned(p, box, locked)
  OBVIOUS
<1>5. new = [old EXCEPT !.ticket = ticket[p], !.joined = JoinedBy(p), !.box = box, !.locked = locked]
  BY <1>2, <1>3, <1>4
<1>6. new.ticket = ticket[p] /\ new.joined = JoinedBy(p) /\ new.box = box /\ new.locked = locked
  BY <1>5 DEF SlotRecords
<1>7. new \in SlotRecords
  BY <1>1, <1>5 DEF SlotRecords
<1> QED  BY <1>4, <1>6, <1>7

LEMMA TurnTakenWith ==
  ASSUME CollInv, NEW p \in Procs, Enters(p), NEW slot \in SlotRecords,
         slot.ticket = ticket[p], slot.joined = JoinedBy(p), TakesTurnWith(p, slot)
  PROVE  TurnTaken(p, slot.box, slot.locked)
<1>1. Turn(p) \in Turns /\ slots \in [Turns -> SlotRecords]
  BY JoinedIs DEF CollInv, TypeOK, Turns
<1>2. slots' = [slots EXCEPT ![Turn(p)] = slot] /\ ticket' = [ticket EXCEPT ![p] = @ + 1]
  BY DEF TakesTurnWith
<1> QED  BY <1>1, <1>2 DEF TurnTaken

LEMMA TurnTakenBy ==
  ASSUME CollInv, NEW p \in Procs, Enters(p), NEW box \in Seq(Cookies), NEW locked \in BOOLEAN,
         TakesTurn(p, box, locked)
  PROVE  TurnTaken(p, box, locked)
<1> DEFINE turned == Turned(p, box, locked)
           displs == IF Op(p).kind = "gatherv" /\ Op(p).root = p THEN ticket[p] ELSE turned.displs
           slot   == [turned EXCEPT !.displs = displs]
<1>1. /\ turned \in SlotRecords
      /\ turned.ticket = ticket[p] /\ turned.joined = JoinedBy(p) /\ turned.box = box /\ turned.locked = locked
  BY TurnedIs
<1>2. TakesTurnWith(p, slot)
  BY DEF TakesTurn
<1>3. ticket[p] \in Nat
  BY JoinedIs
<1> HIDE DEF turned
<1>4. displs \in Nat
  BY <1>1, <1>3 DEF SlotRecords
<1> HIDE DEF displs
<1>5. /\ slot \in SlotRecords
      /\ slot.ticket = ticket[p] /\ slot.joined = JoinedBy(p) /\ slot.box = box /\ slot.locked = locked
  BY <1>1, <1>4 DEF SlotRecords
<1> HIDE DEF slot
<1> QED  BY <1>2, <1>5, TurnTakenWith

\* A cookie that can be created is in no list but the process's own free list.
Fresh(p, c) == \A x \in Places : c \in Contents(x) => x = <<"free", p>>

LEMMA AvailableIsFresh ==
  ASSUME CollInv, NEW p \in Procs, NEW c \in Available(p)
  PROVE  c \in Cookies /\ Fresh(p, c)
<1>1. CASE free[p] # {}
  <2>1. c \in free[p]
    BY <1>1 DEF Available
  <2>2. c \in Contents(<<"free", p>>) /\ <<"free", p>> \in Places
    BY <2>1, ContentsAre, PlaceTypes
  <2>3. c \in Cookies
    BY <2>1 DEF CollInv, TypeOK
  <2> QED  BY <2>2, <2>3 DEF Fresh, CollInv, PlacedOnce
<1>2. CASE free[p] = {}
  <2>1. c \in Cookies /\ ~Placed(c)
    BY <1>2 DEF Available
  <2>2. DOMAIN slots = Turns
    BY DEF CollInv, TypeOK, Turns
  <2> SUFFICES ASSUME NEW x \in Places, c \in Contents(x)  PROVE  FALSE
    BY <2>1 DEF Fresh
  <2>3. Placed(c)
    BY <2>2, PlaceTypes, ContentsAre DEF Placed
  <2> QED  BY <2>1, <2>3
<1> QED  BY <1>1, <1>2

\* p has made its call: it has created the cookies in new, which is a set of one or none,
\* left those in box in its slot, and taken those in rest to serve them.
Entered(p, new, box, locked, rest) ==
  /\ TurnTaken(p, box, locked)
  /\ box # <<>> \/ locked \/ ComesLast(p)
  /\ pending' = pending
  /\ free' = [free EXCEPT ![p] = @ \ new]
  /\ todo' = [todo EXCEPT ![p] = rest]
  /\ box \in Seq(Cookies) /\ IsInjective(box)
  /\ rest \in Seq(Cookies) /\ IsInjective(rest)
  /\ ToSet(box) \cap ToSet(rest) = {}
  /\ ToSet(box) \cup ToSet(rest) = ToSet(Box(p)) \cup new

\* The cookies in new are p's and of its call, the others are as they were.
Created(p, new) ==
  /\ new \subseteq Cookies
  /\ \A c, d \in new : c = d
  /\ \A c \in new :
       /\ Fresh(p, c)
       /\ cookie'[c].owner = p /\ cookie'[c].src = p /\ cookie'[c].call = ticket[p]
  /\ \A c \in Cookies : c \notin new =>
       cookie'[c].owner = cookie[c].owner /\ cookie'[c].src = cookie[c].src /\ cookie'[c].call = cookie[c].call

\* p goes on to serve the cookies in rest, or to join the root's cookie, or returns.
WentOn(p, new, locked, rest) ==
  /\ \A q \in Procs : q # p =>
       pc'[q] = pc[q] /\ call'[q] = call[q] /\ at'[q] = at[q] /\ reqs'[q] = reqs[q]
  /\ reqs' \in [Procs -> [Calls -> Cookies \cup {NoCookie}]]
  /\ \A t \in Calls :
       \/ reqs'[p][t] = reqs[p][t]
       \/ t = ticket[p] /\ reqs'[p][t] \in ToSet(Box(p)) \cup new
  /\ \/ pc'[p] = "idle" /\ at'[p] = NoCookie /\ rest = <<>>
     \/ pc'[p] = "serve" /\ call'[p] = ticket[p] /\ at'[p] = NoCookie /\ rest # <<>>
     \/ /\ pc'[p] = "join" /\ call'[p] = ticket[p] /\ locked /\ rest = <<>> /\ Box(p) # <<>>
        /\ at'[p] = Head(Box(p)) /\ slots'[Turn(p)].box = Box(p) /\ reqs' = reqs

\* A call leaves every cookie in one list.
LEMMA EnteredPlaces ==
  ASSUME CollInv, NEW p \in Procs, NEW new, NEW box, NEW locked, NEW rest,
         Enters(p), Entered(p, new, box, locked, rest), Created(p, new)
  PROVE  PlacedOnce'
<1>0. PICK turn \in Turns : turn = Turn(p)
  BY JoinedIs
<1> DEFINE bx == <<"box", turn>>
           td == <<"todo", p>>
<1>1. /\ turn = Turn(p) /\ Contents(bx) = ToSet(Box(p)) /\ bx \in Places
      /\ td \in Places /\ bx # td /\ TypeOK /\ PlacedOnce
  BY <1>0, JoinedIs, PlaceTypes, ContentsAre, ContentsBecome DEF CollInv
<1>2. /\ slots'[turn].box = box /\ \A s \in Turns : s # turn => slots'[s] = slots[s]
      /\ pending' = pending /\ free'[p] = free[p] \ new /\ todo'[p] = rest
      /\ \A q \in Procs : q # p => free'[q] = free[q] /\ todo'[q] = todo[q]
  BY <1>1 DEF Entered, TurnTaken, TypeOK
<1>3. \A c \in new, x \in Places : c \in Contents(x) => x = <<"free", p>>
  BY DEF Created, Fresh
<1>4. Contents(bx)' = ToSet(box) /\ Contents(td)' = ToSet(rest)
  BY <1>1, <1>2, ContentsAre, ContentsBecome
<1>5. /\ ToSet(box) \cap ToSet(rest) = {}
      /\ ToSet(box) \cup ToSet(rest) = Contents(bx) \cup new
      /\ IsInjective(box) /\ IsInjective(rest)
  BY <1>1 DEF Entered
<1>6. ASSUME NEW x \in Places, x # bx, x # td, NEW c \in Contents(x)'
      PROVE  c \in Contents(x) /\ c \notin new
  <2>1. CASE \E q \in Procs : x = <<"pending", q>>
    BY <1>2, <1>3, <1>6, <2>1, ContentsAre, ContentsBecome
  <2>2. CASE \E q \in Procs : x = <<"free", q>>
    <3>1. PICK q \in Procs : x = <<"free", q>>
      BY <2>2
    <3>2. c \in free'[q]
      BY <1>6, <3>1, ContentsAre, ContentsBecome
    <3>3. CASE q = p
      BY <1>2, <3>1, <3>2, <3>3, ContentsAre, ContentsBecome
    <3>4. CASE q # p
      <4>1. c \in Contents(x)
        BY <1>2, <3>1, <3>2, <3>4, ContentsAre, ContentsBecome
      <4> QED  BY <1>3, <3>1, <3>4, <4>1
    <3> QED  BY <3>3, <3>4
  <2>3. CASE \E q \in Procs : x = <<"todo", q>>
    <3>1. PICK q \in Procs : x = <<"todo", q>> /\ q # p
      BY <1>6, <2>3
    <3>2. Contents(x)' = Contents(x)
      BY <1>2, <3>1, ContentsAre, ContentsBecome
    <3> QED  BY <1>3, <1>6, <3>1, <3>2
  <2>4. CASE \E s \in Turns : x = <<"box", s>>
    <3>1. PICK s \in Turns : x = <<"box", s>> /\ s # turn
      BY <1>6, <2>4
    <3>2. Contents(x)' = Contents(x)
      BY <1>2, <3>1, ContentsAre, ContentsBecome
    <3> QED  BY <1>3, <1>6, <3>1, <3>2
  <2> QED  BY <2>1, <2>2, <2>3, <2>4, PlaceTypes
<1>7. ASSUME NEW x \in Places, NEW y \in Places, x # y, NEW c \in Contents(x)', c \in Contents(y)'
      PROVE  FALSE
  <2>1. \A u, v \in Places : c \in Contents(u) /\ c \in Contents(v) => u = v
    BY <1>1 DEF PlacedOnce
  <2> HIDE DEF bx, td
  <2>2. CASE x \in {bx, td} /\ y \in {bx, td}
    BY <1>4, <1>5, <1>7, <2>2
  <2>3. CASE x \notin {bx, td} /\ y \notin {bx, td}
    BY <1>6, <1>7, <2>1, <2>3
  <2>4. CASE x \notin {bx, td} /\ y \in {bx, td}
    <3>1. c \in Contents(x) /\ c \notin new
      BY <1>6, <1>7, <2>4
    <3>2. c \in Contents(bx)
      BY <1>4, <1>5, <1>7, <2>4, <3>1
    <3> QED  BY <1>1, <2>1, <2>4, <3>1, <3>2
  <2>5. CASE x \in {bx, td} /\ y \notin {bx, td}
    <3>1. c \in Contents(y) /\ c \notin new
      BY <1>6, <1>7, <2>5
    <3>2. c \in Contents(bx)
      BY <1>4, <1>5, <1>7, <2>5, <3>1
    <3> QED  BY <1>1, <2>1, <2>5, <3>1, <3>2
  <2> QED  BY <2>2, <2>3, <2>4, <2>5
<1>8. \A q \in Procs : IsInjective(todo'[q])
  BY <1>1, <1>2, <1>5 DEF PlacedOnce
<1>9. \A s \in Turns : IsInjective(slots'[s].box)
  BY <1>1, <1>2, <1>5 DEF PlacedOnce
<1> QED  BY <1>7, <1>8, <1>9 DEF PlacedOnce

\* What is in the lists after a call was in them before, or is new.
LEMMA EnteredMembers ==
  ASSUME CollInv, NEW p \in Procs, NEW new, NEW box, NEW locked, NEW rest,
         Enters(p), Entered(p, new, box, locked, rest), Created(p, new)
  PROVE  \A x \in Places : \A c \in Contents(x)' : c \in new \/ \E y \in Places : c \in Contents(y)
<1>1. /\ Turn(p) \in Turns /\ Contents(<<"box", Turn(p)>>) = ToSet(Box(p)) /\ TypeOK
  BY JoinedIs, ContentsAre, ContentsBecome DEF CollInv
<1>2. /\ slots'[Turn(p)].box = box /\ \A s \in Turns : s # Turn(p) => slots'[s] = slots[s]
      /\ pending' = pending
      /\ \A q \in Procs : free'[q] \subseteq free[q] /\ (todo'[q] = todo[q] \/ todo'[q] = rest)
      /\ ToSet(box) \cup ToSet(rest) = ToSet(Box(p)) \cup new
  BY <1>1 DEF Entered, TurnTaken, TypeOK
<1> SUFFICES ASSUME NEW x \in Places, NEW c \in Contents(x)', c \notin new
             PROVE  \E y \in Places : c \in Contents(y)
  OBVIOUS
<1>3. CASE \E q \in Procs : x = <<"pending", q>>
  BY <1>2, <1>3, ContentsAre, ContentsBecome
<1>4. CASE \E q \in Procs : x = <<"free", q>>
  BY <1>2, <1>4, ContentsAre, ContentsBecome
<1>5. CASE \E q \in Procs : x = <<"todo", q>>
  <2>1. PICK q \in Procs : x = <<"todo", q>> /\ c \in ToSet(todo'[q])
    BY <1>5, ContentsAre, ContentsBecome
  <2>2. c \in ToSet(todo[q]) \/ c \in ToSet(Box(p))
    BY <1>2, <2>1
  <2> QED  BY <1>1, <2>1, <2>2, ContentsAre, ContentsBecome, PlaceTypes
<1>6. CASE \E s \in Turns : x = <<"box", s>>
  <2>1. PICK s \in Turns : x = <<"box", s>> /\ c \in ToSet(slots'[s].box)
    BY <1>6, ContentsAre, ContentsBecome
  <2>2. c \in ToSet(slots[s].box) \/ c \in ToSet(Box(p))
    BY <1>2, <2>1
  <2> QED  BY <1>1, <2>1, <2>2, ContentsAre, ContentsBecome, PlaceTypes
<1> QED  BY <1>3, <1>4, <1>5, <1>6, PlaceTypes

\* What p holds after its call it held before, or it is new, or it was in the slot.
LEMMA EnteredKnown ==
  ASSUME CollInv, NEW p \in Procs, NEW new, NEW box, NEW locked, NEW rest,
         Enters(p), Entered(p, new, box, locked, rest), Created(p, new), WentOn(p, new, locked, rest)
  PROVE  KnownInv'
<1>1. /\ TypeOK /\ KnownInv /\ ticket[p] \in Calls /\ new \subseteq Cookies
      /\ Turn(p) \in Turns /\ Box(p) = slots[Turn(p)].box /\ Box(p) \in Seq(Cookies)
  BY JoinedIs DEF CollInv, Created
<1>2. ASSUME NEW c \in Cookies, c \in new \/ Known(c)  PROVE  Known(c)'
  BY <1>1, <1>2 DEF Created, Known
<1>3. \A c \in ToSet(Box(p)) : c \in Cookies /\ Known(c)
  <2>1. Contents(<<"box", Turn(p)>>) = ToSet(Box(p)) /\ <<"box", Turn(p)>> \in Places
    BY <1>1, ContentsAre, PlaceTypes
  <2> QED  BY <1>1, <2>1, MembersAre DEF KnownInv
<1>4. ASSUME NEW q \in Procs, at'[q] # NoCookie  PROVE  Known(at[q])'
  <2>1. CASE at'[q] = at[q]
    <3>1. at[q] \in Cookies /\ Known(at[q])
      BY <1>1, <1>4, <2>1 DEF TypeOK, KnownInv
    <3>2. PICK c \in Cookies : c = at[q] /\ Known(c)
      BY <3>1
    <3>3. Known(c)' /\ c = at'[q]
      BY <1>2, <2>1, <3>2
    <3> QED  BY <3>3 DEF Known
  <2>2. CASE at'[q] # at[q]
    <3>1. Box(p) # <<>> /\ at'[q] = Head(Box(p))
      BY <1>4, <2>2 DEF WentOn
    <3>2. Head(Box(p)) \in ToSet(Box(p))
      BY <1>1, <3>1, TailMembers
    <3>3. PICK c \in Cookies : c = at'[q] /\ Known(c)
      BY <1>3, <3>1, <3>2
    <3>4. Known(c)'
      BY <1>2, <3>3
    <3> QED  BY <3>3, <3>4 DEF Known
  <2> QED  BY <2>1, <2>2
<1>5. ASSUME NEW q \in Procs, NEW t \in Calls, reqs'[q][t] # NoCookie  PROVE  Known(reqs[q][t])'
  <2>1. reqs'[q][t] \in Cookies /\ (reqs'[q][t] \in new \/ Known(reqs'[q][t]))
    <3>1. CASE reqs'[q][t] = reqs[q][t]
      <4>1. reqs[q][t] \in Cookies
        BY <1>1, <1>5, <3>1 DEF TypeOK
      <4> QED  BY <1>1, <1>5, <3>1, <4>1 DEF KnownInv
    <3>2. CASE reqs'[q][t] # reqs[q][t]
      <4>1. reqs'[q][t] \in ToSet(Box(p)) \cup new
        BY <3>2 DEF WentOn
      <4> QED  BY <1>1, <1>3, <4>1
    <3> QED  BY <3>1, <3>2
  <2>2. PICK c \in Cookies : c = reqs'[q][t] /\ (c \in new \/ Known(c))
    BY <2>1
  <2>3. Known(c)'
    BY <1>2, <2>2
  <2> QED  BY <2>2, <2>3 DEF Known
<1>6. ASSUME NEW x \in Places, NEW c \in Contents(x)'  PROVE  Known(c)'
  <2>1. c \in new \/ \E y \in Places : c \in Contents(y)
    BY <1>6, EnteredMembers
  <2>2. c \in Cookies
    <3>1. \A y \in Places : Contents(y) \subseteq Cookies
      <4>1. \A q \in Procs : pending[q] \subseteq Cookies /\ free[q] \subseteq Cookies /\ ToSet(todo[q]) \subseteq Cookies
        BY <1>1, MembersAre DEF TypeOK
      <4>2. \A s \in Turns : ToSet(slots[s].box) \subseteq Cookies
        BY <1>1, SlotTypes
      <4> QED  BY <4>1, <4>2, PlaceTypes, ContentsAre
    <3> QED  BY <1>1, <2>1, <3>1
  <2> QED  BY <1>1, <1>2, <2>1, <2>2 DEF KnownInv
<1> QED  BY <1>4, <1>5, <1>6 DEF KnownInv

\* The slot p has called in is that of its call, and no other has changed.
LEMMA EnteredRing ==
  ASSUME CollInv, NEW p \in Procs, NEW new, NEW box, NEW locked, NEW rest,
         Enters(p), Entered(p, new, box, locked, rest), Created(p, new)
  PROVE  RingInv'
<1>0. PICK t \in Calls, turn \in Turns : t = ticket[p] /\ turn = Turn(p)
  BY JoinedIs
<1>1. /\ TypeOK /\ RingInv /\ t \in Nat /\ turn = t % NSlots
      /\ Box(p) = slots[turn].box /\ ~slots[turn].locked /\ Box(p) \in Seq(Cookies) /\ p \notin Made(t)
      /\ JoinedBy(p) = Cardinality(Made(t) \cup {p})
      /\ Box(p) = <<>> => Made(t) = {}
      /\ Box(p) # <<>> => slots[turn].ticket = t
      /\ ComesLast(p) => Cardinality(Made(t) \cup {p}) = N
  BY <1>0, JoinedIs DEF CollInv, Turn, Slot, ComesLast
<1>2. /\ slots' \in [Turns -> SlotRecords]
      /\ slots'[turn].ticket = t /\ slots'[turn].joined = JoinedBy(p)
      /\ slots'[turn].box = box /\ slots'[turn].locked = locked
      /\ \A s \in Turns : s # turn => slots'[s] = slots[s]
      /\ box # <<>> \/ locked \/ ComesLast(p)
      /\ ToSet(box) \subseteq ToSet(Box(p)) \cup new
  BY <1>0 DEF Entered, TurnTaken
<1>3. /\ \A q \in Procs : ticket[q] \in Nat /\ (q # p => ticket'[q] = ticket[q])
      /\ ticket'[p] = t + 1 /\ ticket[p] = t
  <2>1. ticket' = [ticket EXCEPT ![p] = @ + 1] /\ ticket \in [Procs -> 0..MaxCalls]
    BY <1>1 DEF Entered, TurnTaken, TypeOK
  <2> QED  BY <1>0, <1>1, <2>1, TicketType
<1>4. /\ Made(t)' = Made(t) \cup {p}
      /\ \A u \in Nat : u # t => Made(u)' = Made(u)
  BY <1>1, <1>3 DEF Made
<1>5. \A s \in Turns : \A c \in ToSet(slots[s].box) :
        /\ c \in Cookies /\ c \notin new /\ cookie[c].src \in Procs
        /\ cookie'[c].src = cookie[c].src /\ cookie'[c].call = cookie[c].call
  <2> TAKE s \in Turns
  <2> TAKE c \in ToSet(slots[s].box)
  <2>1. c \in Contents(<<"box", s>>) /\ <<"box", s>> \in Places
    BY ContentsAre, PlaceTypes
  <2>2. c \notin new
    BY <2>1 DEF Created, Fresh
  <2>3. cookie[c].src \in Procs
    BY <2>1 DEF CollInv, KnownInv, Known
  <2>4. c \in Cookies
    BY <1>1, SlotTypes
  <2> QED  BY <2>2, <2>3, <2>4 DEF Created
<1>6. \A c \in new : cookie'[c].src = p /\ cookie'[c].call = t
  BY <1>0 DEF Created
<1>7. \A s \in Turns : slots[s].ticket \in Nat
  BY <1>1, SlotTypes
<1>8. SlotMatchesCall'
  <2>0. \A s \in Turns : Matches(s)
    BY <1>1, MatchesAre, SlotTypes DEF RingInv
  <2> SUFFICES ASSUME NEW s \in Turns, slots'[s].box # <<>>
               PROVE  /\ slots'[s].joined = Cardinality(Made(slots[s].ticket)')
                      /\ \A c \in ToSet(slots'[s].box) : cookie'[c].call = slots'[s].ticket
    <3>1. DOMAIN slots' = Turns
      BY <1>2
    <3> QED  BY <3>1, MatchesBecome DEF Matches
  <2>1. CASE s = turn
    <3>1. slots'[s].joined = Cardinality(Made(slots[s].ticket)') /\ slots'[s].ticket = t
      <4>1. Made(slots[s].ticket)' = Made(t)'
        BY <1>2, <2>1 DEF Made
      <4> QED  BY <1>1, <1>2, <1>4, <2>1, <4>1
    <3>2. ASSUME NEW c \in ToSet(slots'[s].box)  PROVE  cookie'[c].call = t
      <4>1. CASE c \in new
        BY <1>6, <4>1
      <4>2. CASE c \notin new
        <5>1. c \in ToSet(slots[turn].box)
          BY <1>1, <1>2, <2>1, <3>2, <4>2
        <5>2. slots[turn].box # <<>>
          BY <5>1 DEF ToSet
        <5>3. cookie[c].call = t
          BY <1>1, <2>0, <5>1, <5>2 DEF Matches
        <5> QED  BY <1>5, <5>1, <5>3
      <4> QED  BY <4>1, <4>2
    <3> QED  BY <3>1, <3>2
  <2>2. CASE s # turn
    <3>1. slots'[s] = slots[s]
      BY <1>2, <2>2
    <3>2. slots[s].ticket # t
      BY <1>1, <2>2, <3>1 DEF RingInv
    <3>3. slots[s].joined = Cardinality(Made(slots[s].ticket))
          /\ \A c \in ToSet(slots[s].box) : cookie[c].call = slots[s].ticket
      BY <2>0, <3>1 DEF Matches
    <3>4. Made(slots[s].ticket)' = Made(slots[s].ticket)
      <4>1. PICK u \in Nat : u = slots[s].ticket
        BY <1>7
      <4>2. Made(u)' = Made(u)
        BY <1>4, <3>2, <4>1
      <4> QED  BY <3>1, <4>1, <4>2 DEF Made
    <3> QED  BY <1>5, <3>1, <3>3, <3>4
  <2> QED  BY <2>1, <2>2
<1>9. ASSUME NEW s \in Turns, NEW c \in ToSet(slots'[s].box)
      PROVE  ticket'[cookie'[c].src] > slots'[s].ticket
  <2>1. CASE c \in ToSet(slots[s].box)
    <3>1. ticket[cookie[c].src] > slots[s].ticket /\ slots'[s].ticket = slots[s].ticket
      <4>1. slots[s].box # <<>>
        BY <2>1 DEF ToSet
      <4> QED  BY <1>1, <1>2, <2>1, <4>1 DEF RingInv
    <3>2. cookie'[c].src = cookie[c].src /\ cookie[c].src \in Procs
      BY <1>5, <2>1
    <3>3. ticket'[cookie[c].src] >= ticket[cookie[c].src] /\ ticket[cookie[c].src] \in Nat /\ ticket'[cookie[c].src] \in Nat
      BY <1>1, <1>3, <3>2
    <3> QED  BY <1>7, <3>1, <3>2, <3>3
  <2>2. CASE c \notin ToSet(slots[s].box)
    <3>1. s = turn /\ c \in new
      BY <1>1, <1>2, <1>9, <2>2
    <3> QED  BY <1>1, <1>2, <1>3, <1>6, <3>1
  <2> QED  BY <2>1, <2>2
<1>10. ASSUME NEW s \in Turns, NEW c \in ToSet(slots'[s].box), NEW d \in ToSet(slots'[s].box),
              cookie'[c].src = cookie'[d].src
       PROVE  c = d
  <2>1. ASSUME NEW b \in ToSet(slots'[s].box), b \notin ToSet(slots[s].box)
        PROVE  s = turn /\ b \in new /\ cookie'[b].src = p
    BY <1>1, <1>2, <1>6, <2>1
  <2>2. ASSUME NEW b \in ToSet(slots[s].box), s = turn
        PROVE  cookie'[b].src # p
    <3>1. slots[s].ticket = t /\ ticket[cookie[b].src] > t
      <4>1. slots[s].box # <<>>
        BY DEF ToSet
      <4> QED  BY <1>1, <2>2, <4>1 DEF RingInv
    <3> QED  BY <1>1, <1>3, <1>5, <3>1
  <2>3. CASE c \in ToSet(slots[s].box) /\ d \in ToSet(slots[s].box)
    <3>1. cookie[c].src = cookie[d].src
      BY <1>5, <1>10, <2>3
    <3> QED  BY <1>1, <2>3, <3>1 DEF RingInv
  <2>4. CASE c \notin ToSet(slots[s].box) /\ d \notin ToSet(slots[s].box)
    BY <2>1, <2>4 DEF Created
  <2>5. CASE c \notin ToSet(slots[s].box) /\ d \in ToSet(slots[s].box)
    BY <1>10, <2>1, <2>2, <2>5
  <2>6. CASE c \in ToSet(slots[s].box) /\ d \notin ToSet(slots[s].box)
    BY <1>10, <2>1, <2>2, <2>6
  <2> QED  BY <2>3, <2>4, <2>5, <2>6
<1>11. \A s \in Turns : slots'[s].box # <<>> => slots'[s].ticket % NSlots = s
  BY <1>1, <1>2 DEF RingInv
<1>12. ASSUME NEW u \in Calls, NEW q \in Procs, NEW r \in Procs, ticket'[q] <= u, u < ticket'[r]
       PROVE  /\ slots'[u % NSlots].ticket = u
              /\ slots'[u % NSlots].box # <<>> \/ slots'[u % NSlots].locked
  <2>1. u \in Nat /\ u % NSlots \in Turns
    BY CallsAre, TurnOf
  <2>2. CASE u = t
    <3>1. q \notin Made(t)'
      BY <1>12, <2>2, <1>3, <1>1 DEF Made
    <3>2. ~ComesLast(p)
      <4>1. IsFiniteSet(Procs) /\ Made(t) \cup {p} \in SUBSET Procs
        BY ConstantTypes DEF Made
      <4>2. Cardinality(Made(t) \cup {p}) = Cardinality(Procs) => Procs = Made(t) \cup {p}
        BY <4>1, FS_Subset
      <4> QED  BY <1>1, <1>4, <3>1, <4>2 DEF N
    <3> QED  BY <1>1, <1>2, <2>2, <3>2
  <2>3. CASE u # t
    <3>1. ticket[q] <= u /\ u < ticket[r]
      <4>1. ticket[q] \in Nat /\ ticket[r] \in Nat
        BY <1>3
      <4>2. CASE q = p
        BY <1>1, <1>3, <1>12, <2>1, <2>3, <4>1, <4>2
      <4>3. CASE q # p
        BY <1>1, <1>3, <1>12, <2>1, <2>3, <4>1, <4>3
      <4> QED  BY <4>2, <4>3
    <3>2. /\ slots[u % NSlots].ticket = u
          /\ slots[u % NSlots].box # <<>> \/ slots[u % NSlots].locked
      BY <1>1, <3>1 DEF RingInv
    <3>3. u % NSlots # turn
      BY <1>1, <2>3, <3>2
    <3> QED  BY <1>2, <2>1, <3>2, <3>3
  <2> QED  BY <2>2, <2>3
<1> QED  BY <1>8, <1>9, <1>10, <1>11, <1>12 DEF RingInv

LEMMA EnteredCalls ==
  ASSUME CollInv, NEW p \in Procs, NEW new, NEW box, NEW locked, NEW rest,
         Enters(p), Entered(p, new, box, locked, rest), WentOn(p, new, locked, rest)
  PROVE  CallInv' /\ JoinInv'
<1>0. PICK t \in Calls, turn \in Turns : t = ticket[p] /\ turn = Turn(p)
  BY JoinedIs
<1>1. /\ TypeOK /\ CallInv /\ JoinInv /\ t \in Nat /\ turn = t % NSlots /\ pc[p] = "idle"
      /\ Box(p) = slots[turn].box /\ ~slots[turn].locked /\ Box(p) \in Seq(Cookies)
  BY <1>0, JoinedIs DEF CollInv, Turn, Slot, Enters, Calling
<1>2. /\ slots'[turn].ticket = t /\ slots'[turn].locked = locked
      /\ \A s \in Turns : s # turn => slots'[s] = slots[s]
  BY <1>0 DEF Entered, TurnTaken
<1>3. /\ \A q \in Procs : ticket[q] \in Nat /\ (q # p => ticket'[q] = ticket[q] /\ todo'[q] = todo[q])
      /\ ticket'[p] = t + 1 /\ ticket[p] = t /\ todo'[p] = rest
  <2>1. ticket' = [ticket EXCEPT ![p] = @ + 1] /\ ticket \in [Procs -> 0..MaxCalls]
    BY <1>1 DEF Entered, TurnTaken, TypeOK
  <2>2. todo' = [todo EXCEPT ![p] = rest] /\ todo \in [Procs -> Seq(Cookies)]
    BY <1>1 DEF Entered, TypeOK
  <2> QED  BY <1>0, <1>1, <2>1, <2>2, TicketType
<1>4. ASSUME NEW q \in Procs, q # p
      PROVE  pc'[q] = pc[q] /\ call'[q] = call[q] /\ at'[q] = at[q] /\ reqs'[q] = reqs[q]
  BY <1>4 DEF WentOn
<1>5. CallInv'
  <2>1. ASSUME NEW q \in Procs, q # p
        PROVE  /\ pc'[q] # "idle" => call'[q] \in Calls /\ call'[q] < ticket'[q]
               /\ pc'[q] \notin {"serve", "deliver", "scan"} => todo'[q] = <<>>
               /\ pc'[q] = "serve" => todo'[q] # <<>>
               /\ pc'[q] \in {"idle", "serve"} => at'[q] = NoCookie
               /\ pc'[q] \in {"join", "deliver", "scan", "wait", "leave"} => at'[q] \in Cookies
               /\ pc'[q] \in {"wait", "leave"} => reqs'[q][call'[q]] = at'[q]
               /\ pc'[q] = "join" => reqs'[q][call'[q]] = NoCookie
               /\ \A u \in Calls : reqs'[q][u] # NoCookie => u < ticket'[q]
    BY <1>1, <1>3, <1>4, <2>1 DEF CallInv
  <2>2. \A u \in Calls : reqs'[p][u] # NoCookie => u < ticket'[p]
    <3> SUFFICES ASSUME NEW u \in Calls, reqs'[p][u] # NoCookie  PROVE  u < t + 1
      BY <1>3
    <3>1. CASE u = t
      BY <1>1, <3>1
    <3>2. CASE u # t
      <4>1. reqs'[p][u] = reqs[p][u]
        BY <1>0, <3>2 DEF WentOn
      <4>2. u < t /\ u \in Nat
        BY <1>1, <1>3, <4>1, CallsAre DEF CallInv
      <4> QED  BY <1>1, <4>2
    <3> QED  BY <3>1, <3>2
  <2>3. /\ pc'[p] # "idle" => call'[p] \in Calls /\ call'[p] < ticket'[p]
        /\ pc'[p] \in {"idle", "serve", "join"}
        /\ pc'[p] # "serve" => todo'[p] = <<>>
        /\ pc'[p] = "serve" => todo'[p] # <<>>
        /\ pc'[p] \in {"idle", "serve"} => at'[p] = NoCookie
    <3>1. t < t + 1
      BY <1>1
    <3> QED  BY <1>0, <1>3, <3>1 DEF WentOn
  <2>4. pc'[p] = "join" => at'[p] \in Cookies /\ reqs'[p][call'[p]] = NoCookie
    <3> SUFFICES ASSUME pc'[p] = "join"
                 PROVE  at'[p] \in Cookies /\ reqs'[p][call'[p]] = NoCookie
      OBVIOUS
    <3>1. Box(p) # <<>> /\ at'[p] = Head(Box(p)) /\ call'[p] = t /\ reqs' = reqs
      BY <1>0 DEF WentOn
    <3>2. at'[p] \in Cookies
      BY <1>1, <3>1, TailMembers
    <3>3. reqs[p][t] = NoCookie
      <4>1. ~(t < ticket[p])
        BY <1>1, <1>3
      <4> QED  BY <1>1, <4>1 DEF CallInv
    <3> QED  BY <3>1, <3>2, <3>3
  <2> QED  BY <2>1, <2>2, <2>3, <2>4 DEF CallInv
<1>6. ASSUME NEW q \in Procs, q # p, pc[q] = "join"
      PROVE  call[q] % NSlots # turn /\ call[q] % NSlots \in Turns
  <2>1. slots[call[q] % NSlots].locked /\ call[q] \in Nat
    BY <1>1, <1>6, CallsAre DEF JoinInv, CallInv
  <2> QED  BY <1>1, <2>1, TurnOf
<1>7. ASSUME NEW q \in Procs, pc'[q] = "join"
      PROVE  /\ slots'[call'[q] % NSlots].locked /\ slots'[call'[q] % NSlots].box # <<>>
             /\ Head(slots'[call'[q] % NSlots].box) = at'[q] /\ slots'[call'[q] % NSlots].ticket = call'[q]
  <2>1. CASE q = p
    <3>1. call'[p] = t /\ locked /\ Box(p) # <<>> /\ at'[p] = Head(Box(p)) /\ slots'[turn].box = Box(p)
      BY <1>0, <1>7, <2>1 DEF WentOn
    <3>2. call'[p] % NSlots = turn
      BY <1>1, <3>1
    <3> QED  BY <1>2, <2>1, <3>1, <3>2
  <2>2. CASE q # p
    <3>1. pc[q] = "join" /\ call'[q] = call[q] /\ at'[q] = at[q]
      BY <1>4, <1>7, <2>2
    <3>2. slots'[call[q] % NSlots] = slots[call[q] % NSlots]
      BY <1>2, <1>6, <2>2, <3>1
    <3> QED  BY <1>1, <3>1, <3>2 DEF JoinInv
  <2> QED  BY <2>1, <2>2
<1>8. ASSUME NEW q \in Procs, NEW r \in Procs, pc'[q] = "join", pc'[r] = "join",
             call'[q] % NSlots = call'[r] % NSlots
      PROVE  q = r
  <2>1. pc'[p] = "join" => call'[p] % NSlots = turn
    BY <1>0, <1>1 DEF WentOn
  <2>2. CASE q = p /\ r # p
    BY <1>4, <1>6, <1>8, <2>1, <2>2
  <2>3. CASE q # p /\ r = p
    BY <1>4, <1>6, <1>8, <2>1, <2>3
  <2>4. CASE q # p /\ r # p
    BY <1>1, <1>4, <1>8, <2>4 DEF JoinInv
  <2> QED  BY <2>2, <2>3, <2>4
<1>9. JoinInv'
  BY <1>7, <1>8 DEF JoinInv
<1> QED  BY <1>5, <1>9

\* The types of what a call leaves in the variables Entered does not speak of.
RestTyped ==
  /\ program' = program /\ exited' = exited /\ lost' = lost
  /\ cookie' \in [Cookies -> CookieRecords] /\ used' \in [Cookies -> Int] /\ busy' \in [Cookies -> Int]
  /\ pc' \in [Procs -> {"idle", "join", "serve", "deliver", "scan", "wait", "leave"}]
  /\ call' \in [Procs -> Nat] /\ at' \in [Procs -> Cookies \cup {NoCookie}] /\ seen' \in [Procs -> Int]
  /\ buf' \in [Procs -> [Calls -> Data]]

LEMMA EnteredTypes ==
  ASSUME CollInv, NEW p \in Procs, NEW new, NEW box, NEW locked, NEW rest,
         Enters(p), Entered(p, new, box, locked, rest), WentOn(p, new, locked, rest), RestTyped
  PROVE  TypeOK'
<1>1. TypeOK /\ ticket[p] \in Calls
  BY JoinedIs DEF CollInv
<1>2. slots' \in [0..(NSlots - 1) -> SlotRecords]
  BY DEF Entered, TurnTaken, Turns
<1>3. ticket' \in [Procs -> 0..MaxCalls]
  <2>1. ticket[p] + 1 \in 0..MaxCalls
    BY <1>1, CallsAre, ConstantTypes
  <2>2. ticket \in [Procs -> 0..MaxCalls] /\ ticket' = [ticket EXCEPT ![p] = @ + 1]
    BY <1>1 DEF TypeOK, Entered, TurnTaken
  <2> QED  BY <2>1, <2>2
<1>4. pending' \in [Procs -> SUBSET Cookies] /\ free' \in [Procs -> SUBSET Cookies]
  BY <1>1 DEF TypeOK, Entered
<1>5. todo' \in [Procs -> Seq(Cookies)]
  BY <1>1 DEF TypeOK, Entered
<1>6. reqs' \in [Procs -> [Calls -> Cookies \cup {NoCookie}]]
  BY DEF WentOn
<1> QED  BY <1>1, <1>2, <1>3, <1>4, <1>5, <1>6 DEF TypeOK, RestTyped

\* Its request holds a cookie.
LEMMA HoldsIs ==
  ASSUME TypeOK, NEW p \in Procs, NEW t \in Calls, NEW c \in Cookies \cup {NoCookie}, Holds(p, t, c)
  PROVE  /\ reqs' \in [Procs -> [Calls -> Cookies \cup {NoCookie}]]
         /\ \A q \in Procs : q # p => reqs'[q] = reqs[q]
         /\ \A u \in Calls : reqs'[p][u] = IF u = t THEN c ELSE reqs[p][u]
<1>1. reqs \in [Procs -> [Calls -> Cookies \cup {NoCookie}]] /\ reqs' = [reqs EXCEPT ![p][t] = c]
  BY DEF TypeOK, Holds
<1> QED  BY <1>1

\* The references after p has got hold of c: one to a cookie it has just created, or one
\* more to a cookie of the slot.
Counts(p, new) ==
  /\ lost' = lost
  /\ \/ used' = used /\ reqs' = reqs
     \/ \E c \in new : used' = [used EXCEPT ![c] = 1] /\ Holds(p, ticket[p], c)
     \/ \E c \in ToSet(Box(p)) : used' = [used EXCEPT ![c] = @ + 1] /\ Holds(p, ticket[p], c)

LEMMA RefsAre == \A c : IsFiniteSet(Refs(c)) /\ Cardinality(Refs(c)) \in Nat
<1>1. IsFiniteSet(Calls)
  BY ConstantTypes, FS_Interval DEF Calls
<1>2. IsFiniteSet(Procs \X Calls)
  BY <1>1, ConstantTypes, FS_Product
<1>3. \A c : Refs(c) \subseteq Procs \X Calls
  BY DEF Refs
<1> QED  BY <1>2, <1>3, FS_Subset, FS_CardinalityType

LEMMA RefsBecome ==
  ASSUME TypeOK, NEW p \in Procs, NEW t \in Calls, NEW d \in Cookies \cup {NoCookie}, Holds(p, t, d)
  PROVE  \A c : Refs(c)' = IF c = d THEN Refs(c) \cup {<<p, t>>} ELSE Refs(c) \ {<<p, t>>}
<1>1. reqs \in [Procs -> [Calls -> Cookies \cup {NoCookie}]] /\ reqs' = [reqs EXCEPT ![p][t] = d]
  BY DEF TypeOK, Holds
<1>2. \A q \in Procs, u \in Calls : reqs'[q][u] = IF q = p /\ u = t THEN d ELSE reqs[q][u]
  BY <1>1
<1> TAKE c
<1>3. ASSUME NEW r \in Procs \X Calls
      PROVE  r \in Refs(c)' <=> r \in (IF c = d THEN Refs(c) \cup {<<p, t>>} ELSE Refs(c) \ {<<p, t>>})
  <2>1. r[1] \in Procs /\ r[2] \in Calls /\ r = <<r[1], r[2]>>
    OBVIOUS
  <2>2. r = <<p, t>> <=> r[1] = p /\ r[2] = t
    BY <2>1
  <2>3. r \in Refs(c)' <=> (IF r = <<p, t>> THEN d = c ELSE reqs[r[1]][r[2]] = c)
    BY <1>2, <2>1, <2>2 DEF Refs
  <2> QED  BY <2>3 DEF Refs
<1>4. Refs(c) \subseteq Procs \X Calls /\ Refs(c)' \subseteq Procs \X Calls /\ <<p, t>> \in Procs \X Calls
  BY DEF Refs
<1> QED  BY <1>3, <1>4

\* Another request holds c.
LEMMA CountsOneMore ==
  ASSUME CollInv, CountInv, NEW p \in Procs, NEW t \in Calls, NEW c \in Cookies, Holds(p, t, c),
         reqs[p][t] = NoCookie, lost' = lost,
         \/ used' = [used EXCEPT ![c] = @ + 1]
         \/ used' = [used EXCEPT ![c] = 1] /\ ~InUse(c),
         \A b : InUse(b) => InUse(b)',
         InUse(c)'
  PROVE  CountInv'
<1>1. TypeOK /\ used \in [Cookies -> Int] /\ NoCookie \notin Cookies
  BY ConstantTypes DEF CollInv, TypeOK
<1>2. \A b : Refs(b)' = IF b = c THEN Refs(b) \cup {<<p, t>>} ELSE Refs(b) \ {<<p, t>>}
  BY <1>1, RefsBecome
<1>3. \A b \in Cookies : <<p, t>> \notin Refs(b)
  BY <1>1 DEF Refs
<1>4. ASSUME NEW b \in Cookies  PROVE  used'[b] = Cardinality(Refs(b)') + lost'[b]
  <2>1. used[b] = Cardinality(Refs(b)) /\ lost'[b] = 0 /\ Cardinality(Refs(b)) \in Nat /\ IsFiniteSet(Refs(b))
    BY <1>1, RefsAre DEF CountInv, RefCount
  <2>2. CASE b # c
    <3>1. Refs(b)' = Refs(b) /\ used'[b] = used[b]
      BY <1>1, <1>2, <1>3, <2>2
    <3> QED  BY <2>1, <3>1
  <2>3. CASE b = c
    <3>1. Cardinality(Refs(b)') = Cardinality(Refs(b)) + 1
      BY <1>2, <1>3, <2>1, <2>3, FS_AddElement
    <3>2. CASE used' = [used EXCEPT ![c] = @ + 1]
      BY <1>1, <2>1, <2>3, <3>1, <3>2
    <3>3. CASE used' = [used EXCEPT ![c] = 1] /\ ~InUse(c)
      <4>1. Refs(b) = {}
        BY <1>1, <2>3, <3>3 DEF CountInv, Refs
      <4>2. used[b] = 0
        BY <2>1, <4>1, FS_EmptySet
      <4> QED  BY <1>1, <2>1, <2>3, <3>1, <3>3, <4>2
    <3> QED  BY <3>2, <3>3
  <2> QED  BY <2>2, <2>3
<1>5. RefCount'
  BY <1>4 DEF RefCount
<1>6. ASSUME NEW q \in Procs, NEW u \in Calls, reqs'[q][u] # NoCookie  PROVE  InUse(reqs[q][u])'
  <2>1. reqs'[q][u] = reqs[q][u] \/ reqs'[q][u] = c
    BY <1>1, HoldsIs
  <2>2. PICK b : b = reqs'[q][u]
    OBVIOUS
  <2>3. InUse(b)'
    BY <1>6, <2>1, <2>2 DEF CountInv
  <2> QED  BY <2>2, <2>3 DEF InUse
<1>7. \A b \in Cookies : lost'[b] = 0
  BY DEF CountInv
<1> QED  BY <1>5, <1>6, <1>7 DEF CountInv

\* The requests hold what they held.
LEMMA CountsTheSame ==
  ASSUME CountInv, used' = used, reqs' = reqs, lost' = lost, \A b : InUse(b) => InUse(b)'
  PROVE  CountInv'
<1>1. RefCount'
  BY DEF CountInv, RefCount, Refs
<1>2. ASSUME NEW q \in Procs, NEW u \in Calls, reqs'[q][u] # NoCookie  PROVE  InUse(reqs[q][u])'
  <2>1. PICK b : b = reqs[q][u]
    OBVIOUS
  <2>2. InUse(b)' /\ b = reqs'[q][u]
    BY <1>2, <2>1 DEF CountInv
  <2> QED  BY <2>2 DEF InUse
<1> QED  BY <1>1, <1>2 DEF CountInv

\* What was in use before p's call is in use after it.
LEMMA EnteredInUse ==
  ASSUME CollInv, NEW p \in Procs, NEW new, NEW box, NEW locked, NEW rest, Enters(p),
         Entered(p, new, box, locked, rest)
  PROVE  /\ \A c : InUse(c) => InUse(c)'
         /\ \A c \in new : InUse(c)'
<1>0. PICK turn \in Turns : turn = Turn(p)
  BY JoinedIs
<1> DEFINE bx == <<"box", turn>>
           td == <<"todo", p>>
<1>1. /\ turn = Turn(p) /\ Contents(bx) = ToSet(Box(p)) /\ bx \in Places /\ bx[1] # "free"
      /\ td \in Places /\ td[1] # "free" /\ TypeOK /\ todo[p] = <<>>
  <2>1. TypeOK /\ pc[p] = "idle" /\ todo[p] = <<>>
    BY DEF CollInv, CallInv, Enters, Calling
  <2>2. Box(p) = slots[turn].box
    BY <1>0, JoinedIs
  <2> QED  BY <1>0, <2>1, <2>2, PlaceTypes, ContentsAre
<1>2. /\ slots'[turn].box = box /\ \A s \in Turns : s # turn => slots'[s] = slots[s]
      /\ pending' = pending /\ todo'[p] = rest
      /\ \A q \in Procs : q # p => todo'[q] = todo[q]
      /\ ToSet(box) \cup ToSet(rest) = ToSet(Box(p)) \cup new
  BY <1>1 DEF Entered, TurnTaken, TypeOK
<1>3. Contents(bx)' = ToSet(box) /\ Contents(td)' = ToSet(rest) /\ Contents(td) = {}
  BY <1>1, <1>2, EmptyList, ContentsAre, ContentsBecome
<1>4. \A c \in new \cup Contents(bx) : InUse(c)'
  BY <1>1, <1>2, <1>3 DEF InUse
<1>5. ASSUME NEW c, InUse(c)  PROVE  InUse(c)'
  <2>1. PICK x \in Places : x[1] # "free" /\ c \in Contents(x)
    BY <1>5 DEF InUse
  <2>2. CASE x = bx \/ x = td
    BY <1>3, <1>4, <2>1, <2>2
  <2>3. CASE x # bx /\ x # td
    <3>1. Contents(x)' = Contents(x)
      <4>1. CASE \E q \in Procs : x = <<"pending", q>>
        BY <1>2, <4>1, ContentsAre, ContentsBecome
      <4>2. CASE \E q \in Procs : x = <<"todo", q>>
        BY <1>2, <2>3, <4>2, ContentsAre, ContentsBecome
      <4>3. CASE \E s \in Turns : x = <<"box", s>>
        BY <1>2, <2>3, <4>3, ContentsAre, ContentsBecome
      <4>4. \A q \in Procs : x # <<"free", q>>
        BY <2>1
      <4> QED  BY <4>1, <4>2, <4>3, <4>4, PlaceTypes
    <3> QED  BY <2>1, <3>1 DEF InUse
  <2> QED  BY <2>2, <2>3
<1> QED  BY <1>4, <1>5

LEMMA EnteredCounts ==
  ASSUME CollInv, CountInv, NEW p \in Procs, NEW new, NEW box, NEW locked, NEW rest, Enters(p),
         Entered(p, new, box, locked, rest), Created(p, new), Counts(p, new)
  PROVE  CountInv'
<1>1. PICK t \in Calls : t = ticket[p]
  BY JoinedIs
<1>2. reqs[p][t] = NoCookie
  <2>1. ticket[p] \in Nat
    BY JoinedIs
  <2> QED  BY <1>1, <2>1 DEF CollInv, CallInv
<1>3. /\ \A c : InUse(c) => InUse(c)'
      /\ \A c \in new : InUse(c)'
  BY EnteredInUse
<1>4. lost' = lost
  BY DEF Counts
<1>5. CASE used' = used /\ reqs' = reqs
  BY <1>3, <1>4, <1>5, CountsTheSame
<1>6. CASE \E c \in new : used' = [used EXCEPT ![c] = 1] /\ Holds(p, ticket[p], c)
  <2>1. PICK c \in new : used' = [used EXCEPT ![c] = 1] /\ Holds(p, t, c)
    BY <1>1, <1>6
  <2>2. c \in Cookies /\ ~InUse(c)
    BY <2>1 DEF Created, Fresh, InUse
  <2> QED  BY <1>2, <1>3, <1>4, <2>1, <2>2, CountsOneMore
<1>7. CASE \E c \in ToSet(Box(p)) : used' = [used EXCEPT ![c] = @ + 1] /\ Holds(p, ticket[p], c)
  <2>1. PICK c \in ToSet(Box(p)) : used' = [used EXCEPT ![c] = @ + 1] /\ Holds(p, t, c)
    BY <1>1, <1>7
  <2>2. c \in Cookies /\ InUse(c)
    <3>1. Turn(p) \in Turns /\ Box(p) = slots[Turn(p)].box /\ Box(p) \in Seq(Cookies)
      BY JoinedIs
    <3>2. <<"box", Turn(p)>> \in Places /\ c \in Contents(<<"box", Turn(p)>>) /\ c \in Cookies
      BY <2>1, <3>1, MembersAre, PlaceTypes, ContentsAre
    <3> QED  BY <3>2 DEF InUse
  <2> QED  BY <1>2, <1>3, <1>4, <2>1, <2>2, CountsOneMore
<1> QED  BY <1>5, <1>6, <1>7 DEF Counts

\* The cookies of a slot are known.
LEMMA InBoxKnown ==
  ASSUME CollInv, NEW p \in Procs, Enters(p), NEW c \in ToSet(Box(p))
  PROVE  /\ c \in Cookies /\ Known(c)
         /\ cookie[c].call = ticket[p] /\ ticket[cookie[c].src] > ticket[p]
<1>0. PICK turn \in Turns : turn = Turn(p)
  BY JoinedIs
<1>1. /\ Box(p) = slots[turn].box /\ Box(p) \in Seq(Cookies) /\ TypeOK /\ RingInv
      /\ Box(p) # <<>> => slots[turn].ticket = ticket[p]
  BY <1>0, JoinedIs DEF CollInv, Slot
<1>2. c \in Contents(<<"box", turn>>) /\ <<"box", turn>> \in Places
  BY <1>1, ContentsAre, PlaceTypes
<1>3. c \in Cookies /\ Known(c) /\ Box(p) # <<>>
  BY <1>1, <1>2, MembersAre DEF CollInv, KnownInv, ToSet
<1>4. Matches(turn)
  BY <1>1, MatchesAre, SlotTypes DEF RingInv
<1> QED  BY <1>1, <1>3, <1>4 DEF Matches, RingInv

\* What p works on.
LEMMA WorksOn ==
  ASSUME CollInv, NEW p \in Procs, pc[p] \in {"join", "deliver", "scan", "wait", "leave"}
  PROVE  /\ TypeOK /\ at[p] \in Cookies /\ at[p] # NoCookie /\ Known(at[p])
         /\ cookie[at[p]].owner \in Procs /\ cookie[at[p]].call \in Calls
         /\ call[p] \in Calls /\ call[p] \in Nat /\ call[p] < ticket[p] /\ call[p] % NSlots \in Turns
<1>1. TypeOK /\ at[p] \in Cookies /\ at[p] # NoCookie /\ call[p] \in Calls /\ call[p] < ticket[p]
  BY ConstantTypes DEF CollInv, CallInv
<1>2. Known(at[p])
  BY <1>1 DEF CollInv, KnownInv
<1>3. call[p] \in Nat /\ call[p] % NSlots \in Turns
  BY <1>1, CallsAre, TurnOf
<1> QED  BY <1>1, <1>2, <1>3 DEF Known

-----------------------------------------------------------------------------
(* What the cookies wait for                                               *)

\* The transfers a cookie in a slot waits for, from what they depend on.
WaitsFor(op, box, joined, c, src, movers) ==
  IF op.kind \in Scans THEN IF Rank[src] = 0 THEN 1 ELSE 2
  ELSE IF op.kind = "allreduce" THEN IF c = Last(box) THEN 2 + Len(box) - joined ELSE 1
  ELSE IF c # Head(box) THEN 1
  ELSE IF op.kind = "allgather" THEN N - joined + 1
  ELSE IF op.kind \in Rooted /\ src = op.root THEN N - joined + movers
  ELSE 1

LEMMA InSlotIs ==
  /\ \A s, c : InSlot(s, c) = WaitsFor(program[slots[s].ticket], slots[s].box, slots[s].joined, c,
                                       cookie[c].src, Cardinality(Movers(c)))
  /\ \A s, c : InSlot(s, c)' = WaitsFor(program'[slots'[s].ticket], slots'[s].box, slots'[s].joined, c,
                                        cookie'[c].src, Cardinality(Movers(c)'))
<1>1. ASSUME NEW s, NEW c
      PROVE  InSlot(s, c) = WaitsFor(program[slots[s].ticket], slots[s].box, slots[s].joined, c,
                                     cookie[c].src, Cardinality(Movers(c)))
  BY DEF InSlot, WaitsFor, ScanNeeds
<1>2. ASSUME NEW s, NEW c
      PROVE  InSlot(s, c)' = WaitsFor(program'[slots'[s].ticket], slots'[s].box, slots'[s].joined, c,
                                      cookie'[c].src, Cardinality(Movers(c)'))
  BY DEF InSlot, WaitsFor, ScanNeeds
<1> QED  BY <1>1, <1>2

\* The transfers a cookie in a todo list waits for.
ServedFor(op, src) == IF op.kind \in Scans THEN IF Rank[src] = 0 THEN 1 ELSE 2 ELSE 1

LEMMA InTodoIs ==
  /\ \A c : InTodo(c) = ServedFor(program[cookie[c].call], cookie[c].src)
  /\ \A c : InTodo(c)' = ServedFor(program'[cookie'[c].call], cookie'[c].src)
BY DEF InTodo, ServedFor, ScanNeeds

LEMMA MoversAre == \A c : IsFiniteSet(Movers(c)) /\ Cardinality(Movers(c)) \in Nat
<1>1. \A c : Movers(c) \subseteq Procs
  BY DEF Movers
<1> QED  BY <1>1, ConstantTypes, FS_Subset, FS_CardinalityType

\* Data is moved for a cookie that is pending, or for that of a root who waits in the slot.
LEMMA MoversPlaced ==
  ASSUME CollInv, BusyInv, NEW p \in Procs, pc[p] \in Moving
  PROVE  /\ at[p] \in Cookies /\ InUse(at[p])
         /\ \/ \E o \in Procs : at[p] \in pending[o]
            \/ \E s \in Turns : RootsCookie(s, at[p]) /\ at[p] \in ToSet(slots[s].box)
<1>1. at[p] \in Cookies /\ cookie[at[p]].owner \in Procs /\ call[p] % NSlots \in Turns
  BY WorksOn DEF Moving
<1>2. at[p] \in pending[cookie[at[p]].owner] \/ RootsCookie(call[p] % NSlots, at[p])
  BY DEF BusyInv, MoverInv
<1>3. CASE at[p] \in pending[cookie[at[p]].owner]
  <2>1. PICK o \in Procs : at[p] \in pending[o]
    BY <1>1, <1>3
  <2>2. <<"pending", o>> \in Places /\ at[p] \in Contents(<<"pending", o>>)
    BY <2>1, PlaceTypes, ContentsAre
  <2> QED  BY <1>1, <2>1, <2>2 DEF InUse
<1>4. CASE RootsCookie(call[p] % NSlots, at[p])
  <2>1. PICK s \in Turns : RootsCookie(s, at[p])
    BY <1>1, <1>4
  <2>2. at[p] \in ToSet(slots[s].box)
    BY <2>1 DEF RootsCookie, ToSet
  <2>3. <<"box", s>> \in Places /\ at[p] \in Contents(<<"box", s>>)
    BY <2>2, PlaceTypes, ContentsAre
  <2> QED  BY <1>1, <2>1, <2>2, <2>3 DEF InUse
<1> QED  BY <1>2, <1>3, <1>4

LEMMA Unmoved ==
  ASSUME CollInv, BusyInv, NEW c
  PROVE  /\ \A q \in Procs : c \in ToSet(todo[q]) \cup free[q] => Movers(c) = {}
         /\ \A s \in Turns : c \in ToSet(slots[s].box) /\ ~RootsCookie(s, c) => Movers(c) = {}
         /\ ~InUse(c) => Movers(c) = {}
<1>1. ASSUME NEW p \in Movers(c)
      PROVE  /\ InUse(c)
             /\ \/ \E o \in Procs : c \in Contents(<<"pending", o>>)
                \/ \E s \in Turns : RootsCookie(s, c) /\ c \in Contents(<<"box", s>>)
  <2>1. p \in Procs /\ pc[p] \in Moving /\ at[p] = c
    BY DEF Movers, Moving
  <2> QED  BY <2>1, MoversPlaced, ContentsAre
<1>2. \A x, y \in Places : c \in Contents(x) /\ c \in Contents(y) => x = y
  BY DEF CollInv, PlacedOnce
<1>3. ASSUME NEW q \in Procs, c \in ToSet(todo[q]) \cup free[q], NEW p \in Movers(c)  PROVE  FALSE
  <2>1. PICK x \in Places : c \in Contents(x) /\ (x = <<"todo", q>> \/ x = <<"free", q>>)
    BY <1>3, PlaceTypes, ContentsAre
  <2>2. \A o \in Procs : x # <<"pending", o>>
    BY <2>1
  <2>3. \A s \in Turns : x # <<"box", s>>
    BY <2>1
  <2> QED  BY <1>1, <1>2, <2>1, <2>2, <2>3, PlaceTypes
<1>4. ASSUME NEW s \in Turns, c \in ToSet(slots[s].box), ~RootsCookie(s, c), NEW p \in Movers(c)  PROVE  FALSE
  <2>1. c \in Contents(<<"box", s>>) /\ <<"box", s>> \in Places
    BY <1>4, PlaceTypes, ContentsAre
  <2>2. \A o \in Procs : <<"box", s>> # <<"pending", o>>
    OBVIOUS
  <2>3. \A u \in Turns : <<"box", s>> = <<"box", u>> => u = s
    OBVIOUS
  <2> QED  BY <1>1, <1>2, <1>4, <2>1, <2>2, <2>3, PlaceTypes
<1> QED  BY <1>1, <1>3, <1>4

\* The root of p's call waits in the slot only if p is to join him.
LEMMA RootHere ==
  ASSUME CollInv, NEW p \in Procs, Enters(p), NEW c, RootsCookie(Turn(p), c)
  PROVE  IsLeaf(p) /\ RootWaits(p) /\ Box(p) = <<c>>
<1>1. Box(p) = slots[Turn(p)].box /\ (Box(p) # <<>> => Slot(p).ticket = ticket[p]) /\ TypeOK /\ ticket[p] \in Nat
  BY JoinedIs DEF CollInv
<1>2. Box(p) = <<c>> /\ Op(p).kind \in Rooted /\ cookie[c].src = Op(p).root
  BY <1>1 DEF RootsCookie, Op, Slot
<1>3. c \in ToSet(Box(p)) /\ Head(Box(p)) = c /\ Box(p) # <<>>
  BY <1>2 DEF ToSet
<1>4. ticket[cookie[c].src] > ticket[p]
  BY <1>3, InBoxKnown
<1>5. cookie[c].src # p
  BY <1>1, <1>4
<1> QED  BY <1>2, <1>3, <1>5 DEF IsLeaf, RootWaits

\* What the cookies p finds in its slot wait for.
LEMMA BoxExact ==
  ASSUME CollInv, BusyInv, NEW p \in Procs, Enters(p), NEW c \in ToSet(Box(p))
  PROVE  /\ busy[c] = WaitsFor(Op(p), Box(p), JoinedBy(p) - 1, c, cookie[c].src, Cardinality(Movers(c)))
         /\ Op(p).kind \in Rooted /\ cookie[c].src = Op(p).root => RootWaits(p) /\ Box(p) = <<c>>
         /\ Op(p).kind = "allreduce" => Len(Box(p)) = JoinedBy(p) - 1
<1>0. PICK turn \in Turns : turn = Turn(p)
  BY JoinedIs
<1>1. /\ Box(p) = slots[turn].box /\ Slot(p) = slots[turn] /\ DOMAIN slots = Turns /\ Box(p) # <<>>
      /\ slots[turn].ticket = ticket[p]
  <2>1. Box(p) # <<>>
    BY DEF ToSet
  <2> QED  BY <1>0, <2>1, JoinedIs DEF Slot, CollInv, TypeOK, Turns
<1>2. busy[c] = InSlot(turn, c)
  BY <1>1 DEF BusyInv, BusyExact
<1>3. slots[turn].joined \in 0..N /\ JoinedBy(p) = slots[turn].joined + 1 /\ JoinedBy(p) - 1 = slots[turn].joined
  <2>1. slots[turn].joined \in 0..N /\ JoinedBy(p) = slots[turn].joined + 1
    BY <1>1, SlotTypes DEF JoinedBy, CollInv
  <2>2. slots[turn].joined \in Int
    BY <2>1, ConstantTypes
  <2> QED  BY <2>1, <2>2
<1>4. Op(p) = program[slots[turn].ticket]
  BY <1>1 DEF Op
<1>5. /\ Op(p).kind \in Rooted => (cookie[c].src = Op(p).root => Box(p) = <<c>>)
      /\ Op(p).kind = "allreduce" => Len(Box(p)) = slots[turn].joined
  BY <1>1, <1>4 DEF BusyInv, BoxInv
<1>6. Box(p) = <<c>> => Head(Box(p)) = c
  OBVIOUS
<1> QED  BY <1>1, <1>2, <1>3, <1>4, <1>5, <1>6, InSlotIs DEF RootWaits

\* What p's call makes of the cookies: those in its slot, those it takes to serve, and the
\* new ones wait for what is still to come.
Exact(p, new, box, rest) ==
  /\ program' = program
  /\ \A c \in Cookies : cookie'[c].err = MPI_SUCCESS
  /\ \A c \in new : reqs'[p][ticket[p]] = c
  /\ \A c \in Cookies : c \notin new =>
       \/ busy'[c] = busy[c]
       \/ c \in ToSet(Box(p)) /\ busy[c] > 0 /\ busy'[c] = busy[c] - 1
  /\ \A c \in ToSet(box) :
       busy'[c] = WaitsFor(Op(p), box, JoinedBy(p), c, cookie'[c].src,
                           IF pc'[p] = "join" THEN Cardinality(Movers(c)) + 1 ELSE Cardinality(Movers(c)))
  /\ \A c \in ToSet(rest) : busy'[c] = ServedFor(Op(p), cookie'[c].src)
  /\ Op(p).kind \in Rooted => \A c \in ToSet(box) : cookie'[c].src = Op(p).root => box = <<c>>
  /\ Op(p).kind = "allreduce" => box = <<>> \/ Len(box) = JoinedBy(p)
  /\ IsLeaf(p) /\ RootWaits(p) => box = Box(p)
  /\ pc'[p] = "join" => IsLeaf(p) /\ RootWaits(p)

\* Only p has started or ended to move data, or changed its place.
LEMMA OthersMove ==
  ASSUME NEW p \in Procs, program' = program,
         \A q \in Procs : q # p => pc'[q] = pc[q] /\ call'[q] = call[q] /\ at'[q] = at[q]
  PROVE  /\ \A c : Movers(c)' \ {p} = Movers(c) \ {p}
         /\ \A c : cookie'[c].src = cookie[c].src => Twice(c)' \ {p} = Twice(c) \ {p}
<1>1. \A c : Movers(c)' \ {p} = Movers(c) \ {p}
  BY DEF Movers
<1>2. ASSUME NEW c, cookie'[c].src = cookie[c].src, NEW q \in Procs, q # p
      PROVE  q \in Twice(c)' <=> q \in Twice(c)
  <2>1. /\ q \in Twice(c) <=> q \in Movers(c) /\ pc[q] = "deliver" /\ program[call[q]].kind \in Scans /\ Rank[cookie[at[q]].src] > 0
        /\ q \in Twice(c)' <=> q \in Movers(c)' /\ pc'[q] = "deliver" /\ program'[call'[q]].kind \in Scans /\ Rank[cookie'[at'[q]].src] > 0
    BY DEF Twice, MovesTwice, InScan
  <2>2. q \in Movers(c)' <=> q \in Movers(c)
    BY <1>1, <1>2
  <2>3. q \in Movers(c) => at[q] = c
    BY DEF Movers
  <2> QED  BY <1>2, <2>1, <2>2, <2>3
<1>3. \A c : Twice(c) \subseteq Procs /\ Twice(c)' \subseteq Procs
  BY DEF Twice, Movers
<1> QED  BY <1>1, <1>2, <1>3

LEMMA SameButOne ==
  ASSUME NEW A, NEW B, NEW p, B \ {p} = A \ {p}, p \in A <=> p \in B
  PROVE  B = A
OBVIOUS

\* The movers of a cookie before and after p has joined or left them.
LEMMA OneApart ==
  ASSUME NEW A, NEW B, IsFiniteSet(A), NEW p, B \ {p} = A \ {p}
  PROVE  /\ IsFiniteSet(B) /\ Cardinality(A) \in Nat /\ Cardinality(B) \in Nat
         /\ (p \in A <=> p \in B) => B = A
         /\ p \notin A /\ p \in B => Cardinality(B) = Cardinality(A) + 1
         /\ p \in A /\ p \notin B => Cardinality(B) = Cardinality(A) - 1
<1>1. IsFiniteSet(A \ {p}) /\ Cardinality(A \ {p}) \in Nat
  BY FS_Subset, FS_CardinalityType
<1>2. ASSUME NEW S, S \ {p} = A \ {p}
      PROVE  IsFiniteSet(S) /\ Cardinality(S) = IF p \in S THEN Cardinality(A \ {p}) + 1 ELSE Cardinality(A \ {p})
  <2>1. S = IF p \in S THEN (A \ {p}) \cup {p} ELSE A \ {p}
    BY <1>2
  <2> QED  BY <1>1, <2>1, FS_AddElement
<1>3. /\ IsFiniteSet(B) /\ Cardinality(B) = IF p \in B THEN Cardinality(A \ {p}) + 1 ELSE Cardinality(A \ {p})
      /\ Cardinality(A) = IF p \in A THEN Cardinality(A \ {p}) + 1 ELSE Cardinality(A \ {p})
  BY <1>2
<1>4. (p \in A <=> p \in B) => B = A
  OBVIOUS
<1>5. PICK n \in Nat : n = Cardinality(A \ {p})
  BY <1>1
<1> QED  BY <1>3, <1>4, <1>5

\* Whose data is moved does not change with a call, unless p joins a root.
LEMMA EnteredMovers ==
  ASSUME CollInv, NEW p \in Procs, NEW new, NEW locked, NEW rest, Enters(p),
         Created(p, new), WentOn(p, new, locked, rest), program' = program
  PROVE  /\ \A c \in Cookies : c # at'[p] => Movers(c)' = Movers(c)
         /\ \A c \in Cookies : c \notin new => Twice(c)' = Twice(c)
         /\ pc'[p] = "join" => Cardinality(Movers(at[p])') = Cardinality(Movers(at'[p])) + 1
<1>1. \A q \in Procs : q # p => pc'[q] = pc[q] /\ call'[q] = call[q] /\ at'[q] = at[q]
  BY DEF WentOn
<1>2. pc[p] = "idle" /\ pc'[p] # "deliver"
  BY DEF Enters, Calling, WentOn
<1>3. ASSUME NEW c \in Cookies, c # at'[p]  PROVE  Movers(c)' = Movers(c)
  <2>1. p \notin Movers(c) /\ p \notin Movers(c)'
    BY <1>2, <1>3 DEF Movers
  <2> QED  BY <1>1, <2>1, OthersMove
<1>4. ASSUME NEW c \in Cookies, c \notin new  PROVE  Twice(c)' = Twice(c)
  <2>1. p \notin Twice(c) /\ p \notin Twice(c)'
    BY <1>2 DEF Twice, MovesTwice
  <2>2. cookie'[c].src = cookie[c].src
    BY <1>4 DEF Created
  <2>3. Twice(c)' \ {p} = Twice(c) \ {p}
    BY <1>1, <2>2, OthersMove
  <2> QED  BY <2>1, <2>3
<1>5. ASSUME pc'[p] = "join"  PROVE  Cardinality(Movers(at[p])') = Cardinality(Movers(at'[p])) + 1
  <2>1. PICK c : c = at'[p]
    OBVIOUS
  <2>2. p \notin Movers(c) /\ p \in Movers(c)'
    BY <1>2, <1>5, <2>1 DEF Movers
  <2>3. Movers(c)' \ {p} = Movers(c) \ {p}
    BY <1>1, OthersMove
  <2>4. Cardinality(Movers(c)') = Cardinality(Movers(c)) + 1
    BY <2>2, <2>3, MoversAre, OneApart
  <2>5. Movers(at[p])' = Movers(c)'
    BY <2>1 DEF Movers
  <2> QED  BY <2>1, <2>4, <2>5
<1> QED  BY <1>3, <1>4, <1>5

\* The parts of BusyExact.
LEMMA ExactIs ==
  ASSUME CollInv, BusyInv
  PROVE  /\ \A s \in Turns : \A c \in ToSet(slots[s].box) :
              busy[c] = WaitsFor(program[slots[s].ticket], slots[s].box, slots[s].joined, c, cookie[c].src,
                                 Cardinality(Movers(c)))
         /\ \A q \in Procs : \A c \in ToSet(todo[q]) : busy[c] = ServedFor(program[cookie[c].call], cookie[c].src)
         /\ \A q \in Procs : \A c \in pending[q] :
              c \in Cookies /\ busy[c] = Cardinality(Movers(c)) + Cardinality(Twice(c))
<1>1. BusyExact /\ DOMAIN slots = Turns /\ pending \in [Procs -> SUBSET Cookies]
  BY DEF BusyInv, CollInv, TypeOK, Turns
<1>2. ASSUME NEW q \in Procs, NEW c \in pending[q]
      PROVE  c \in Cookies /\ busy[c] = Cardinality(Movers(c)) + Cardinality(Twice(c))
  <2>1. c \in Cookies
    BY <1>1, <1>2
  <2>2. ~Forsaken(c)
    BY <2>1 DEF BusyInv, Forsaken
  <2> QED  BY <1>1, <1>2, <2>1, <2>2 DEF BusyExact, Twice
<1> QED  BY <1>1, <1>2, InSlotIs, InTodoIs DEF BusyExact

LEMMA ExactBecomes ==
  ASSUME DOMAIN slots' = Turns,
         \A s \in Turns : \A c \in ToSet(slots'[s].box) :
           busy'[c] = WaitsFor(program'[slots'[s].ticket], slots'[s].box, slots'[s].joined, c, cookie'[c].src,
                               Cardinality(Movers(c)')),
         \A q \in Procs : \A c \in ToSet(todo'[q]) : busy'[c] = ServedFor(program'[cookie'[c].call], cookie'[c].src),
         \A q \in Procs : \A c \in pending'[q] : busy'[c] = Cardinality(Movers(c)') + Cardinality(Twice(c)')
  PROVE  BusyExact'
<1>1. \A s \in DOMAIN slots' : \A c \in ToSet(slots'[s].box) : busy'[c] = InSlot(s, c)'
  BY InSlotIs
<1>2. \A q \in Procs : \A c \in ToSet(todo'[q]) : busy'[c] = InTodo(c)'
  BY InTodoIs
<1>3. \A q \in Procs : \A c \in pending'[q] :
        busy'[c] = Cardinality(Movers(c)') + Cardinality({r \in Movers(c) : MovesTwice(r)}')
  BY DEF Twice
<1> QED  BY <1>1, <1>2, <1>3 DEF BusyExact

\* What is in use after p's call was so before, or is new.
LEMMA EnteredUses ==
  ASSUME CollInv, NEW p \in Procs, NEW new, NEW box, NEW locked, NEW rest, Enters(p),
         Entered(p, new, box, locked, rest), Created(p, new)
  PROVE  /\ \A c : InUse(c) => c \notin new
         /\ \A c : InUse(c)' => c \in new \/ InUse(c)
<1>0. PICK turn \in Turns : turn = Turn(p)
  BY JoinedIs
<1>1. /\ TypeOK /\ Contents(<<"box", turn>>) = ToSet(Box(p)) /\ <<"box", turn>> \in Places
      /\ slots'[turn].box = box /\ (\A s \in Turns : s # turn => slots'[s] = slots[s])
      /\ pending' = pending /\ todo' = [todo EXCEPT ![p] = rest]
      /\ ToSet(box) \cup ToSet(rest) = ToSet(Box(p)) \cup new
  BY <1>0, JoinedIs, PlaceTypes, ContentsAre DEF CollInv, Entered, TurnTaken
<1>2. \A q \in Procs : todo'[q] = todo[q] \/ todo'[q] = rest
  BY <1>1 DEF TypeOK
<1>3. ASSUME NEW c, InUse(c)  PROVE  c \notin new
  BY <1>3 DEF InUse, Created, Fresh
<1>4. \A c \in ToSet(Box(p)) : InUse(c)
  BY <1>1 DEF InUse
<1>5. ASSUME NEW c, InUse(c)', c \notin new  PROVE  InUse(c)
  <2>1. PICK x \in Places : x[1] # "free" /\ c \in Contents(x)'
    BY <1>5 DEF InUse
  <2>2. c \in Contents(x) \/ c \in ToSet(Box(p))
    <3>1. CASE \E q \in Procs : x = <<"pending", q>>
      BY <1>1, <2>1, <3>1, ContentsAre, ContentsBecome
    <3>2. CASE \E q \in Procs : x = <<"todo", q>>
      BY <1>1, <1>2, <1>5, <2>1, <3>2, ContentsAre, ContentsBecome
    <3>3. CASE \E s \in Turns : x = <<"box", s>>
      BY <1>1, <1>5, <2>1, <3>3, ContentsAre, ContentsBecome
    <3>4. \A q \in Procs : x # <<"free", q>>
      BY <2>1
    <3> QED  BY <3>1, <3>2, <3>3, <3>4, PlaceTypes
  <2> QED  BY <1>4, <2>1, <2>2 DEF InUse
<1> QED  BY <1>3, <1>5

\* What p finds in its slot is not pending, nor in another slot or a todo list.
LEMMA OnlyInBox ==
  ASSUME CollInv, NEW p \in Procs, Enters(p)
  PROVE  /\ \A q \in Procs : ToSet(Box(p)) \cap (pending[q] \cup ToSet(todo[q])) = {}
         /\ \A s \in Turns : s # Turn(p) => ToSet(Box(p)) \cap ToSet(slots[s].box) = {}
<1>0. PICK turn \in Turns : turn = Turn(p) /\ Box(p) = slots[turn].box
  BY JoinedIs
<1>1. \A x, y \in Places : x # y => Contents(x) \cap Contents(y) = {}
  BY DEF CollInv, PlacedOnce
<1>2. <<"box", turn>> \in Places /\ Contents(<<"box", turn>>) = ToSet(Box(p))
  BY <1>0, PlaceTypes, ContentsAre
<1>3. ASSUME NEW q \in Procs  PROVE  ToSet(Box(p)) \cap (pending[q] \cup ToSet(todo[q])) = {}
  <2>1. <<"pending", q>> # <<"box", turn>> /\ <<"todo", q>> # <<"box", turn>>
    OBVIOUS
  <2>2. Contents(<<"pending", q>>) = pending[q] /\ Contents(<<"todo", q>>) = ToSet(todo[q])
    BY ContentsAre
  <2>3. <<"pending", q>> \in Places /\ <<"todo", q>> \in Places
    BY PlaceTypes
  <2> QED  BY <1>1, <1>2, <2>1, <2>2, <2>3
<1>4. ASSUME NEW s \in Turns, s # turn  PROVE  ToSet(Box(p)) \cap ToSet(slots[s].box) = {}
  <2>1. <<"box", s>> # <<"box", turn>>
    BY <1>4
  <2>2. Contents(<<"box", s>>) = ToSet(slots[s].box) /\ <<"box", s>> \in Places
    BY PlaceTypes, ContentsAre
  <2> QED  BY <1>1, <1>2, <2>1, <2>2
<1> QED  BY <1>0, <1>3, <1>4

\* What a call does, as far as the cookies' transfers depend on it.
LEMMA EnteredFacts ==
  ASSUME CollInv, BusyInv, NEW p \in Procs, NEW new, NEW box, NEW locked, NEW rest, Enters(p),
         Entered(p, new, box, locked, rest), Created(p, new), WentOn(p, new, locked, rest), Exact(p, new, box, rest)
  PROVE  /\ program' = program /\ DOMAIN slots' = Turns /\ Turn(p) \in Turns
         /\ slots'[Turn(p)].ticket = ticket[p] /\ slots'[Turn(p)].joined = JoinedBy(p) /\ slots'[Turn(p)].box = box
         /\ \A s \in Turns : s # Turn(p) => slots'[s] = slots[s]
         /\ pending' = pending /\ todo'[p] = rest
         /\ \A q \in Procs : q # p => todo'[q] = todo[q]
         /\ ToSet(box) \cup ToSet(rest) = ToSet(Box(p)) \cup new /\ ToSet(Box(p)) \cup new \subseteq Cookies
         /\ \A c \in new : cookie'[c].owner = p /\ cookie'[c].call = ticket[p]
         /\ \A c \in Cookies : c \notin new =>
              cookie'[c].owner = cookie[c].owner /\ cookie'[c].src = cookie[c].src /\ cookie'[c].call = cookie[c].call
         /\ \A c \in ToSet(Box(p)) \cup new : cookie'[c].call = ticket[p]
         /\ at'[p] = NoCookie \/ at'[p] \in ToSet(Box(p))
<1>1. /\ TypeOK /\ Turn(p) \in Turns /\ Box(p) \in Seq(Cookies) /\ Box(p) = slots[Turn(p)].box
  BY JoinedIs DEF CollInv
<1>2. /\ slots'[Turn(p)].ticket = ticket[p] /\ slots'[Turn(p)].joined = JoinedBy(p) /\ slots'[Turn(p)].box = box
      /\ \A s \in Turns : s # Turn(p) => slots'[s] = slots[s]
      /\ DOMAIN slots' = Turns
  BY DEF Entered, TurnTaken
<1>3. /\ pending' = pending /\ todo'[p] = rest
      /\ \A q \in Procs : q # p => todo'[q] = todo[q]
      /\ ToSet(box) \cup ToSet(rest) = ToSet(Box(p)) \cup new
  BY <1>1 DEF Entered, TypeOK
<1>4. /\ new \subseteq Cookies
      /\ \A c \in new : cookie'[c].owner = p /\ cookie'[c].call = ticket[p]
      /\ \A c \in Cookies : c \notin new =>
           cookie'[c].owner = cookie[c].owner /\ cookie'[c].src = cookie[c].src /\ cookie'[c].call = cookie[c].call
  BY DEF Created
<1>5. ToSet(Box(p)) \subseteq Cookies
  BY <1>1, MembersAre
<1>6. ASSUME NEW c \in ToSet(Box(p)) \cup new  PROVE  cookie'[c].call = ticket[p]
  <2>1. CASE c \in new
    BY <1>4, <2>1
  <2>2. CASE c \notin new
    BY <1>4, <1>5, <1>6, <2>2, InBoxKnown
  <2> QED  BY <2>1, <2>2
<1>7. at'[p] = NoCookie \/ at'[p] \in ToSet(Box(p))
  BY <1>1, TailMembers DEF WentOn
<1>8. program' = program
  BY DEF Exact
<1> QED  BY <1>1, <1>2, <1>3, <1>4, <1>5, <1>6, <1>7, <1>8

\* Who joins in a call joins the root, who waits in the slot alone.
LEMMA EnteredJoin ==
  ASSUME CollInv, BusyInv, NEW p \in Procs, NEW new, NEW box, NEW locked, NEW rest, Enters(p),
         Entered(p, new, box, locked, rest), Created(p, new), WentOn(p, new, locked, rest), Exact(p, new, box, rest),
         pc'[p] = "join"
  PROVE  /\ box = Box(p) /\ Box(p) = <<at'[p]>> /\ at'[p] \in ToSet(Box(p)) /\ at'[p] \in Cookies /\ at'[p] \notin new
         /\ Op(p).kind \in Rooted /\ cookie'[at'[p]].src = Op(p).root /\ cookie'[at'[p]].call = call'[p]
         /\ call'[p] = ticket[p]
<1>1. /\ Box(p) # <<>> /\ at'[p] = Head(Box(p)) /\ call'[p] = ticket[p]
  BY DEF WentOn
<1>2. IsLeaf(p) /\ RootWaits(p) /\ box = Box(p)
  BY DEF Exact
<1>3. PICK c : c = at'[p]
  OBVIOUS
<1>4. c \in ToSet(Box(p)) /\ c \in Cookies
  <2>1. Box(p) \in Seq(Cookies)
    BY JoinedIs
  <2> QED  BY <1>1, <1>3, <2>1, TailMembers, MembersAre
<1>5. Op(p).kind \in Rooted /\ cookie[c].src = Op(p).root
  BY <1>1, <1>2, <1>3 DEF IsLeaf, RootWaits
<1>6. Box(p) = <<c>>
  BY <1>4, <1>5, BoxExact
<1>7. c \notin new
  <2>1. <<"box", Turn(p)>> \in Places /\ c \in Contents(<<"box", Turn(p)>>)
    <3>1. Turn(p) \in Turns /\ Box(p) = slots[Turn(p)].box
      BY JoinedIs
    <3> QED  BY <1>4, <3>1, PlaceTypes, ContentsAre
  <2> QED  BY <2>1 DEF Created, Fresh
<1>8. cookie'[c].src = cookie[c].src /\ cookie'[c].call = ticket[p]
  BY <1>4, <1>7, InBoxKnown DEF Created
<1> QED  BY <1>1, <1>2, <1>3, <1>4, <1>5, <1>6, <1>7, <1>8

LEMMA EnteredExact ==
  ASSUME CollInv, BusyInv, NEW p \in Procs, NEW new, NEW box, NEW locked, NEW rest, Enters(p),
         Entered(p, new, box, locked, rest), Created(p, new), WentOn(p, new, locked, rest), Exact(p, new, box, rest)
  PROVE  BusyExact'
<1>0. PICK turn \in Turns : turn = Turn(p)
  BY JoinedIs
<1>1. /\ program' = program /\ DOMAIN slots' = Turns /\ slots'[turn].ticket = ticket[p]
      /\ slots'[turn].joined = JoinedBy(p) /\ slots'[turn].box = box
      /\ \A s \in Turns : s # turn => slots'[s] = slots[s]
      /\ pending' = pending /\ todo'[p] = rest /\ \A q \in Procs : q # p => todo'[q] = todo[q]
  BY <1>0, EnteredFacts
<1>2. /\ ToSet(box) \cup ToSet(rest) = ToSet(Box(p)) \cup new /\ ToSet(Box(p)) \cup new \subseteq Cookies
      /\ \A c \in Cookies : c \notin new => cookie'[c].src = cookie[c].src /\ cookie'[c].call = cookie[c].call
      /\ \A c \in ToSet(Box(p)) \cup new : cookie'[c].call = ticket[p]
      /\ at'[p] = NoCookie \/ at'[p] \in ToSet(Box(p))
  BY EnteredFacts
<1>3. Op(p) = program[ticket[p]] /\ NoCookie \notin Cookies
  BY ConstantTypes DEF Op
<1>4. /\ \A c \in Cookies : c # at'[p] => Movers(c)' = Movers(c)
      /\ \A c \in Cookies : c \notin new => Twice(c)' = Twice(c)
      /\ pc'[p] = "join" => Cardinality(Movers(at[p])') = Cardinality(Movers(at'[p])) + 1
  BY <1>1, EnteredMovers
<1>5. \A c \in Cookies : c \notin new /\ c \notin ToSet(Box(p)) => busy'[c] = busy[c]
  BY DEF Exact
<1>6. ASSUME NEW s \in Turns, NEW c \in ToSet(slots'[s].box)
      PROVE  busy'[c] = WaitsFor(program'[slots'[s].ticket], slots'[s].box, slots'[s].joined, c, cookie'[c].src,
                                 Cardinality(Movers(c)'))
  <2>1. CASE s = turn
    <3>1. c \in ToSet(box) /\ c \in Cookies
      BY <1>1, <1>2, <1>6, <2>1
    <3>2. Cardinality(Movers(c)') = IF pc'[p] = "join" THEN Cardinality(Movers(c)) + 1 ELSE Cardinality(Movers(c))
      <4>1. CASE pc'[p] = "join"
        <5>1. box = <<at'[p]>>
          BY <4>1, EnteredJoin
        <5>2. c = at'[p]
          BY <3>1, <5>1 DEF ToSet
        <5>3. Movers(c)' = Movers(at[p])'
          BY <5>2 DEF Movers
        <5> QED  BY <1>4, <4>1, <5>2, <5>3
      <4>2. CASE pc'[p] # "join"
        <5>1. at'[p] = NoCookie
          BY <4>2 DEF WentOn
        <5> QED  BY <1>3, <1>4, <3>1, <4>2, <5>1
      <4> QED  BY <4>1, <4>2
    <3>3. busy'[c] = WaitsFor(Op(p), box, JoinedBy(p), c, cookie'[c].src,
                              IF pc'[p] = "join" THEN Cardinality(Movers(c)) + 1 ELSE Cardinality(Movers(c)))
      BY <3>1 DEF Exact
    <3> QED  BY <1>1, <1>3, <2>1, <3>2, <3>3
  <2>2. CASE s # turn
    <3>1. slots'[s] = slots[s] /\ c \in ToSet(slots[s].box)
      BY <1>1, <1>6, <2>2
    <3>2. c \notin ToSet(Box(p)) /\ c \notin new /\ c \in Cookies
      <4>1. c \notin ToSet(Box(p))
        BY <1>0, <2>2, <3>1, OnlyInBox
      <4>2. c \notin new
        BY <3>1, PlaceTypes, ContentsAre DEF Created, Fresh
      <4>3. c \in Cookies
        BY <3>1, SlotTypes DEF CollInv
      <4> QED  BY <4>1, <4>2, <4>3
    <3>3. busy'[c] = busy[c] /\ cookie'[c].src = cookie[c].src /\ Movers(c)' = Movers(c)
      BY <1>2, <1>3, <1>4, <1>5, <3>2
    <3> QED  BY <1>1, <3>1, <3>3, ExactIs
  <2> QED  BY <2>1, <2>2
<1>7. ASSUME NEW q \in Procs, NEW c \in ToSet(todo'[q])
      PROVE  busy'[c] = ServedFor(program'[cookie'[c].call], cookie'[c].src)
  <2>1. CASE q = p
    <3>1. c \in ToSet(rest) /\ cookie'[c].call = ticket[p]
      BY <1>1, <1>2, <1>7, <2>1
    <3> QED  BY <1>1, <1>3, <3>1 DEF Exact
  <2>2. CASE q # p
    <3>1. c \in ToSet(todo[q])
      BY <1>1, <1>7, <2>2
    <3>2. c \notin ToSet(Box(p)) /\ c \notin new /\ c \in Cookies
      <4>1. c \notin ToSet(Box(p))
        BY <3>1, OnlyInBox
      <4>2. c \in Contents(<<"todo", q>>) /\ <<"todo", q>> \in Places /\ <<"todo", q>> # <<"free", p>>
        BY <3>1, PlaceTypes, ContentsAre
      <4>3. c \in Cookies
        BY <3>1, MembersAre DEF CollInv, TypeOK
      <4> QED  BY <4>1, <4>2, <4>3 DEF Created, Fresh
    <3> QED  BY <1>1, <1>2, <1>5, <3>1, <3>2, ExactIs
  <2> QED  BY <2>1, <2>2
<1>8. ASSUME NEW q \in Procs, NEW c \in pending'[q]
      PROVE  busy'[c] = Cardinality(Movers(c)') + Cardinality(Twice(c)')
  <2>1. c \in pending[q] /\ c \in Cookies /\ busy[c] = Cardinality(Movers(c)) + Cardinality(Twice(c))
    BY <1>1, <1>8, ExactIs
  <2>2. c \notin ToSet(Box(p)) /\ c \notin new
    <3>1. c \notin ToSet(Box(p))
      BY <2>1, OnlyInBox
    <3>2. c \in Contents(<<"pending", q>>) /\ <<"pending", q>> \in Places /\ <<"pending", q>> # <<"free", p>>
      BY <2>1, PlaceTypes, ContentsAre
    <3> QED  BY <3>1, <3>2 DEF Created, Fresh
  <2>3. Movers(c)' = Movers(c) /\ Twice(c)' = Twice(c) /\ busy'[c] = busy[c]
    BY <1>2, <1>3, <1>4, <1>5, <2>1, <2>2
  <2> QED  BY <2>1, <2>3
<1> QED  BY <1>1, <1>6, <1>7, <1>8, ExactBecomes

LEMMA EnteredBoxes ==
  ASSUME CollInv, BusyInv, NEW p \in Procs, NEW new, NEW box, NEW locked, NEW rest, Enters(p),
         Entered(p, new, box, locked, rest), Created(p, new), WentOn(p, new, locked, rest), Exact(p, new, box, rest)
  PROVE  MoverInv' /\ BoxInv' /\ ListsInv'
<1>0. PICK turn \in Turns : turn = Turn(p)
  BY JoinedIs
<1>1. /\ program' = program /\ DOMAIN slots' = Turns /\ slots'[turn].ticket = ticket[p]
      /\ slots'[turn].joined = JoinedBy(p) /\ slots'[turn].box = box
      /\ \A s \in Turns : s # turn => slots'[s] = slots[s]
      /\ pending' = pending /\ todo'[p] = rest /\ \A q \in Procs : q # p => todo'[q] = todo[q]
  BY <1>0, EnteredFacts
<1>2. /\ ToSet(box) \cup ToSet(rest) = ToSet(Box(p)) \cup new /\ ToSet(Box(p)) \cup new \subseteq Cookies
      /\ \A c \in Cookies : c \notin new =>
           cookie'[c].owner = cookie[c].owner /\ cookie'[c].src = cookie[c].src /\ cookie'[c].call = cookie[c].call
      /\ \A c \in ToSet(Box(p)) \cup new : cookie'[c].call = ticket[p]
  BY EnteredFacts
<1>3. /\ Op(p) = program[ticket[p]] /\ turn = ticket[p] % NSlots
      /\ Box(p) = slots[turn].box /\ (Box(p) # <<>> => slots[turn].ticket = ticket[p])
  BY <1>0, JoinedIs DEF Op, Turn, Slot
<1>4. \A q \in Procs : q # p => pc'[q] = pc[q] /\ call'[q] = call[q] /\ at'[q] = at[q]
  BY DEF WentOn
<1>5. \A c \in Cookies : InUse(c) => c \notin new
  BY EnteredUses
<1>6. ASSUME NEW q \in Procs, pc'[q] \in Moving
      PROVE  /\ cookie'[at'[q]].call = call'[q]
             /\ at'[q] \in pending'[cookie'[at'[q]].owner]
                \/ RootsCookie(call[q] % NSlots, at[q])'
  <2>1. CASE q = p
    <3>1. pc'[p] = "join"
      BY <1>6, <2>1 DEF WentOn, Moving
    <3>2. /\ box = <<at'[p]>> /\ Op(p).kind \in Rooted /\ cookie'[at'[p]].src = Op(p).root
          /\ cookie'[at'[p]].call = call'[p] /\ call'[p] % NSlots = turn
      <4>1. /\ box = <<at'[p]>> /\ Op(p).kind \in Rooted /\ cookie'[at'[p]].src = Op(p).root
            /\ cookie'[at'[p]].call = call'[p] /\ call'[p] = ticket[p]
        BY <3>1, EnteredJoin
      <4> QED  BY <1>3, <4>1
    <3>3. RootsCookie(call[p] % NSlots, at[p])'
      BY <1>1, <1>3, <3>2 DEF RootsCookie
    <3> QED  BY <2>1, <3>2, <3>3
  <2>2. CASE q # p
    <3>1. pc[q] \in Moving /\ pc'[q] = pc[q] /\ call'[q] = call[q] /\ at'[q] = at[q]
      BY <1>4, <1>6, <2>2
    <3>2. PICK c \in Cookies : c = at[q] /\ InUse(c)
      BY <3>1, MoversPlaced
    <3>3. /\ cookie'[c].owner = cookie[c].owner /\ cookie'[c].src = cookie[c].src
          /\ cookie'[c].call = cookie[c].call
      BY <1>2, <1>5, <3>2
    <3>4. /\ cookie[c].call = call[q]
          /\ c \in pending[cookie[c].owner] \/ RootsCookie(call[q] % NSlots, c)
      BY <3>1, <3>2 DEF BusyInv, MoverInv
    <3>5. PICK s \in Turns : s = call[q] % NSlots
      BY <3>1, WorksOn DEF Moving
    <3>6. RootsCookie(s, c) => RootsCookie(s, c)'
      <4> SUFFICES ASSUME RootsCookie(s, c)  PROVE  RootsCookie(s, c)'
        OBVIOUS
      <4>1. slots[s].box = <<c>> /\ program[slots[s].ticket].kind \in Rooted /\ cookie[c].src = program[slots[s].ticket].root
        BY DEF RootsCookie
      <4>2. slots'[s].box = <<c>> /\ slots'[s].ticket = slots[s].ticket
        <5>1. CASE s = turn
          <6>1. IsLeaf(p) /\ RootWaits(p) /\ Box(p) = <<c>>
            BY <1>0, <5>1, RootHere
          <6>2. box = Box(p)
            BY <6>1 DEF Exact
          <6> QED  BY <1>1, <1>3, <5>1, <6>1, <6>2
        <5>2. CASE s # turn
          BY <1>1, <4>1, <5>2
        <5> QED  BY <5>1, <5>2
      <4> QED  BY <1>1, <3>3, <4>1, <4>2 DEF RootsCookie
    <3>7. RootsCookie(s, c)' => RootsCookie(call[q] % NSlots, at[q])'
      BY <3>1, <3>2, <3>5 DEF RootsCookie
    <3> QED  BY <1>1, <3>1, <3>2, <3>3, <3>4, <3>5, <3>6, <3>7
  <2> QED  BY <2>1, <2>2
<1>7. MoverInv'
  BY <1>6 DEF MoverInv, Moving
<1>8. ASSUME NEW s \in Turns, slots'[s].box # <<>>
      PROVE  /\ program'[slots'[s].ticket].kind \in Rooted =>
                  \A c \in ToSet(slots'[s].box) : cookie'[c].src = program'[slots'[s].ticket].root => slots'[s].box = <<c>>
             /\ program'[slots'[s].ticket].kind = "allreduce" => Len(slots'[s].box) = slots'[s].joined
  <2>1. CASE s = turn
    BY <1>1, <1>3, <1>8, <2>1 DEF Exact
  <2>2. CASE s # turn
    <3>1. \A c \in ToSet(slots[s].box) : c \in Cookies /\ InUse(c)
      <4>1. <<"box", s>> \in Places /\ Contents(<<"box", s>>) = ToSet(slots[s].box) /\ ToSet(slots[s].box) \subseteq Cookies
        BY PlaceTypes, ContentsAre, SlotTypes DEF CollInv
      <4> QED  BY <4>1 DEF InUse
    <3>2. \A c \in ToSet(slots[s].box) : cookie'[c].src = cookie[c].src
      BY <1>2, <1>5, <3>1
    <3> QED  BY <1>1, <1>8, <2>2, <3>2 DEF BusyInv, BoxInv
  <2> QED  BY <2>1, <2>2
<1>9. BoxInv'
  BY <1>8 DEF BoxInv
<1>10. ASSUME NEW q \in Procs, NEW c \in ToSet(todo'[q])  PROVE  cookie'[c].call = call'[q]
  <2>1. CASE q = p
    <3>1. c \in ToSet(rest) /\ rest # <<>>
      BY <1>1, <1>10, <2>1, EmptyList
    <3>2. call'[p] = ticket[p]
      BY <3>1 DEF WentOn
    <3> QED  BY <1>2, <2>1, <3>1, <3>2
  <2>2. CASE q # p
    <3>1. c \in ToSet(todo[q]) /\ call'[q] = call[q]
      BY <1>1, <1>4, <1>10, <2>2
    <3>2. c \in Cookies /\ InUse(c)
      <4>1. c \in Contents(<<"todo", q>>) /\ <<"todo", q>> \in Places /\ c \in Cookies
        BY <3>1, PlaceTypes, ContentsAre, MembersAre DEF CollInv, TypeOK
      <4> QED  BY <4>1 DEF InUse
    <3>3. cookie[c].call = call[q]
      BY <3>1 DEF BusyInv, ListsInv
    <3> QED  BY <1>2, <1>5, <3>1, <3>2, <3>3
  <2> QED  BY <2>1, <2>2
<1>11. ASSUME NEW q \in Procs, NEW c \in pending'[q]  PROVE  cookie'[c].owner = q
  <2>1. c \in pending[q] /\ c \in Cookies
    BY <1>1, <1>11, ExactIs
  <2>2. InUse(c)
    BY <2>1, PlaceTypes, ContentsAre DEF InUse
  <2>3. cookie[c].owner = q
    BY <2>1 DEF BusyInv, ListsInv
  <2> QED  BY <1>2, <1>5, <2>1, <2>2, <2>3
<1>12. ListsInv'
  BY <1>10, <1>11 DEF ListsInv
<1> QED  BY <1>7, <1>9, <1>12

LEMMA EnteredOwners ==
  ASSUME CollInv, CountInv, BusyInv, NEW p \in Procs, NEW new, NEW box, NEW locked, NEW rest, Enters(p),
         Entered(p, new, box, locked, rest), Created(p, new), WentOn(p, new, locked, rest), Exact(p, new, box, rest)
  PROVE  OwnerInv'
<1>1. /\ \A c \in Cookies : c \notin new =>
           cookie'[c].owner = cookie[c].owner /\ cookie'[c].call = cookie[c].call
      /\ \A c \in new : cookie'[c].owner = p /\ cookie'[c].call = ticket[p] /\ reqs'[p][ticket[p]] = c
  BY EnteredFacts DEF Exact
<1>2. ASSUME NEW c \in Cookies, c \notin new
      PROVE  /\ busy[c] \in Int
             /\ busy'[c] > 0 => busy[c] > 0
             /\ busy[c] = 0 => busy'[c] = 0
  <2>1. busy[c] \in Int
    BY DEF CollInv, TypeOK
  <2>2. busy'[c] = busy[c] \/ (busy[c] > 0 /\ busy'[c] = busy[c] - 1)
    BY <1>2 DEF Exact
  <2> QED  BY <2>1, <2>2
<1>3. /\ \A c : InUse(c) => c \notin new
      /\ \A c : InUse(c)' => c \in new \/ InUse(c)
  BY EnteredUses
<1>4. reqs[p][ticket[p]] = NoCookie /\ ticket[p] \in Calls /\ NoCookie \notin Cookies
  <2>1. ticket[p] \in Nat /\ ticket[p] \in Calls
    BY JoinedIs
  <2> QED  BY <2>1, ConstantTypes DEF CollInv, CallInv
<1>5. ASSUME NEW c \in Cookies, InUse(c)', busy'[c] > 0  PROVE  reqs'[cookie'[c].owner][cookie'[c].call] = c
  <2>1. CASE c \in new
    BY <1>1, <2>1
  <2>2. CASE c \notin new
    <3>1. InUse(c) /\ busy[c] > 0
      BY <1>2, <1>3, <1>5, <2>2
    <3>2. PICK o \in Procs, t \in Calls : o = cookie[c].owner /\ t = cookie[c].call
      <4>1. Known(c)
        BY <3>1 DEF InUse, CollInv, KnownInv
      <4> QED  BY <4>1 DEF Known
    <3>3. reqs[o][t] = c
      BY <3>1, <3>2 DEF BusyInv, OwnerInv
    <3>4. reqs'[o][t] = reqs[o][t]
      <4>1. CASE o # p
        BY <4>1 DEF WentOn
      <4>2. CASE o = p
        <5>1. t # ticket[p]
          BY <1>4, <3>3, <4>2
        <5> QED  BY <4>2, <5>1 DEF WentOn
      <4> QED  BY <4>1, <4>2
    <3> QED  BY <1>1, <2>2, <3>2, <3>3, <3>4
  <2> QED  BY <2>1, <2>2
<1>6. ASSUME NEW q \in Procs, pc'[q] = "leave", cookie'[at'[q]].owner = q  PROVE  busy'[at'[q]] = 0
  <2>1. q # p
    BY <1>6 DEF WentOn
  <2>2. pc[q] = "leave" /\ at'[q] = at[q]
    BY <1>6, <2>1 DEF WentOn
  <2>3. PICK c \in Cookies : c = at[q] /\ reqs[q][call[q]] = c
    BY <2>2, WorksOn DEF CollInv, CallInv
  <2>4. InUse(c)
    BY <1>4, <2>2, <2>3, WorksOn DEF CountInv
  <2>5. cookie[c].owner = q
    BY <1>1, <1>3, <1>6, <2>2, <2>3, <2>4
  <2>6. busy[c] = 0
    BY <2>2, <2>3, <2>5 DEF BusyInv, OwnerInv
  <2> QED  BY <1>2, <1>3, <2>2, <2>3, <2>4, <2>6
<1> QED  BY <1>5, <1>6 DEF OwnerInv

LEMMA EnteredBusy ==
  ASSUME CollInv, CountInv, BusyInv, NEW p \in Procs, NEW new, NEW box, NEW locked, NEW rest, Enters(p),
         Entered(p, new, box, locked, rest), Created(p, new), WentOn(p, new, locked, rest), Exact(p, new, box, rest)
  PROVE  BusyInv'
<1>1. \A c \in Cookies : cookie'[c].err = MPI_SUCCESS
  BY DEF Exact
<1>2. BusyExact' /\ MoverInv' /\ BoxInv' /\ ListsInv' /\ OwnerInv'
  BY EnteredExact, EnteredBoxes, EnteredOwners
<1> QED  BY <1>1, <1>2 DEF BusyInv

\* No transfer fails, and used_ and busy_ are right.
AllWell == MPI_FAIL \notin Outcomes /\ CountInv /\ BusyInv

\* p makes its call.
EntersAs(p) ==
  /\ Enters(p) /\ RestTyped
  /\ \E new, box, locked, rest :
       Entered(p, new, box, locked, rest) /\ Created(p, new) /\ WentOn(p, new, locked, rest)

\* A call keeps the invariant, and used_ and busy_ right if they are.
Keeps(p) == EntersAs(p) /\ CollInv' /\ (CountInv => CountInv') /\ (AllWell => BusyInv')

\* The invariant after a call.
LEMMA EnteredKeeps ==
  ASSUME CollInv, NEW p \in Procs, NEW new, NEW box, NEW locked, NEW rest, Enters(p), Counts(p, new),
         Entered(p, new, box, locked, rest), Created(p, new), WentOn(p, new, locked, rest), RestTyped,
         AllWell => Exact(p, new, box, rest)
  PROVE  Keeps(p)
<1>1. CollInv'
  BY EnteredTypes, EnteredCalls, EnteredKnown, EnteredPlaces, EnteredRing DEF CollInv
<1>2. CountInv => CountInv'
  BY EnteredCounts
<1>3. AllWell => BusyInv'
  BY EnteredBusy DEF AllWell
<1>4. EntersAs(p)
  BY DEF EntersAs
<1> QED  BY <1>1, <1>2, <1>3, <1>4 DEF Keeps

-----------------------------------------------------------------------------
(* The parts of a call                                                     *)

LEMMA CreatesIs ==
  ASSUME CollInv, NEW p \in Procs, Enters(p), NEW c \in Cookies,
         NEW num \in Int, NEW waits \in [Cookies -> Int], Creates(p, c, num, waits)
  PROVE  /\ Created(p, {c}) /\ Fresh(p, c)
         /\ free' = [free EXCEPT ![p] = @ \ {c}] /\ used' = [used EXCEPT ![c] = 1]
         /\ cookie' \in [Cookies -> CookieRecords] /\ used' \in [Cookies -> Int] /\ busy' \in [Cookies -> Int]
<1>1. /\ c \in Available(p)
      /\ free' = [free EXCEPT ![p] = @ \ {c}]
      /\ used' = [used EXCEPT ![c] = 1] /\ busy' = [waits EXCEPT ![c] = num]
  BY DEF Creates
<1>2. PICK r : r = [owner |-> p, src |-> p, err |-> MPI_SUCCESS, call |-> ticket[p]]
  OBVIOUS
<1>3. cookie' = [cookie EXCEPT ![c] = r]
  BY <1>2 DEF Creates
<1>4. ticket[p] \in Nat /\ TypeOK
  BY JoinedIs DEF CollInv
<1>5. r \in CookieRecords /\ r.owner = p /\ r.src = p /\ r.call = ticket[p]
  BY <1>2, <1>4 DEF CookieRecords
<1>6. cookie \in [Cookies -> CookieRecords] /\ used \in [Cookies -> Int]
  BY <1>4 DEF TypeOK
<1>7. cookie' \in [Cookies -> CookieRecords] /\ used' \in [Cookies -> Int] /\ busy' \in [Cookies -> Int]
  BY <1>1, <1>3, <1>5, <1>6
<1>8. Fresh(p, c)
  BY <1>1, AvailableIsFresh
<1>9. Created(p, {c})
  BY <1>3, <1>5, <1>6, <1>8 DEF Created
<1> QED  BY <1>1, <1>7, <1>8, <1>9

LEMMA NothingCreated ==
  ASSUME NEW p \in Procs, UNCHANGED cookie
  PROVE  Created(p, {})
BY DEF Created

\* What a cookie waits for, by operation.
LEMMA WaitsForIs ==
  ASSUME NEW op, NEW box, NEW joined, NEW c, NEW src, NEW m
  PROVE  /\ op.kind \in Scans => WaitsFor(op, box, joined, c, src, m) = ServedFor(op, src)
         /\ op.kind \notin Scans => ServedFor(op, src) = 1
         /\ op.kind = "inplace" => WaitsFor(op, box, joined, c, src, m) = 1
         /\ op.kind \in Rooted => WaitsFor(op, box, joined, c, src, m) =
              IF c = Head(box) /\ src = op.root THEN N - joined + m ELSE 1
         /\ op.kind = "allgather" => WaitsFor(op, box, joined, c, src, m) =
              IF c = Head(box) THEN N - joined + 1 ELSE 1
         /\ op.kind = "allreduce" => WaitsFor(op, box, joined, c, src, m) =
              IF c = Last(box) THEN 2 + Len(box) - joined ELSE 1
BY DEF WaitsFor, ServedFor, Scans, Rooted

\* What busy_ is after a cookie was created.
LEMMA CreatesBusy ==
  ASSUME CollInv, BusyInv, NEW p \in Procs, Enters(p), NEW c \in Cookies,
         NEW num \in Int, NEW waits \in [Cookies -> Int], Creates(p, c, num, waits)
  PROVE  /\ \A b \in Cookies : cookie'[b].err = MPI_SUCCESS
         /\ busy'[c] = num /\ cookie'[c].src = p /\ Cardinality(Movers(c)) = 0 /\ c \notin ToSet(Box(p))
         /\ \A b \in Cookies : b # c => busy'[b] = waits[b] /\ cookie'[b].src = cookie[b].src
<1>1. PICK r : r = [owner |-> p, src |-> p, err |-> MPI_SUCCESS, call |-> ticket[p]]
  OBVIOUS
<1>2. cookie' = [cookie EXCEPT ![c] = r] /\ busy' = [waits EXCEPT ![c] = num]
  BY <1>1 DEF Creates
<1>3. cookie \in [Cookies -> CookieRecords] /\ r.err = MPI_SUCCESS /\ r.src = p
  BY <1>1 DEF CollInv, TypeOK
<1>4. Fresh(p, c)
  BY CreatesIs
<1>5. Cardinality(Movers(c)) = 0
  <2>1. ~InUse(c)
    BY <1>4 DEF Fresh, InUse
  <2>2. Movers(c) = {}
    BY <2>1, Unmoved
  <2> QED  BY <2>2, FS_EmptySet
<1>6. c \notin ToSet(Box(p))
  <2>1. Turn(p) \in Turns /\ Box(p) = slots[Turn(p)].box
    BY JoinedIs
  <2> QED  BY <1>4, <2>1, ContentsAre, PlaceTypes DEF Fresh
<1>7. \A b \in Cookies : cookie'[b].err = MPI_SUCCESS
  BY <1>2, <1>3 DEF BusyInv
<1>8. cookie'[c].src = p /\ \A b \in Cookies : b # c => cookie'[b] = cookie[b]
  BY <1>2, <1>3
<1>9. busy'[c] = num /\ \A b \in Cookies : b # c => busy'[b] = waits[b]
  BY <1>2
<1> QED  BY <1>5, <1>6, <1>7, <1>8, <1>9

\* A process that creates a cookie and leaves it in the slot with the others.
LEMMA PostExact ==
  ASSUME CollInv, BusyInv, NEW p \in Procs, Enters(p), NEW c \in Cookies,
         NEW num \in Int, NEW waits \in [Cookies -> Int], Creates(p, c, num, waits),
         NEW box, box = Append(Box(p), c), Holds(p, ticket[p], c), program' = program, pc'[p] # "join",
         \A b \in Cookies :
           waits[b] = busy[b] \/ (b \in ToSet(Box(p)) /\ busy[b] > 0 /\ waits[b] = busy[b] - 1),
         num = WaitsFor(Op(p), box, JoinedBy(p), c, p, 0),
         \A b \in ToSet(Box(p)) :
           waits[b] = WaitsFor(Op(p), box, JoinedBy(p), b, cookie[b].src, Cardinality(Movers(b))),
         Op(p).kind \in Rooted => p # Op(p).root /\ ~RootWaits(p),
         Op(p).kind = "allreduce" => Len(box) = JoinedBy(p)
  PROVE  Exact(p, {c}, box, <<>>)
<1>1. /\ \A b \in Cookies : cookie'[b].err = MPI_SUCCESS
      /\ busy'[c] = num /\ cookie'[c].src = p /\ Cardinality(Movers(c)) = 0 /\ c \notin ToSet(Box(p))
      /\ \A b \in Cookies : b # c => busy'[b] = waits[b] /\ cookie'[b].src = cookie[b].src
  BY CreatesBusy
<1>2. /\ ToSet(Box(p)) \subseteq Cookies /\ ToSet(box) = ToSet(Box(p)) \cup {c}
      /\ ticket[p] \in Calls /\ TypeOK
  <2>1. Box(p) \in Seq(Cookies) /\ IsInjective(Box(p)) /\ ticket[p] \in Calls /\ TypeOK
    BY JoinedIs DEF CollInv
  <2>2. ToSet(box) = ToSet(Box(p)) \cup {c}
    BY <1>1, <2>1, AppendMembers
  <2> QED  BY <2>1, <2>2, MembersAre
<1>3. reqs'[p][ticket[p]] = c
  BY <1>2, HoldsIs
<1>4. ASSUME NEW b \in ToSet(box)
      PROVE  /\ busy'[b] = WaitsFor(Op(p), box, JoinedBy(p), b, cookie'[b].src, Cardinality(Movers(b)))
             /\ Op(p).kind \in Rooted => cookie'[b].src # Op(p).root
  <2>1. CASE b = c
    BY <1>1, <2>1
  <2>2. CASE b # c
    <3>1. b \in ToSet(Box(p)) /\ b \in Cookies
      BY <1>2, <1>4, <2>2
    <3>2. Op(p).kind \in Rooted => cookie[b].src # Op(p).root
      BY <3>1, BoxExact
    <3> QED  BY <1>1, <2>2, <3>1, <3>2
  <2> QED  BY <2>1, <2>2
<1>5. ~(IsLeaf(p) /\ RootWaits(p))
  BY DEF IsLeaf
<1>6. \A b \in Cookies : b \notin {c} =>
        busy'[b] = busy[b] \/ (b \in ToSet(Box(p)) /\ busy[b] > 0 /\ busy'[b] = busy[b] - 1)
  BY <1>1
<1> QED  BY <1>1, <1>3, <1>4, <1>5, <1>6, EmptyList DEF Exact

\* The process that comes last serves all that are in the slot.
LEMMA TakeAllExact ==
  ASSUME CollInv, BusyInv, NEW p \in Procs, Enters(p), program' = program, cookie' = cookie, pc'[p] # "join",
         \A b \in Cookies :
           busy'[b] = busy[b] \/ (b \in ToSet(Box(p)) /\ busy[b] > 0 /\ busy'[b] = busy[b] - 1),
         \A b \in ToSet(Box(p)) : busy'[b] = ServedFor(Op(p), cookie[b].src),
         ~IsLeaf(p)
  PROVE  Exact(p, {}, <<>>, Box(p))
<1>1. \A b \in Cookies : cookie'[b].err = MPI_SUCCESS
  BY DEF BusyInv
<1> QED  BY <1>1, EmptyList DEF Exact

\* The process that joins the root's cookie is one more that moves its data, and one less
\* that is still to come.
LEMMA JoinExact ==
  ASSUME CollInv, BusyInv, NEW p \in Procs, Enters(p), IsLeaf(p), RootWaits(p),
         program' = program, cookie' = cookie, busy' = busy, pc'[p] = "join"
  PROVE  Exact(p, {}, Box(p), <<>>)
<1>1. PICK c : c = Head(Box(p)) /\ c \in ToSet(Box(p)) /\ cookie[c].src = Op(p).root /\ Op(p).kind \in Rooted
  <2>1. Box(p) \in Seq(Cookies) /\ Box(p) # <<>>
    BY JoinedIs DEF RootWaits
  <2> QED  BY <2>1, TailMembers DEF IsLeaf, RootWaits
<1>2. /\ Box(p) = <<c>> /\ \A b \in ToSet(Box(p)) : b = c
      /\ busy[c] = WaitsFor(Op(p), Box(p), JoinedBy(p) - 1, c, cookie[c].src, Cardinality(Movers(c)))
  <2>1. Box(p) = <<c>>
    BY <1>1, BoxExact
  <2>2. \A b \in ToSet(<<c>>) : b = c
    BY DEF ToSet
  <2>3. busy[c] = WaitsFor(Op(p), Box(p), JoinedBy(p) - 1, c, cookie[c].src, Cardinality(Movers(c)))
    BY <1>1, BoxExact
  <2> QED  BY <2>1, <2>2, <2>3
<1>3. PICK j \in Nat, m \in Nat : j = JoinedBy(p) /\ m = Cardinality(Movers(c))
  <2>1. JoinedBy(p) \in 1..N
    BY JoinedIs
  <2> QED  BY <2>1, MoversAre, ConstantTypes
<1>4. busy[c] = N - j + (m + 1)
  <2>1. busy[c] = N - (j - 1) + m
    BY <1>1, <1>2, <1>3, WaitsForIs
  <2> QED  BY <1>3, <2>1, ConstantTypes
<1>5. \A w : WaitsFor(Op(p), Box(p), JoinedBy(p), c, cookie[c].src, w) = N - j + w
  BY <1>1, <1>3, WaitsForIs
<1>6. Op(p).kind # "allreduce" /\ \A b \in Cookies : cookie'[b].err = MPI_SUCCESS
  BY <1>1 DEF Rooted, BusyInv
<1>7. \A b \in ToSet(Box(p)) : busy'[b] = WaitsFor(Op(p), Box(p), JoinedBy(p), b, cookie'[b].src, Cardinality(Movers(b)) + 1)
  BY <1>2, <1>3, <1>4, <1>5
<1>8. \A b \in ToSet(Box(p)) : cookie'[b].src = Op(p).root => Box(p) = <<b>>
  BY <1>2
<1> QED  BY <1>6, <1>7, <1>8, EmptyList DEF Exact

\* What the others have left in the slot, when none of them is the root of the call.
LEMMA NoRootInBox ==
  ASSUME CollInv, BusyInv, NEW p \in Procs, Enters(p), Op(p).kind \in Rooted, p = Op(p).root \/ ~RootWaits(p)
  PROVE  \A b \in ToSet(Box(p)) :
           /\ b \in Cookies /\ cookie[b].src # Op(p).root /\ busy[b] = 1
           /\ ServedFor(Op(p), cookie[b].src) = 1
           /\ \A box, joined, m : WaitsFor(Op(p), box, joined, b, cookie[b].src, m) = 1
<1> TAKE b \in ToSet(Box(p))
<1>1. b \in Cookies /\ ticket[cookie[b].src] > ticket[p] /\ ticket[p] \in Nat
  BY InBoxKnown, JoinedIs
<1>2. cookie[b].src # p
  BY <1>1
<1>3. cookie[b].src # Op(p).root
  BY <1>2, BoxExact
<1>4. \A box, joined, m : WaitsFor(Op(p), box, joined, b, cookie[b].src, m) = 1
  BY <1>3, WaitsForIs
<1>5. busy[b] = 1
  BY <1>4, BoxExact
<1> QED  BY <1>1, <1>3, <1>4, <1>5, WaitsForIs DEF Rooted, Scans

\* The root creates a cookie that waits for those still to come, and serves the others.
LEMMA RootExact ==
  ASSUME CollInv, BusyInv, NEW p \in Procs, Enters(p), IsRoot(p), NEW c \in Cookies,
         Remaining(p) \in Int, Creates(p, c, Remaining(p), busy), Holds(p, ticket[p], c), program' = program, pc'[p] # "join"
  PROVE  Exact(p, {c}, <<c>>, Box(p))
<1>1. /\ \A b \in Cookies : cookie'[b].err = MPI_SUCCESS
      /\ busy'[c] = Remaining(p) /\ cookie'[c].src = p /\ Cardinality(Movers(c)) = 0 /\ c \notin ToSet(Box(p))
      /\ \A b \in Cookies : b # c => busy'[b] = busy[b] /\ cookie'[b].src = cookie[b].src
  <2>1. busy \in [Cookies -> Int]
    BY DEF CollInv, TypeOK
  <2> QED  BY <2>1, CreatesBusy
<1>2. Op(p).kind \in Rooted /\ p = Op(p).root /\ Op(p).kind # "allreduce"
  BY DEF IsRoot, Rooted
<1>3. ToSet(<<c>>) = {c} /\ Head(<<c>>) = c
  BY DEF ToSet
<1>4. WaitsFor(Op(p), <<c>>, JoinedBy(p), c, p, 0) = Remaining(p)
  <2>1. WaitsFor(Op(p), <<c>>, JoinedBy(p), c, p, 0) = N - JoinedBy(p) + 0
    BY <1>2, <1>3, WaitsForIs
  <2> QED  BY <2>1, JoinedIs, ConstantTypes DEF Remaining
<1>5. \A b \in ToSet(Box(p)) : busy'[b] = ServedFor(Op(p), cookie'[b].src)
  BY <1>1, <1>2, NoRootInBox
<1>6. reqs'[p][ticket[p]] = c
  <2>1. TypeOK /\ ticket[p] \in Calls
    BY JoinedIs DEF CollInv
  <2> QED  BY <2>1, HoldsIs
<1>7. ~IsLeaf(p)
  BY <1>2 DEF IsLeaf
<1> QED  BY <1>1, <1>2, <1>3, <1>4, <1>5, <1>6, <1>7 DEF Exact

\* The process does not serve anybody.
LEMMA StaysIdle ==
  ASSUME CollInv, NEW p \in Procs, Enters(p), UNCHANGED calls
  PROVE  /\ todo' = [todo EXCEPT ![p] = <<>>]
         /\ pc' = pc /\ call' = call /\ at' = at /\ seen' = seen
         /\ pc'[p] = "idle" /\ at'[p] = NoCookie
<1>1. pc[p] = "idle" /\ todo[p] = <<>> /\ at[p] = NoCookie /\ TypeOK
  BY DEF CollInv, CallInv, Enters, Calling
<1>2. todo' = todo /\ pc' = pc /\ call' = call /\ at' = at /\ seen' = seen
  BY DEF calls
<1>3. todo = [todo EXCEPT ![p] = <<>>]
  BY <1>1 DEF TypeOK
<1> QED  BY <1>1, <1>2, <1>3

\* The process goes on to serve those in rest, if there are any.
LEMMA ServesIs ==
  ASSUME TypeOK, NEW p \in Procs, NEW t \in Nat, NEW rest \in Seq(Cookies), Serves(p, t, rest)
  PROVE  /\ todo' = [todo EXCEPT ![p] = rest]
         /\ pc' \in [Procs -> {"idle", "join", "serve", "deliver", "scan", "wait", "leave"}]
         /\ call' \in [Procs -> Nat] /\ at' \in [Procs -> Cookies \cup {NoCookie}]
         /\ \A q \in Procs : q # p => pc'[q] = pc[q] /\ call'[q] = call[q] /\ at'[q] = at[q]
         /\ at'[p] = NoCookie
         /\ \/ pc'[p] = "idle" /\ rest = <<>>
            \/ pc'[p] = "serve" /\ call'[p] = t /\ rest # <<>>
<1>1. /\ pc \in [Procs -> {"idle", "join", "serve", "deliver", "scan", "wait", "leave"}]
      /\ call \in [Procs -> Nat] /\ at \in [Procs -> Cookies \cup {NoCookie}]
  BY DEF TypeOK
<1>2. CASE rest = <<>>
  <2>1. /\ pc' = [pc EXCEPT ![p] = "idle"] /\ call' = [call EXCEPT ![p] = 0]
        /\ at' = [at EXCEPT ![p] = NoCookie] /\ todo' = [todo EXCEPT ![p] = <<>>]
    BY <1>2 DEF Serves, Returns, Goes
  <2> QED  BY <1>1, <1>2, <2>1
<1>3. CASE rest # <<>>
  <2>1. /\ pc' = [pc EXCEPT ![p] = "serve"] /\ call' = [call EXCEPT ![p] = t]
        /\ at' = [at EXCEPT ![p] = NoCookie] /\ todo' = [todo EXCEPT ![p] = rest]
    BY <1>3 DEF Serves, Goes
  <2> QED  BY <1>1, <1>3, <2>1
<1> QED  BY <1>2, <1>3

LEMMA DataTypes ==
  /\ \A p \in Procs : {p} \in Data
  /\ {} \in Data /\ Procs \in Data
  /\ \A a, b \in Data : Plus(a, b) \in Data /\ a \cup b \in Data
BY DEF Data, Plus, Spoilt

LEMMA ContributesIs ==
  ASSUME TypeOK, NEW p \in Procs, Contributes(p)
  PROVE  buf' \in [Procs -> [Calls -> Data]]
<1>1. PICK d \in Data : buf' = [buf EXCEPT ![p][ticket[p]] = d]
  BY DataTypes DEF Contributes
<1> QED  BY <1>1 DEF TypeOK

-----------------------------------------------------------------------------
(* The calls                                                               *)

LEMMA NothingTaken ==
  ASSUME TypeOK, NEW p \in Procs, UNCHANGED free
  PROVE  free' = [free EXCEPT ![p] = @ \ {}]
BY DEF TypeOK

\* A process that creates a cookie and leaves it in the slot with the others.
LEMMA PostKeeps ==
  ASSUME CollInv, NEW p \in Procs, Enters(p), NEW c \in Cookies,
         NEW num \in Int, NEW waits \in [Cookies -> Int], Creates(p, c, num, waits),
         TurnTaken(p, Append(Box(p), c), FALSE), Holds(p, ticket[p], c),
         buf' \in [Procs -> [Calls -> Data]],
         UNCHANGED <<program, pending, calls, exited, lost>>,
         AllWell => Exact(p, {c}, Append(Box(p), c), <<>>)
  PROVE  Keeps(p)
<1>1. /\ TypeOK /\ Box(p) \in Seq(Cookies) /\ IsInjective(Box(p)) /\ ticket[p] \in Calls
      /\ Turn(p) \in Turns /\ Box(p) = slots[Turn(p)].box
  BY JoinedIs DEF CollInv
<1>2. UNCHANGED calls /\ pending' = pending /\ program' = program /\ exited' = exited /\ lost' = lost
  OBVIOUS
<1>3. /\ Created(p, {c}) /\ Fresh(p, c)
      /\ free' = [free EXCEPT ![p] = @ \ {c}] /\ used' = [used EXCEPT ![c] = 1]
      /\ cookie' \in [Cookies -> CookieRecords] /\ used' \in [Cookies -> Int] /\ busy' \in [Cookies -> Int]
  BY CreatesIs
<1>4. /\ todo' = [todo EXCEPT ![p] = <<>>]
      /\ pc' = pc /\ call' = call /\ at' = at /\ seen' = seen
      /\ pc'[p] = "idle" /\ at'[p] = NoCookie
  BY <1>2, StaysIdle
<1>5. c \notin ToSet(Box(p))
  BY <1>1, <1>3, ContentsAre, PlaceTypes DEF Fresh
<1>6. /\ Append(Box(p), c) \in Seq(Cookies) /\ IsInjective(Append(Box(p), c))
      /\ ToSet(Append(Box(p), c)) = ToSet(Box(p)) \cup {c} /\ Append(Box(p), c) # <<>>
  <2>1. /\ Append(Box(p), c) \in Seq(Cookies) /\ IsInjective(Append(Box(p), c))
        /\ ToSet(Append(Box(p), c)) = ToSet(Box(p)) \cup {c}
    BY <1>1, <1>5, AppendMembers
  <2> QED  BY <2>1, EmptyList
<1>7. Entered(p, {c}, Append(Box(p), c), FALSE, <<>>)
  BY <1>2, <1>3, <1>4, <1>6, EmptyList DEF Entered
<1>8. WentOn(p, {c}, FALSE, <<>>)
  BY <1>1, <1>4, HoldsIs DEF WentOn
<1>9. RestTyped
  BY <1>1, <1>2, <1>3, <1>4 DEF RestTyped, TypeOK
<1>10. Counts(p, {c})
  BY <1>2, <1>3 DEF Counts
<1> QED  BY <1>3, <1>7, <1>8, <1>9, <1>10, EnteredKeeps

\* A process that leaves no cookie, and finds the slot as it leaves it.
LEMMA PassKeeps ==
  ASSUME CollInv, NEW p \in Procs, Enters(p), TurnTaken(p, Box(p), TRUE), WentOn(p, {}, TRUE, <<>>),
         Created(p, {}), todo' = [todo EXCEPT ![p] = <<>>], RestTyped, UNCHANGED lists, UNCHANGED <<used, reqs, lost>>,
         AllWell => Exact(p, {}, Box(p), <<>>)
  PROVE  Keeps(p)
<1>1. TypeOK /\ Box(p) \in Seq(Cookies) /\ IsInjective(Box(p))
  BY JoinedIs DEF CollInv
<1>2. pending' = pending /\ free' = [free EXCEPT ![p] = @ \ {}]
  BY <1>1, NothingTaken DEF lists
<1>3. Entered(p, {}, Box(p), TRUE, <<>>)
  BY <1>1, <1>2, EmptyList DEF Entered
<1>4. Counts(p, {})
  BY DEF Counts
<1> QED  BY <1>3, <1>4, EnteredKeeps

\* The process that comes last takes all cookies to serve them, and borrows one.
LEMMA TakeAllKeeps ==
  ASSUME CollInv, NEW p \in Procs, Enters(p), ComesLast(p), NEW c \in ToSet(Box(p)), Borrows(p, c),
         TurnTaken(p, <<>>, FALSE), busy' \in [Cookies -> Int],
         buf' \in [Procs -> [Calls -> Data]],
         UNCHANGED <<program, lists, cookie, seen, exited, lost>>,
         AllWell => Exact(p, {}, <<>>, Box(p))
  PROVE  Keeps(p)
<1>1. /\ TypeOK /\ Box(p) \in Seq(Cookies) /\ IsInjective(Box(p)) /\ ticket[p] \in Calls /\ ticket[p] \in Nat
      /\ c \in Cookies
  BY JoinedIs, MembersAre DEF CollInv
<1>2. UNCHANGED lists /\ UNCHANGED cookie /\ seen' = seen /\ program' = program /\ exited' = exited /\ lost' = lost
  OBVIOUS
<1>3. /\ used' = [used EXCEPT ![c] = @ + 1] /\ Holds(p, ticket[p], c) /\ Serves(p, ticket[p], Box(p))
  BY DEF Borrows
<1>4. /\ todo' = [todo EXCEPT ![p] = Box(p)]
      /\ pc' \in [Procs -> {"idle", "join", "serve", "deliver", "scan", "wait", "leave"}]
      /\ call' \in [Procs -> Nat] /\ at' \in [Procs -> Cookies \cup {NoCookie}]
      /\ \A q \in Procs : q # p => pc'[q] = pc[q] /\ call'[q] = call[q] /\ at'[q] = at[q]
      /\ at'[p] = NoCookie
      /\ \/ pc'[p] = "idle" /\ Box(p) = <<>>
         \/ pc'[p] = "serve" /\ call'[p] = ticket[p] /\ Box(p) # <<>>
  BY <1>1, <1>3, ServesIs
<1>5. pending' = pending /\ free' = [free EXCEPT ![p] = @ \ {}]
  BY <1>1, <1>2, NothingTaken DEF lists
<1>6. Entered(p, {}, <<>>, FALSE, Box(p))
  BY <1>1, <1>4, <1>5, EmptyList DEF Entered
<1>7. Created(p, {})
  BY <1>2, NothingCreated
<1>8. WentOn(p, {}, FALSE, Box(p))
  BY <1>1, <1>3, <1>4, HoldsIs DEF WentOn
<1>9. RestTyped
  BY <1>1, <1>2, <1>3, <1>4 DEF RestTyped, TypeOK
<1>10. Counts(p, {})
  BY <1>2, <1>3 DEF Counts
<1> QED  BY <1>6, <1>7, <1>8, <1>9, <1>10, EnteredKeeps

LEMMA LeafJoinsKeeps ==
  ASSUME CollInv, NEW p \in Procs, LeafJoins(p)
  PROVE  Keeps(p)
<1>1. /\ Enters(p) /\ RootWaits(p) /\ TakesTurn(p, Box(p), TRUE)
      /\ Goes(p, "join", ticket[p], Head(Box(p)), <<>>)
      /\ seen' = [seen EXCEPT ![p] = used[Head(Box(p))]] /\ Contributes(p)
  BY DEF LeafJoins
<1>2. UNCHANGED <<program, lists, cookies, reqs, exited, lost>>
  BY DEF LeafJoins
<1>3. /\ TypeOK /\ Box(p) \in Seq(Cookies) /\ ticket[p] \in Nat /\ Box(p) # <<>>
      /\ Box(p) = slots[Turn(p)].box
  BY <1>1, JoinedIs DEF CollInv, RootWaits
<1>4. Head(Box(p)) \in Cookies
  BY <1>3, TailMembers
<1>5. TurnTaken(p, Box(p), TRUE)
  BY <1>1, <1>3, TurnTakenBy
<1>6. /\ pc' = [pc EXCEPT ![p] = "join"] /\ call' = [call EXCEPT ![p] = ticket[p]]
      /\ at' = [at EXCEPT ![p] = Head(Box(p))] /\ todo' = [todo EXCEPT ![p] = <<>>]
  BY <1>1 DEF Goes
<1>7. WentOn(p, {}, TRUE, <<>>)
  <2>1. reqs' = reqs
    BY <1>2
  <2>2. slots'[Turn(p)].box = Box(p)
    BY <1>5 DEF TurnTaken
  <2>3. /\ \A q \in Procs : q # p => pc'[q] = pc[q] /\ call'[q] = call[q] /\ at'[q] = at[q]
        /\ pc'[p] = "join" /\ call'[p] = ticket[p] /\ at'[p] = Head(Box(p))
    BY <1>3, <1>6 DEF TypeOK
  <2> QED  BY <1>3, <2>1, <2>2, <2>3 DEF WentOn, TypeOK
<1>8. Created(p, {})
  BY <1>2, NothingCreated DEF cookies
<1>9. RestTyped
  <2>1. program' = program /\ exited' = exited /\ lost' = lost /\ cookie' = cookie /\ used' = used /\ busy' = busy
    BY <1>2 DEF cookies
  <2>2. buf' \in [Procs -> [Calls -> Data]]
    BY <1>1, <1>3, ContributesIs
  <2> QED  BY <1>1, <1>3, <1>4, <1>6, <2>1, <2>2 DEF RestTyped, TypeOK
<1>10. UNCHANGED lists /\ UNCHANGED <<used, reqs, lost>>
  BY <1>2 DEF cookies
<1>11. AllWell => Exact(p, {}, Box(p), <<>>)
  <2>1. program' = program /\ cookie' = cookie /\ busy' = busy /\ pc'[p] = "join" /\ IsLeaf(p)
    BY <1>2, <1>3, <1>6 DEF cookies, TypeOK, LeafJoins
  <2> QED  BY <1>1, <2>1, JoinExact DEF AllWell
<1> QED  BY <1>1, <1>5, <1>6, <1>7, <1>8, <1>9, <1>10, <1>11, PassKeeps

LEMMA LeafPostsKeeps ==
  ASSUME CollInv, NEW p \in Procs, LeafPosts(p)
  PROVE  Keeps(p)
<1>1. Enters(p) /\ Contributes(p) /\ UNCHANGED <<program, pending, calls, exited, lost>>
  BY DEF LeafPosts
<1>2. PICK c \in Cookies :
        Creates(p, c, 1, busy) /\ TakesTurn(p, Append(Box(p), c), FALSE) /\ Holds(p, ticket[p], c)
  BY DEF LeafPosts
<1>3. TypeOK /\ busy \in [Cookies -> Int] /\ Append(Box(p), c) \in Seq(Cookies)
  BY <1>1, JoinedIs, AppendMembers DEF CollInv, TypeOK
<1>4. TurnTaken(p, Append(Box(p), c), FALSE)
  BY <1>1, <1>2, <1>3, TurnTakenBy
<1>5. buf' \in [Procs -> [Calls -> Data]]
  BY <1>1, <1>3, ContributesIs
<1>6. UNCHANGED <<program, pending, calls, exited, lost>> /\ 1 \in Int
  BY <1>1
<1>7. ASSUME AllWell  PROVE Exact(p, {c}, Append(Box(p), c), <<>>)
  <2>1. BusyInv /\ Op(p).kind \in Rooted /\ Op(p).root # p /\ ~RootWaits(p) /\ program' = program
    BY <1>6, <1>7 DEF AllWell, LeafPosts, IsLeaf
  <2>2. pc'[p] # "join"
    BY <1>1, <1>6, StaysIdle
  <2>3. PICK box : box = Append(Box(p), c)
    OBVIOUS
  <2>4. 1 = WaitsFor(Op(p), box, JoinedBy(p), c, p, 0)
    BY <2>1, WaitsForIs
  <2>5. \A b \in ToSet(Box(p)) :
          busy[b] = WaitsFor(Op(p), box, JoinedBy(p), b, cookie[b].src, Cardinality(Movers(b)))
    BY <1>1, <2>1, NoRootInBox
  <2>6. Op(p).kind # "allreduce"
    BY <2>1 DEF Rooted
  <2> QED  BY <1>1, <1>2, <1>3, <1>6, <2>1, <2>2, <2>3, <2>4, <2>5, <2>6, PostExact
<1> QED  BY <1>1, <1>2, <1>3, <1>4, <1>5, <1>6, <1>7, PostKeeps

LEMMA RootPostsKeeps ==
  ASSUME CollInv, NEW p \in Procs, RootPosts(p)
  PROVE  Keeps(p)
<1>1. Enters(p) /\ Contributes(p) /\ Serves(p, ticket[p], Box(p)) /\ UNCHANGED <<program, pending, seen, exited, lost>>
  BY DEF RootPosts
<1>2. PICK c \in Cookies :
        Creates(p, c, Remaining(p), busy) /\ TakesTurn(p, <<c>>, FALSE) /\ Holds(p, ticket[p], c)
  BY DEF RootPosts
<1>3. /\ TypeOK /\ busy \in [Cookies -> Int] /\ Remaining(p) \in Int /\ ticket[p] \in Calls /\ ticket[p] \in Nat
      /\ Box(p) \in Seq(Cookies) /\ IsInjective(Box(p)) /\ Turn(p) \in Turns /\ Box(p) = slots[Turn(p)].box
  <2>1. JoinedBy(p) \in 1..N
    BY <1>1, JoinedIs
  <2>2. Remaining(p) \in Int
    BY <2>1, ConstantTypes DEF Remaining
  <2>3. TypeOK /\ busy \in [Cookies -> Int]
    BY DEF CollInv, TypeOK
  <2> QED  BY <1>1, <2>2, <2>3, JoinedIs
<1>4. /\ Created(p, {c}) /\ Fresh(p, c)
      /\ free' = [free EXCEPT ![p] = @ \ {c}] /\ used' = [used EXCEPT ![c] = 1]
      /\ cookie' \in [Cookies -> CookieRecords] /\ used' \in [Cookies -> Int] /\ busy' \in [Cookies -> Int]
  BY <1>1, <1>2, <1>3, CreatesIs
<1>5. <<c>> \in Seq(Cookies) /\ IsInjective(<<c>>) /\ ToSet(<<c>>) = {c} /\ <<c>> # <<>>
  BY DEF IsInjective, ToSet
<1>6. TurnTaken(p, <<c>>, FALSE)
  BY <1>1, <1>2, <1>5, TurnTakenBy
<1>7. /\ todo' = [todo EXCEPT ![p] = Box(p)]
      /\ pc' \in [Procs -> {"idle", "join", "serve", "deliver", "scan", "wait", "leave"}]
      /\ call' \in [Procs -> Nat] /\ at' \in [Procs -> Cookies \cup {NoCookie}]
      /\ \A q \in Procs : q # p => pc'[q] = pc[q] /\ call'[q] = call[q] /\ at'[q] = at[q]
      /\ at'[p] = NoCookie
      /\ \/ pc'[p] = "idle" /\ Box(p) = <<>>
         \/ pc'[p] = "serve" /\ call'[p] = ticket[p] /\ Box(p) # <<>>
  BY <1>1, <1>3, ServesIs
<1>8. c \notin ToSet(Box(p))
  BY <1>3, <1>4, ContentsAre, PlaceTypes DEF Fresh
<1>9. Entered(p, {c}, <<c>>, FALSE, Box(p))
  BY <1>1, <1>3, <1>4, <1>5, <1>6, <1>7, <1>8 DEF Entered
<1>10. WentOn(p, {c}, FALSE, Box(p))
  BY <1>2, <1>3, <1>7, HoldsIs DEF WentOn
<1>11. RestTyped
  <2>1. buf' \in [Procs -> [Calls -> Data]]
    BY <1>1, <1>3, ContributesIs
  <2> QED  BY <1>1, <1>3, <1>4, <1>7, <2>1 DEF RestTyped, TypeOK
<1>12. Counts(p, {c})
  BY <1>1, <1>2, <1>4 DEF Counts
<1>13. AllWell => Exact(p, {c}, <<c>>, Box(p))
  <2>1. IsRoot(p) /\ program' = program /\ pc'[p] # "join"
    BY <1>1, <1>7 DEF RootPosts
  <2> QED  BY <1>1, <1>2, <1>3, <2>1, RootExact DEF AllWell
<1> QED  BY <1>1, <1>4, <1>9, <1>10, <1>11, <1>12, <1>13, EnteredKeeps

LEMMA RootLastKeeps ==
  ASSUME CollInv, NEW p \in Procs, RootLast(p)
  PROVE  Keeps(p)
<1>1. Enters(p) /\ ComesLast(p) /\ Borrows(p, Last(Box(p))) /\ TakesTurn(p, <<>>, FALSE) /\ Contributes(p)
  BY DEF RootLast
<1>2. UNCHANGED <<program, lists, cookie, busy, seen, exited, lost>>
  BY DEF RootLast
<1>3. TypeOK /\ Box(p) \in Seq(Cookies) /\ Box(p) # <<>>
  BY <1>1, JoinedIs DEF CollInv
<1>4. Last(Box(p)) \in ToSet(Box(p))
  BY <1>3, LastMember
<1>5. TurnTaken(p, <<>>, FALSE)
  BY <1>1, EmptyList, TurnTakenBy
<1>6. buf' \in [Procs -> [Calls -> Data]] /\ busy' \in [Cookies -> Int]
  BY <1>1, <1>2, <1>3, ContributesIs DEF TypeOK
<1>7. UNCHANGED <<program, lists, cookie, seen, exited, lost>>
  BY <1>2
<1>8. ASSUME AllWell  PROVE Exact(p, {}, <<>>, Box(p))
  <2>1. BusyInv /\ Op(p).kind \in Rooted /\ Op(p).root = p /\ ~IsLeaf(p)
    BY <1>8 DEF AllWell, RootLast, IsRoot, IsLeaf
  <2>2. program' = program /\ cookie' = cookie /\ busy' = busy
    BY <1>2
  <2>3. \A b \in ToSet(Box(p)) : busy'[b] = ServedFor(Op(p), cookie[b].src)
    BY <1>1, <2>1, <2>2, NoRootInBox
  <2>4. pc'[p] # "join"
    <3>1. Serves(p, ticket[p], Box(p)) /\ ticket[p] \in Nat
      BY <1>1, JoinedIs DEF Borrows
    <3> QED  BY <1>3, <3>1, ServesIs
  <2> QED  BY <1>1, <2>1, <2>2, <2>3, <2>4, TakeAllExact
<1> QED  BY <1>1, <1>4, <1>5, <1>6, <1>7, <1>8, TakeAllKeeps

LEMMA ExchangeFirstKeeps ==
  ASSUME CollInv, NEW p \in Procs, ExchangeFirst(p)
  PROVE  Keeps(p)
<1> DEFINE num == IF Op(p).kind = "allgather" THEN N ELSE 2
<1>1. Enters(p) /\ ComesFirst(p) /\ Contributes(p)
  BY DEF ExchangeFirst
<1>2. UNCHANGED <<program, pending, calls, exited, lost>>
  BY DEF ExchangeFirst
<1>3. PICK c \in Cookies :
        Creates(p, c, num, busy) /\ TakesTurn(p, <<c>>, FALSE) /\ Holds(p, ticket[p], c)
  BY DEF ExchangeFirst
<1>4. TypeOK /\ busy \in [Cookies -> Int] /\ Box(p) = <<>> /\ num \in Int
  <2>1. N \in Int /\ 2 \in Int
    BY ConstantTypes
  <2> QED  BY <1>1, <2>1, JoinedIs DEF CollInv, TypeOK
<1>5. Append(Box(p), c) = <<c>> /\ <<c>> \in Seq(Cookies)
  BY <1>4
<1>6. TurnTaken(p, Append(Box(p), c), FALSE)
  BY <1>1, <1>3, <1>5, TurnTakenBy
<1>7. buf' \in [Procs -> [Calls -> Data]]
  BY <1>1, <1>4, ContributesIs
<1>8. ASSUME AllWell  PROVE Exact(p, {c}, Append(Box(p), c), <<>>)
  <2>1. /\ BusyInv /\ Op(p).kind \in {"allgather", "allreduce"} /\ Op(p).kind \notin Rooted /\ program' = program
        /\ JoinedBy(p) = 1
    BY <1>1, <1>2, <1>8 DEF AllWell, ExchangeFirst, IsExchange, ComesFirst, Rooted
  <2>2. pc'[p] # "join"
    BY <1>1, <1>2, StaysIdle
  <2>3. PICK box : box = Append(Box(p), c) /\ c = Head(box) /\ c = Last(box) /\ Len(box) = 1
    <3>1. c = Head(<<c>>) /\ Len(<<c>>) = 1
      OBVIOUS
    <3>2. c = Last(<<c>>)
      BY DEF Last
    <3> QED  BY <1>5, <3>1, <3>2
  <2>4. num = WaitsFor(Op(p), box, JoinedBy(p), c, p, 0)
    <3>1. CASE Op(p).kind = "allgather"
      <4>1. c = Head(box)
        BY <2>3
      <4>2. WaitsFor(Op(p), box, JoinedBy(p), c, p, 0) = N - JoinedBy(p) + 1
        BY <3>1, <4>1, WaitsForIs
      <4> QED  BY <2>1, <3>1, <4>2, ConstantTypes
    <3>2. CASE Op(p).kind = "allreduce"
      <4>1. c = Last(box)
        BY <2>3
      <4>2. WaitsFor(Op(p), box, JoinedBy(p), c, p, 0) = 2 + Len(box) - JoinedBy(p)
        BY <3>2, <4>1, WaitsForIs
      <4> QED  BY <2>1, <2>3, <3>2, <4>2
    <3> QED  BY <2>1, <3>1, <3>2
  <2>5. \A b : b \notin ToSet(Box(p))
    BY <1>4, EmptyList
  <2> HIDE DEF num
  <2> QED  BY <1>1, <1>3, <1>4, <2>1, <2>2, <2>3, <2>4, <2>5, PostExact
<1> HIDE DEF num
<1> QED  BY <1>1, <1>2, <1>3, <1>4, <1>6, <1>7, <1>8, PostKeeps

\* The cookie p exchanges data with is in its slot.
LEMMA PartnerIs ==
  ASSUME CollInv, NEW p \in Procs, Enters(p), ~ComesFirst(p)
  PROVE  /\ Box(p) # <<>> /\ Partner(p) \in ToSet(Box(p))
         /\ Partner(p) \in Cookies /\ Known(Partner(p))
<1>1. Box(p) \in Seq(Cookies)
  BY JoinedIs
<1>2. Box(p) # <<>>
  BY DEF ComesFirst, JoinedBy
<1>3. Partner(p) \in ToSet(Box(p))
  BY <1>1, <1>2, TailMembers, LastMember DEF Partner
<1>4. PICK c \in ToSet(Box(p)) : c = Partner(p)
  BY <1>3
<1>5. c \in Cookies /\ Known(c)
  BY InBoxKnown
<1> QED  BY <1>2, <1>3, <1>4, <1>5 DEF Known

LEMMA NotifiedType ==
  ASSUME TypeOK, NEW c
  PROVE  Notified(c) \in [Cookies -> Int]
<1>1. busy \in [Cookies -> Int] /\ \A b \in Cookies : busy[b] \in Int
  BY DEF TypeOK
<1>2. CASE c \in Cookies
  BY <1>1, <1>2 DEF Notified
<1>3. CASE c \notin Cookies
  BY <1>1, <1>3 DEF Notified
<1> QED  BY <1>2, <1>3

LEMMA ExchangesIs ==
  ASSUME CollInv, NEW p \in Procs, Exchanges(p)
  PROVE  /\ Enters(p) /\ ~ComesFirst(p) /\ buf' \in [Procs -> [Calls -> Data]]
<1>1. Enters(p) /\ ~ComesFirst(p)
  BY DEF Exchanges, ComesLater
<1>2. /\ ticket[p] \in Calls /\ buf \in [Procs -> [Calls -> Data]]
      /\ cookie[Partner(p)].owner \in Procs /\ cookie[Partner(p)].call \in Calls
  BY <1>1, JoinedIs, PartnerIs DEF CollInv, TypeOK, Known
<1>3. PICK o \in Procs, t \in Calls : o = cookie[Partner(p)].owner /\ t = cookie[Partner(p)].call
  BY <1>2
<1>4. buf' = IF Op(p).kind = "allgather"
             THEN [[buf EXCEPT ![p][ticket[p]] = {p}] EXCEPT ![o][t] = @ \cup {p}]
             ELSE [buf EXCEPT ![p][ticket[p]] = Plus({p}, buf[o][t])]
  BY <1>3 DEF Exchanges
<1>5. CASE Op(p).kind = "allgather"
  <2>1. PICK b \in [Procs -> [Calls -> Data]] : b = [buf EXCEPT ![p][ticket[p]] = {p}]
    BY <1>2, DataTypes
  <2>2. PICK d \in Data : d = b[o][t] \cup {p}
    BY DataTypes
  <2>3. buf' = [b EXCEPT ![o][t] = d]
    BY <1>4, <1>5, <2>1, <2>2
  <2> QED  BY <1>1, <2>3
<1>6. CASE Op(p).kind # "allgather"
  <2>1. PICK d \in Data : d = Plus({p}, buf[o][t])
    BY <1>2, DataTypes
  <2>2. buf' = [buf EXCEPT ![p][ticket[p]] = d]
    BY <1>4, <1>6, <2>1
  <2> QED  BY <1>1, <1>2, <2>2
<1> QED  BY <1>5, <1>6

LEMMA NotifiedIs ==
  ASSUME TypeOK, NEW c
  PROVE  \A b \in Cookies : Notified(c)[b] = IF b = c THEN busy[b] - 1 ELSE busy[b]
BY DEF TypeOK, Notified

\* What the partner waits for before the exchange, and the others of the slot. Before an
\* exchange the last one in the slot waits for the transfer to it and for that of its result.
LEMMA PartnerBusy ==
  ASSUME CollInv, BusyInv, NEW p \in Procs, Enters(p), ~ComesFirst(p), IsExchange(p)
  PROVE  /\ Op(p).kind = "allgather" => busy[Partner(p)] = N - JoinedBy(p) + 2
         /\ Op(p).kind = "allreduce" => busy[Partner(p)] = 2
         /\ busy[Partner(p)] > 0
         /\ \A b \in ToSet(Box(p)) : b # Partner(p) => busy[b] = 1
         /\ Op(p).kind = "allreduce" => Len(Box(p)) = JoinedBy(p) - 1
<1>1. PICK c \in ToSet(Box(p)) : c = Partner(p)
  BY PartnerIs
<1>2. \A b \in ToSet(Box(p)) :
        /\ busy[b] = WaitsFor(Op(p), Box(p), JoinedBy(p) - 1, b, cookie[b].src, Cardinality(Movers(b)))
        /\ Op(p).kind = "allreduce" => Len(Box(p)) = JoinedBy(p) - 1
  BY BoxExact
<1>3. JoinedBy(p) \in Nat /\ JoinedBy(p) <= N /\ N \in Nat
  <2>1. JoinedBy(p) \in 1..N
    BY JoinedIs
  <2> QED  BY <2>1, ConstantTypes
<1>4. CASE Op(p).kind = "allgather"
  <2>1. Partner(p) = Head(Box(p))
    BY <1>4 DEF Partner
  <2>2. busy[c] = N - (JoinedBy(p) - 1) + 1
    BY <1>1, <1>2, <1>4, <2>1, WaitsForIs
  <2>3. busy[c] = N - JoinedBy(p) + 2 /\ busy[c] > 0
    BY <1>3, <2>2
  <2>4. \A b \in ToSet(Box(p)) : b # c => busy[b] = 1
    BY <1>1, <1>2, <1>4, <2>1, WaitsForIs
  <2> QED  BY <1>1, <1>4, <2>3, <2>4
<1>5. CASE Op(p).kind = "allreduce"
  <2>1. Partner(p) = Last(Box(p))
    BY <1>5 DEF Partner
  <2>2. busy[c] = 2 + Len(Box(p)) - (JoinedBy(p) - 1)
    BY <1>1, <1>2, <1>5, <2>1, WaitsForIs
  <2>3. busy[c] = 2 + (JoinedBy(p) - 1) - (JoinedBy(p) - 1)
    BY <1>1, <1>2, <1>5, <2>2
  <2>4. busy[c] = 2 /\ busy[c] > 0
    BY <1>3, <2>3
  <2>5. \A b \in ToSet(Box(p)) : b # c => busy[b] = 1
    BY <1>1, <1>2, <1>5, <2>1, WaitsForIs
  <2> QED  BY <1>1, <1>2, <1>5, <2>4, <2>5
<1> QED  BY <1>4, <1>5 DEF IsExchange

\* After the exchange p's cookie waits as its partner's did.
LEMMA MiddleExact ==
  ASSUME CollInv, BusyInv, NEW p \in Procs, Enters(p), ~ComesFirst(p), IsExchange(p), NEW c \in Cookies,
         c \notin ToSet(Box(p)), NEW box,
         Head(box) = Head(Box(p)), Last(box) = c, Len(box) = Len(Box(p)) + 1
  PROVE  /\ WaitsFor(Op(p), box, JoinedBy(p), c, p, 0) = IF Op(p).kind = "allgather" THEN 1 ELSE 2
         /\ \A b \in ToSet(Box(p)) :
              Notified(Partner(p))[b] = WaitsFor(Op(p), box, JoinedBy(p), b, cookie[b].src, Cardinality(Movers(b)))
         /\ Op(p).kind = "allreduce" => Len(box) = JoinedBy(p)
<1>1. /\ TypeOK /\ Box(p) \in Seq(Cookies) /\ Box(p) # <<>> /\ Partner(p) \in ToSet(Box(p))
      /\ ToSet(Box(p)) \subseteq Cookies
  BY PartnerIs, JoinedIs, MembersAre DEF CollInv
<1>2. Head(Box(p)) \in ToSet(Box(p))
  BY <1>1, TailMembers
<1>3. \A b \in ToSet(Box(p)) : Notified(Partner(p))[b] = IF b = Partner(p) THEN busy[b] - 1 ELSE 1
  BY <1>1, NotifiedIs, PartnerBusy
<1>4. JoinedBy(p) \in Nat /\ N \in Nat
  <2>1. JoinedBy(p) \in 1..N
    BY JoinedIs
  <2> QED  BY <2>1, ConstantTypes
<1>5. CASE Op(p).kind = "allgather"
  <2>1. Partner(p) = Head(box) /\ c # Head(box)
    BY <1>2, <1>5 DEF Partner
  <2>2. WaitsFor(Op(p), box, JoinedBy(p), c, p, 0) = 1
    BY <1>5, <2>1, WaitsForIs
  <2>3. \A b \in ToSet(Box(p)) :
          WaitsFor(Op(p), box, JoinedBy(p), b, cookie[b].src, Cardinality(Movers(b))) =
            IF b = Partner(p) THEN N - JoinedBy(p) + 1 ELSE 1
    BY <1>5, <2>1, WaitsForIs
  <2>4. busy[Partner(p)] = N - JoinedBy(p) + 2
    BY <1>5, PartnerBusy
  <2>5. busy[Partner(p)] - 1 = N - JoinedBy(p) + 1
    BY <1>4, <2>4
  <2> QED  BY <1>3, <1>5, <2>2, <2>3, <2>5
<1>6. CASE Op(p).kind = "allreduce"
  <2>1. WaitsFor(Op(p), box, JoinedBy(p), c, p, 0) = 2 + Len(box) - JoinedBy(p)
    BY <1>2, <1>6, WaitsForIs
  <2>2. Len(box) = JoinedBy(p)
    <3>1. Len(Box(p)) = JoinedBy(p) - 1
      BY <1>6, PartnerBusy
    <3> QED  BY <1>2, <1>4, <3>1
  <2>3. \A b \in ToSet(Box(p)) :
          WaitsFor(Op(p), box, JoinedBy(p), b, cookie[b].src, Cardinality(Movers(b))) = 1
    BY <1>2, <1>6, WaitsForIs
  <2>4. busy[Partner(p)] - 1 = 1
    <3>1. busy[Partner(p)] = 2
      BY <1>6, PartnerBusy
    <3> QED  BY <3>1
  <2>5. 2 + Len(box) - JoinedBy(p) = 2
    BY <1>4, <2>2
  <2> QED  BY <1>3, <1>6, <2>1, <2>2, <2>3, <2>4, <2>5
<1> QED  BY <1>5, <1>6 DEF IsExchange

LEMMA ExchangeMiddleKeeps ==
  ASSUME CollInv, NEW p \in Procs, ExchangeMiddle(p)
  PROVE  Keeps(p)
<1> DEFINE num == IF Op(p).kind = "allgather" THEN 1 ELSE 2
<1>1. Exchanges(p) /\ UNCHANGED <<program, pending, calls, exited, lost>>
  BY DEF ExchangeMiddle
<1>2. PICK c \in Cookies :
        /\ Creates(p, c, num, Notified(Partner(p)))
        /\ TakesTurn(p, Append(Box(p), c), FALSE) /\ Holds(p, ticket[p], c)
  BY DEF ExchangeMiddle
<1>3. /\ TypeOK /\ Notified(Partner(p)) \in [Cookies -> Int] /\ num \in Int
      /\ Enters(p) /\ buf' \in [Procs -> [Calls -> Data]]
  <2>1. TypeOK /\ num \in Int
    BY DEF CollInv
  <2>2. Notified(Partner(p)) \in [Cookies -> Int]
    BY <2>1, NotifiedType
  <2> QED  BY <1>1, <2>1, <2>2, ExchangesIs
<1>4. Append(Box(p), c) \in Seq(Cookies)
  BY <1>3, JoinedIs, AppendMembers
<1>5. TurnTaken(p, Append(Box(p), c), FALSE)
  BY <1>2, <1>3, <1>4, TurnTakenBy
<1>6. UNCHANGED <<program, pending, calls, exited, lost>>
  BY <1>1
<1> HIDE DEF num
<1>7. PICK waits \in [Cookies -> Int] : waits = Notified(Partner(p))
  BY <1>3
<1>8. Creates(p, c, num, waits)
  BY <1>2, <1>7
<1>9. ASSUME AllWell  PROVE Exact(p, {c}, Append(Box(p), c), <<>>)
  <2>1. BusyInv /\ ~ComesFirst(p) /\ IsExchange(p) /\ Op(p).kind \notin Rooted /\ program' = program
    BY <1>1, <1>9 DEF AllWell, Exchanges, ComesLater, IsExchange, Rooted
  <2>2. pc'[p] # "join"
    BY <1>3, <1>6, StaysIdle
  <2>3. PICK box : box = Append(Box(p), c)
    OBVIOUS
  <2>4. c \notin ToSet(Box(p))
    BY <1>3, <1>8, <2>1, CreatesBusy
  <2>7. Head(box) = Head(Box(p)) /\ Last(box) = c /\ Len(box) = Len(Box(p)) + 1
    <3>1. Box(p) \in Seq(Cookies) /\ Box(p) # <<>>
      BY <1>3, <2>1, JoinedIs, PartnerIs
    <3>2. Head(box) = Head(Box(p)) /\ Len(box) = Len(Box(p)) + 1
      BY <2>3, <3>1
    <3>3. Last(box) = c
      BY <2>3, <3>1 DEF Last
    <3> QED  BY <3>2, <3>3
  <2>5. /\ num = WaitsFor(Op(p), box, JoinedBy(p), c, p, 0)
        /\ \A b \in ToSet(Box(p)) :
             waits[b] = WaitsFor(Op(p), box, JoinedBy(p), b, cookie[b].src, Cardinality(Movers(b)))
        /\ Op(p).kind = "allreduce" => Len(box) = JoinedBy(p)
    BY <1>3, <1>7, <2>1, <2>4, <2>7, MiddleExact DEF num
  <2>6. \A b \in Cookies :
          waits[b] = busy[b] \/ (b \in ToSet(Box(p)) /\ busy[b] > 0 /\ waits[b] = busy[b] - 1)
    BY <1>3, <1>7, <2>1, NotifiedIs, PartnerIs, PartnerBusy
  <2> QED  BY <1>2, <1>3, <1>8, <2>1, <2>2, <2>3, <2>5, <2>6, PostExact
<1> QED  BY <1>2, <1>3, <1>5, <1>6, <1>8, <1>9, PostKeeps

LEMMA ExchangeLastKeeps ==
  ASSUME CollInv, NEW p \in Procs, ExchangeLast(p)
  PROVE  Keeps(p)
<1>1. /\ Exchanges(p) /\ ComesLast(p) /\ Borrows(p, Partner(p))
      /\ busy' = Notified(Partner(p)) /\ TakesTurn(p, <<>>, FALSE)
  BY DEF ExchangeLast
<1>2. UNCHANGED <<program, lists, cookie, seen, exited, lost>>
  BY DEF ExchangeLast
<1>3. /\ TypeOK /\ Enters(p) /\ ~ComesFirst(p)
      /\ buf' \in [Procs -> [Calls -> Data]] /\ busy' \in [Cookies -> Int]
  <2>1. TypeOK
    BY DEF CollInv
  <2>2. Notified(Partner(p)) \in [Cookies -> Int]
    BY <2>1, NotifiedType
  <2> QED  BY <1>1, <2>1, <2>2, ExchangesIs
<1>4. Partner(p) \in ToSet(Box(p))
  BY <1>3, PartnerIs
<1>5. TurnTaken(p, <<>>, FALSE)
  BY <1>1, <1>3, EmptyList, TurnTakenBy
<1>6. ASSUME AllWell  PROVE Exact(p, {}, <<>>, Box(p))
  <2>1. /\ BusyInv /\ IsExchange(p) /\ Op(p).kind \notin Rooted /\ Op(p).kind \notin Scans
        /\ ~IsLeaf(p) /\ program' = program /\ cookie' = cookie
    BY <1>1, <1>2, <1>6 DEF AllWell, Exchanges, ComesLater, IsExchange, Rooted, Scans, IsLeaf
  <2>2. pc'[p] # "join"
    <3>1. Serves(p, ticket[p], Box(p)) /\ ticket[p] \in Nat /\ Box(p) \in Seq(Cookies)
      BY <1>1, <1>3, JoinedIs DEF Borrows
    <3> QED  BY <1>3, <3>1, ServesIs
  <2>3. busy[Partner(p)] = 2 /\ \A b \in ToSet(Box(p)) : b # Partner(p) => busy[b] = 1
    <3>1. JoinedBy(p) = N /\ N - N + 2 = 2
      BY <1>1, ConstantTypes DEF ComesLast
    <3> QED  BY <1>3, <2>1, <3>1, PartnerBusy DEF IsExchange
  <2>4. \A b \in Cookies : busy'[b] = IF b = Partner(p) THEN busy[b] - 1 ELSE busy[b]
    BY <1>1, <1>3, NotifiedIs
  <2>5. \A b \in Cookies :
          busy'[b] = busy[b] \/ (b \in ToSet(Box(p)) /\ busy[b] > 0 /\ busy'[b] = busy[b] - 1)
    BY <1>4, <2>3, <2>4
  <2>6. \A b \in ToSet(Box(p)) : busy'[b] = 1
    <3>1. ToSet(Box(p)) \subseteq Cookies
      BY <1>3, JoinedIs, MembersAre
    <3> QED  BY <2>3, <2>4, <3>1
  <2>7. \A b : ServedFor(Op(p), cookie[b].src) = 1
    BY <2>1, WaitsForIs
  <2> QED  BY <1>3, <2>1, <2>2, <2>5, <2>6, <2>7, TakeAllExact
<1> QED  BY <1>1, <1>2, <1>3, <1>4, <1>5, <1>6, TakeAllKeeps

\* An error is noted in the cookie.
LEMMA ErrorNoted ==
  ASSUME TypeOK, NEW p \in Procs, NEW c, cookie' = [cookie EXCEPT ![c].err = MPI_FAIL]
  PROVE  /\ cookie' \in [Cookies -> CookieRecords]
         /\ \A b \in Cookies :
              cookie'[b].owner = cookie[b].owner /\ cookie'[b].src = cookie[b].src /\ cookie'[b].call = cookie[b].call
<1>1. cookie \in [Cookies -> CookieRecords]
  BY DEF TypeOK
<1>2. CASE c \notin Cookies
  BY <1>1, <1>2
<1>3. CASE c \in Cookies
  <2>1. PICK r : r = [cookie[c] EXCEPT !.err = MPI_FAIL]
    OBVIOUS
  <2>2. r \in CookieRecords /\ r.owner = cookie[c].owner /\ r.src = cookie[c].src /\ r.call = cookie[c].call
    BY <1>1, <1>3, <2>1 DEF CookieRecords
  <2>3. cookie' = [cookie EXCEPT ![c] = r]
    BY <2>1
  <2> QED  BY <1>1, <1>3, <2>2, <2>3
<1> QED  BY <1>2, <1>3

LEMMA ExchangeFailsKeeps ==
  ASSUME CollInv, NEW p \in Procs, ExchangeFails(p)
  PROVE  Keeps(p)
<1>1. /\ Enters(p) /\ cookie' = [cookie EXCEPT ![Partner(p)].err = MPI_FAIL]
      /\ busy' = Notified(Partner(p)) /\ TakesTurn(p, Box(p), TRUE) /\ Contributes(p)
  BY DEF ExchangeFails, ComesLater
<1>2. UNCHANGED <<program, lists, used, calls, reqs, exited, lost>>
  BY DEF ExchangeFails
<1>3. TypeOK /\ Box(p) \in Seq(Cookies)
  BY <1>1, JoinedIs DEF CollInv
<1>4. TurnTaken(p, Box(p), TRUE)
  BY <1>1, <1>3, TurnTakenBy
<1>5. /\ todo' = [todo EXCEPT ![p] = <<>>]
      /\ pc' = pc /\ call' = call /\ at' = at /\ seen' = seen
      /\ pc'[p] = "idle" /\ at'[p] = NoCookie
  <2>1. UNCHANGED calls
    BY <1>2
  <2> QED  BY <1>1, <2>1, StaysIdle
<1>6. /\ cookie' \in [Cookies -> CookieRecords]
      /\ \A b \in Cookies :
           cookie'[b].owner = cookie[b].owner /\ cookie'[b].src = cookie[b].src /\ cookie'[b].call = cookie[b].call
  BY <1>1, <1>3, ErrorNoted
<1>7. Created(p, {})
  BY <1>6 DEF Created
<1>8. WentOn(p, {}, TRUE, <<>>)
  <2>1. reqs' = reqs
    BY <1>2
  <2> QED  BY <1>3, <1>5, <2>1 DEF WentOn, TypeOK
<1>9. RestTyped
  <2>1. program' = program /\ exited' = exited /\ lost' = lost /\ used' = used
    BY <1>2
  <2>2. buf' \in [Procs -> [Calls -> Data]] /\ busy' \in [Cookies -> Int]
    BY <1>1, <1>3, ContributesIs, NotifiedType
  <2> QED  BY <1>3, <1>5, <1>6, <2>1, <2>2 DEF RestTyped, TypeOK
<1>10. UNCHANGED lists /\ UNCHANGED <<used, reqs, lost>>
  BY <1>2
<1>11. ~AllWell
  BY DEF AllWell, ExchangeFails
<1> QED  BY <1>1, <1>4, <1>5, <1>7, <1>8, <1>9, <1>10, <1>11, PassKeeps

LEMMA AddedType ==
  ASSUME CollInv, NEW p \in Procs, Enters(p)
  PROVE  Added(p) \in Data /\ Slot(p).sendbuf \in Data /\ Slot(p).recvbuf \in Data
<1>1. Slot(p).sendbuf \in Data /\ Slot(p).recvbuf \in Data
  BY JoinedIs DEF SlotRecords
<1> QED  BY <1>1, DataTypes DEF Added

LEMMA InplacePostsKeeps ==
  ASSUME CollInv, NEW p \in Procs, InplacePosts(p)
  PROVE  Keeps(p)
<1>1. Enters(p) /\ Contributes(p)
  BY DEF InplacePosts
<1>2. UNCHANGED <<program, pending, calls, exited, lost>> /\ 1 \in Int
  BY DEF InplacePosts
<1>3. PICK c \in Cookies :
        /\ Creates(p, c, 1, busy) /\ Holds(p, ticket[p], c)
        /\ TakesTurnWith(p, [Turned(p, Append(Box(p), c), FALSE) EXCEPT
             !.sendbuf = Added(p), !.recvbuf = IF ComesFirst(p) THEN @ ELSE Added(p)])
  BY DEF InplacePosts
<1>4. TypeOK /\ busy \in [Cookies -> Int] /\ Append(Box(p), c) \in Seq(Cookies)
  BY <1>1, JoinedIs, AppendMembers DEF CollInv, TypeOK
<1>5. PICK turned \in SlotRecords :
        /\ turned = Turned(p, Append(Box(p), c), FALSE)
        /\ turned.ticket = ticket[p] /\ turned.joined = JoinedBy(p)
        /\ turned.box = Append(Box(p), c) /\ turned.locked = FALSE
  BY <1>1, <1>4, TurnedIs
<1>6. turned.recvbuf \in Data /\ Added(p) \in Data
  BY <1>1, AddedType DEF SlotRecords
<1>7. PICK b \in Data : b = IF ComesFirst(p) THEN turned.recvbuf ELSE Added(p)
  BY <1>6
<1>8. PICK slot : slot = [turned EXCEPT !.sendbuf = Added(p), !.recvbuf = b]
  OBVIOUS
<1>9. /\ slot \in SlotRecords /\ slot.ticket = ticket[p] /\ slot.joined = JoinedBy(p)
      /\ slot.box = Append(Box(p), c) /\ slot.locked = FALSE
  <2>1. PICK a \in Data : a = Added(p)
    BY <1>6
  <2>2. slot = [turned EXCEPT !.sendbuf = a, !.recvbuf = b]
    BY <1>8, <2>1
  <2>3. /\ slot \in SlotRecords
        /\ slot.ticket = turned.ticket /\ slot.joined = turned.joined
        /\ slot.box = turned.box /\ slot.locked = turned.locked
    BY <2>2 DEF SlotRecords
  <2> QED  BY <1>5, <2>3
<1>10. TakesTurnWith(p, slot)
  BY <1>3, <1>5, <1>7, <1>8
<1>11. TurnTaken(p, Append(Box(p), c), FALSE)
  BY <1>1, <1>9, <1>10, TurnTakenWith
<1>12. buf' \in [Procs -> [Calls -> Data]]
  BY <1>1, <1>4, ContributesIs
<1>13. ASSUME AllWell  PROVE Exact(p, {c}, Append(Box(p), c), <<>>)
  <2>1. /\ BusyInv /\ Op(p).kind = "inplace" /\ Op(p).kind \notin Rooted /\ Op(p).kind # "allreduce"
        /\ program' = program
    BY <1>2, <1>13 DEF AllWell, InplacePosts, Rooted
  <2>2. pc'[p] # "join"
    BY <1>1, <1>2, StaysIdle
  <2>3. PICK box : box = Append(Box(p), c)
    OBVIOUS
  <2>4. \A x, src, joined, m, bx : WaitsFor(Op(p), bx, joined, x, src, m) = 1
    BY <2>1, WaitsForIs
  <2>5. \A x \in ToSet(Box(p)) : busy[x] = 1
    BY <1>1, <2>1, <2>4, BoxExact
  <2>6. /\ 1 = WaitsFor(Op(p), box, JoinedBy(p), c, p, 0)
        /\ \A x \in ToSet(Box(p)) :
             busy[x] = WaitsFor(Op(p), box, JoinedBy(p), x, cookie[x].src, Cardinality(Movers(x)))
    BY <2>4, <2>5
  <2>7. busy \in [Cookies -> Int] /\ 1 \in Int /\ Creates(p, c, 1, busy) /\ Holds(p, ticket[p], c)
    BY <1>2, <1>3, <1>4
  <2> QED  BY <1>1, <2>1, <2>2, <2>3, <2>6, <2>7, PostExact
<1> QED  BY <1>1, <1>2, <1>3, <1>4, <1>11, <1>12, <1>13, PostKeeps

LEMMA InplaceLastKeeps ==
  ASSUME CollInv, NEW p \in Procs, InplaceLast(p)
  PROVE  Keeps(p)
<1>1. /\ Enters(p) /\ ComesLast(p) /\ Borrows(p, Last(Box(p)))
      /\ TakesTurnWith(p, [Turned(p, <<>>, FALSE) EXCEPT !.recvbuf = Slot(p).sendbuf])
      /\ buf' = [buf EXCEPT ![p][ticket[p]] = Added(p)]
  BY DEF InplaceLast
<1>2. UNCHANGED <<program, lists, cookie, busy, seen, exited, lost>>
  BY DEF InplaceLast
<1>3. TypeOK /\ Box(p) \in Seq(Cookies) /\ Box(p) # <<>> /\ ticket[p] \in Calls
  BY <1>1, JoinedIs DEF CollInv
<1>4. Last(Box(p)) \in ToSet(Box(p))
  BY <1>3, LastMember
<1>5. PICK turned \in SlotRecords :
        /\ turned = Turned(p, <<>>, FALSE)
        /\ turned.ticket = ticket[p] /\ turned.joined = JoinedBy(p) /\ turned.box = <<>> /\ turned.locked = FALSE
  BY <1>1, EmptyList, TurnedIs
<1>6. turned.sendbuf \in Data /\ Slot(p).sendbuf \in Data /\ Added(p) \in Data
  BY <1>1, AddedType DEF SlotRecords
<1>7. PICK slot : slot = [turned EXCEPT !.recvbuf = Slot(p).sendbuf]
  OBVIOUS
<1>8. /\ slot \in SlotRecords /\ slot.ticket = ticket[p] /\ slot.joined = JoinedBy(p)
      /\ slot.box = <<>> /\ slot.locked = FALSE
  BY <1>5, <1>6, <1>7 DEF SlotRecords
<1>9. TakesTurnWith(p, slot)
  BY <1>1, <1>5, <1>7
<1>10. TurnTaken(p, <<>>, FALSE)
  BY <1>1, <1>8, <1>9, TurnTakenWith
<1>11. buf' \in [Procs -> [Calls -> Data]] /\ busy' \in [Cookies -> Int]
  BY <1>1, <1>2, <1>3, <1>6 DEF TypeOK
<1>12. UNCHANGED <<program, lists, cookie, seen, exited, lost>>
  BY <1>2
<1>13. ASSUME AllWell  PROVE Exact(p, {}, <<>>, Box(p))
  <2>1. /\ BusyInv /\ Op(p).kind = "inplace" /\ Op(p).kind \notin Scans /\ ~IsLeaf(p)
        /\ program' = program /\ cookie' = cookie /\ busy' = busy
    BY <1>2, <1>13 DEF AllWell, InplaceLast, Rooted, Scans, IsLeaf
  <2>2. pc'[p] # "join"
    <3>1. Serves(p, ticket[p], Box(p)) /\ ticket[p] \in Nat
      BY <1>1, JoinedIs DEF Borrows
    <3> QED  BY <1>3, <3>1, ServesIs
  <2>3. \A b, src, joined, m, bx : WaitsFor(Op(p), bx, joined, b, src, m) = 1
    BY <2>1, WaitsForIs
  <2>4. \A b \in ToSet(Box(p)) : busy[b] = 1
    BY <1>1, <2>1, <2>3, BoxExact
  <2>5. \A b : ServedFor(Op(p), cookie[b].src) = 1
    BY <2>1, WaitsForIs
  <2> QED  BY <1>1, <2>1, <2>2, <2>4, <2>5, TakeAllExact
<1> QED  BY <1>1, <1>4, <1>10, <1>11, <1>12, <1>13, TakeAllKeeps

\* The cookies in the list are in the order of their processes' ranks.
RanksRise(list) ==
  /\ \A c \in ToSet(list) : cookie'[c].src \in Procs
  /\ \A i, j \in DOMAIN list : i < j => Rank[cookie'[list[i]].src] < Rank[cookie'[list[j]].src]

\* The last process of a scan serves the cookies of all, in this order.
LEMMA SortedIs ==
  ASSUME CollInv, NEW p \in Procs, Enters(p), NEW c \in Cookies, Created(p, {c}),
         NEW box \in Seq(Cookies), IsInjective(box), ToSet(box) = ToSet(Box(p)) \cup {c}
  PROVE  /\ InOrderOfRank(box, cookie') \in Seq(Cookies)
         /\ IsInjective(InOrderOfRank(box, cookie'))
         /\ ToSet(InOrderOfRank(box, cookie')) = ToSet(box)
         /\ Len(InOrderOfRank(box, cookie')) = Len(box)
         /\ RanksRise(InOrderOfRank(box, cookie'))
<1>0. PICK turn \in Turns : turn = Turn(p)
  BY JoinedIs
<1>1. /\ TypeOK /\ RingInv /\ Box(p) = slots[turn].box /\ ToSet(box) \subseteq Cookies
      /\ ticket[p] \in Nat
  BY <1>0, JoinedIs, MembersAre DEF CollInv, Slot
<1> DEFINE key == [b \in Cookies |-> Rank[cookie'[b].src]]
           Sorted(r) == \A i, j \in DOMAIN box : i < j => Rank[cookie'[r[i]].src] < Rank[cookie'[r[j]].src]
<1>2. cookie'[c].src = p
  BY DEF Created
<1>3. \A b \in ToSet(Box(p)) :
        /\ b \in Cookies /\ cookie[b].src \in Procs /\ cookie[b].src # p
        /\ b # c => cookie'[b].src = cookie[b].src
  <2> TAKE b \in ToSet(Box(p))
  <2>1. b \in Cookies /\ Known(b) /\ ticket[cookie[b].src] > ticket[p]
    BY InBoxKnown
  <2>2. cookie[b].src # p
    BY <1>1, <2>1
  <2> QED  BY <2>1, <2>2 DEF Known, Created
<1>4. \A b \in ToSet(box) : cookie'[b].src \in Procs
  BY <1>2, <1>3
<1>5. ASSUME NEW a \in ToSet(box), NEW b \in ToSet(box), cookie'[a].src = cookie'[b].src
      PROVE  a = b
  <2>1. CASE a = c \/ b = c
    BY <1>2, <1>3, <1>5, <2>1
  <2>2. CASE a # c /\ b # c
    BY <1>1, <1>3, <1>5, <2>2 DEF RingInv
  <2> QED  BY <2>1, <2>2
<1>6. \A a \in ToSet(box) : key[a] \in Int
  BY <1>1, <1>4, RankAssumption, ConstantTypes
<1>7. \A a, b \in ToSet(box) : key[a] = key[b] => a = b
  BY <1>1, <1>4, <1>5, RankAssumption
<1>8. ASSUME NEW r \in [DOMAIN box -> ToSet(box)]
      PROVE  InOrderOf(key, r) <=> Sorted(r)
  <2>1. DOMAIN r = DOMAIN box /\ \A i \in DOMAIN box : r[i] \in Cookies
    BY <1>1
  <2>2. \A i \in DOMAIN box : key[r[i]] = Rank[cookie'[r[i]].src]
    BY <2>1
  <2> HIDE DEF key
  <2> QED  BY <2>1, <2>2 DEF InOrderOf
<1> HIDE DEF key, Sorted
<1>9. \E r \in [DOMAIN box -> ToSet(box)] : Sorted(r)
  BY <1>6, <1>7, <1>8, Sortable
<1>10. InOrderOfRank(box, cookie') = CHOOSE r \in [DOMAIN box -> ToSet(box)] : Sorted(r)
  BY DEF InOrderOfRank, Sorted
<1>11. PICK r \in [DOMAIN box -> ToSet(box)] : r = InOrderOfRank(box, cookie') /\ Sorted(r)
  BY <1>9, <1>10
<1>12. InOrderOf(key, r)
  BY <1>8, <1>11
<1>13. r \in Seq(Cookies) /\ IsInjective(r) /\ ToSet(r) = ToSet(box) /\ Len(r) = Len(box)
  BY <1>6, <1>12, SortedMembers
<1>14. RanksRise(r)
  <2>1. DOMAIN r = DOMAIN box
    BY <1>11
  <2> QED  BY <1>4, <1>11, <1>13, <2>1 DEF RanksRise, Sorted
<1> QED  BY <1>11, <1>13, <1>14

\* The process that comes last serves the others and its own cookie.
LEMMA ScanExact ==
  ASSUME CollInv, BusyInv, NEW p \in Procs, Enters(p), IsScan(p), NEW c \in Cookies,
         Creates(p, c, ServedFor(Op(p), p), busy), ServedFor(Op(p), p) \in Int,
         Holds(p, ticket[p], c), program' = program, pc'[p] # "join",
         NEW rest \in Seq(Cookies), ToSet(rest) = ToSet(Box(p)) \cup {c}
  PROVE  Exact(p, {c}, <<>>, rest)
<1>1. /\ \A b \in Cookies : cookie'[b].err = MPI_SUCCESS
      /\ busy'[c] = ServedFor(Op(p), p) /\ cookie'[c].src = p
      /\ \A b \in Cookies : b # c => busy'[b] = busy[b] /\ cookie'[b].src = cookie[b].src
  <2>1. busy \in [Cookies -> Int]
    BY DEF CollInv, TypeOK
  <2> QED  BY <2>1, CreatesBusy
<1>2. Op(p).kind \in Scans /\ Op(p).kind \notin Rooted /\ Op(p).kind # "allreduce" /\ ~IsLeaf(p)
  BY DEF IsScan, Scans, Rooted, IsLeaf
<1>3. ToSet(Box(p)) \subseteq Cookies
  BY JoinedIs, MembersAre
<1>4. \A b \in ToSet(Box(p)) : busy[b] = ServedFor(Op(p), cookie[b].src)
  BY <1>2, BoxExact, WaitsForIs
<1>5. \A b \in ToSet(rest) : busy'[b] = ServedFor(Op(p), cookie'[b].src)
  BY <1>1, <1>3, <1>4
<1>6. reqs'[p][ticket[p]] = c
  <2>1. TypeOK /\ ticket[p] \in Calls
    BY JoinedIs DEF CollInv
  <2> QED  BY <2>1, HoldsIs
<1> QED  BY <1>1, <1>2, <1>5, <1>6, EmptyList DEF Exact

LEMMA ScanPostsKeeps ==
  ASSUME CollInv, NEW p \in Procs, ScanPosts(p)
  PROVE  Keeps(p)
<1> DEFINE num == IF Rank[p] = 0 THEN 1 ELSE 2
<1>1. Enters(p) /\ Contributes(p) /\ UNCHANGED <<program, pending, seen, exited, lost>>
  BY DEF ScanPosts
<1>2. PICK c \in Cookies :
        /\ Creates(p, c, num, busy) /\ Holds(p, ticket[p], c)
        /\ TakesTurn(p, IF ComesLast(p) THEN <<>> ELSE Append(Box(p), c), FALSE)
        /\ IF ComesLast(p) THEN Serves(p, ticket[p], InOrderOfRank(Append(Box(p), c), cookie'))
                           ELSE UNCHANGED <<pc, call, at, todo>>
  BY DEF ScanPosts
<1>3. /\ TypeOK /\ busy \in [Cookies -> Int] /\ num \in Int /\ ticket[p] \in Calls /\ ticket[p] \in Nat
      /\ Box(p) \in Seq(Cookies) /\ IsInjective(Box(p)) /\ Turn(p) \in Turns /\ Box(p) = slots[Turn(p)].box
  <2>1. TypeOK /\ busy \in [Cookies -> Int] /\ num \in Int
    BY DEF CollInv, TypeOK
  <2> QED  BY <1>1, <2>1, JoinedIs
<1>4. /\ Created(p, {c}) /\ Fresh(p, c)
      /\ free' = [free EXCEPT ![p] = @ \ {c}] /\ used' = [used EXCEPT ![c] = 1]
      /\ cookie' \in [Cookies -> CookieRecords] /\ used' \in [Cookies -> Int] /\ busy' \in [Cookies -> Int]
  <2> HIDE DEF num
  <2> QED  BY <1>1, <1>2, <1>3, CreatesIs
<1>5. c \notin ToSet(Box(p))
  <2>1. Fresh(p, c) /\ Turn(p) \in Turns /\ Box(p) = slots[Turn(p)].box
    BY <1>3, <1>4
  <2> QED  BY <2>1, ContentsAre, PlaceTypes DEF Fresh
<1>6. PICK box \in Seq(Cookies) :
        box = Append(Box(p), c) /\ IsInjective(box) /\ ToSet(box) = ToSet(Box(p)) \cup {c}
  <2>1. /\ Append(Box(p), c) \in Seq(Cookies) /\ IsInjective(Append(Box(p), c))
        /\ ToSet(Append(Box(p), c)) = ToSet(Box(p)) \cup {c}
    BY <1>3, <1>5, AppendMembers
  <2> QED  BY <2>1
<1>7. buf' \in [Procs -> [Calls -> Data]]
  BY <1>1, <1>3, ContributesIs
<1>8. CASE ~ComesLast(p)
  <2>1. TurnTaken(p, Append(Box(p), c), FALSE)
    BY <1>1, <1>2, <1>6, <1>8, TurnTakenBy
  <2>2. UNCHANGED <<program, pending, calls, exited, lost>>
    BY <1>1, <1>2, <1>8 DEF calls
  <2>3. ASSUME AllWell  PROVE Exact(p, {c}, Append(Box(p), c), <<>>)
    <3>1. /\ BusyInv /\ Op(p).kind \in Scans /\ Op(p).kind \notin Rooted /\ Op(p).kind # "allreduce"
          /\ program' = program /\ num = ServedFor(Op(p), p)
      BY <1>1, <2>3 DEF AllWell, ScanPosts, IsScan, Scans, Rooted, ServedFor
    <3>2. pc'[p] # "join"
      BY <1>1, <2>2, StaysIdle
    <3>3. PICK post : post = Append(Box(p), c)
      OBVIOUS
    <3> HIDE DEF num
    <3>4. num = WaitsFor(Op(p), post, JoinedBy(p), c, p, 0)
      BY <3>1, WaitsForIs
    <3>5. \A b \in ToSet(Box(p)) :
            busy[b] = WaitsFor(Op(p), post, JoinedBy(p), b, cookie[b].src, Cardinality(Movers(b)))
      BY <1>1, <3>1, BoxExact, WaitsForIs
    <3> QED  BY <1>1, <1>2, <1>3, <3>1, <3>2, <3>3, <3>4, <3>5, PostExact
  <2> HIDE DEF num
  <2> QED  BY <1>1, <1>2, <1>3, <1>7, <2>1, <2>2, <2>3, PostKeeps
<1>9. CASE ComesLast(p)
  <2>1. TurnTaken(p, <<>>, FALSE)
    BY <1>1, <1>2, <1>9, EmptyList, TurnTakenBy
  <2>2. PICK rest \in Seq(Cookies) :
          rest = InOrderOfRank(box, cookie') /\ IsInjective(rest) /\ ToSet(rest) = ToSet(box)
    BY <1>1, <1>4, <1>6, SortedIs
  <2>3. Serves(p, ticket[p], rest)
    BY <1>2, <1>6, <1>9, <2>2
  <2>4. /\ todo' = [todo EXCEPT ![p] = rest]
        /\ pc' \in [Procs -> {"idle", "join", "serve", "deliver", "scan", "wait", "leave"}]
        /\ call' \in [Procs -> Nat] /\ at' \in [Procs -> Cookies \cup {NoCookie}]
        /\ \A q \in Procs : q # p => pc'[q] = pc[q] /\ call'[q] = call[q] /\ at'[q] = at[q]
        /\ at'[p] = NoCookie
        /\ \/ pc'[p] = "idle" /\ rest = <<>>
           \/ pc'[p] = "serve" /\ call'[p] = ticket[p] /\ rest # <<>>
    BY <1>3, <2>3, ServesIs
  <2>5. Entered(p, {c}, <<>>, FALSE, rest)
    BY <1>1, <1>4, <1>6, <1>9, <2>1, <2>2, <2>4, EmptyList DEF Entered
  <2>6. WentOn(p, {c}, FALSE, rest)
    BY <1>2, <1>3, <2>4, HoldsIs DEF WentOn
  <2>7. RestTyped
    BY <1>1, <1>3, <1>4, <1>7, <2>4 DEF RestTyped, TypeOK
  <2>8. Counts(p, {c})
    BY <1>1, <1>2, <1>4 DEF Counts
  <2>9. ASSUME AllWell  PROVE Exact(p, {c}, <<>>, rest)
    <3>1. BusyInv /\ IsScan(p) /\ program' = program /\ num = ServedFor(Op(p), p) /\ pc'[p] # "join"
      BY <1>1, <2>4, <2>9 DEF AllWell, ScanPosts, IsScan, ServedFor
    <3>2. Creates(p, c, ServedFor(Op(p), p), busy) /\ ServedFor(Op(p), p) \in Int
      BY <1>2, <1>3, <3>1
    <3>3. ToSet(rest) = ToSet(Box(p)) \cup {c}
      BY <1>6, <2>2
    <3> HIDE DEF num
    <3> QED  BY <1>1, <1>2, <3>1, <3>2, <3>3, ScanExact
  <2> QED  BY <1>1, <1>4, <2>5, <2>6, <2>7, <2>8, <2>9, EnteredKeeps
<1> QED  BY <1>8, <1>9

LEMMA ScanRejectsKeeps ==
  ASSUME CollInv, NEW p \in Procs, ScanRejects(p)
  PROVE  Keeps(p)
<1>1. Enters(p) /\ ComesFirst(p) /\ TakesTurn(p, <<>>, TRUE)
  BY DEF ScanRejects
<1>2. UNCHANGED <<program, lists, cookies, calls, reqs, exited, buf, lost>>
  BY DEF ScanRejects
<1>3. TypeOK /\ Box(p) = <<>>
  BY <1>1, JoinedIs DEF CollInv
<1>4. TurnTaken(p, Box(p), TRUE)
  BY <1>1, <1>3, EmptyList, TurnTakenBy
<1>5. /\ todo' = [todo EXCEPT ![p] = <<>>]
      /\ pc' = pc /\ call' = call /\ at' = at /\ seen' = seen
      /\ pc'[p] = "idle" /\ at'[p] = NoCookie
  <2>1. UNCHANGED calls
    BY <1>2
  <2> QED  BY <1>1, <2>1, StaysIdle
<1>6. /\ program' = program /\ exited' = exited /\ lost' = lost /\ buf' = buf /\ reqs' = reqs
      /\ cookie' = cookie /\ used' = used /\ busy' = busy /\ UNCHANGED lists
  BY <1>2 DEF cookies
<1>7. Created(p, {})
  BY <1>6, NothingCreated
<1>8. WentOn(p, {}, TRUE, <<>>)
  BY <1>3, <1>5, <1>6 DEF WentOn, TypeOK
<1>9. RestTyped
  BY <1>3, <1>5, <1>6 DEF RestTyped, TypeOK
<1>10. ~AllWell
  BY DEF AllWell, ScanRejects
<1> QED  BY <1>1, <1>4, <1>5, <1>6, <1>7, <1>8, <1>9, <1>10, PassKeeps

LEMMA StaysKeeps ==
  ASSUME CollInv, exited' \in BOOLEAN,
         UNCHANGED <<program, slots, lists, cookies, ticket, calls, reqs, buf, lost>>
  PROVE  CollInv'
<1>1. /\ program' = program /\ slots' = slots /\ ticket' = ticket /\ reqs' = reqs
      /\ buf' = buf /\ lost' = lost /\ pending' = pending /\ free' = free
      /\ cookie' = cookie /\ used' = used /\ busy' = busy
      /\ pc' = pc /\ call' = call /\ at' = at /\ seen' = seen /\ todo' = todo
  BY DEF lists, cookies, calls
<1>2. TypeOK'
  BY <1>1 DEF CollInv, TypeOK
<1>3. \A x : Contents(x)' = Contents(x)
  BY <1>1 DEF Contents
<1>4. PlacedOnce'
  BY <1>1, <1>3 DEF CollInv, PlacedOnce
<1>5. \A c : Known(c)' <=> Known(c)
  BY <1>1 DEF Known
<1>6. KnownInv'
  <2>1. \A q : Known(at[q])' <=> Known(at[q])
    BY <1>1 DEF Known
  <2>2. \A q, t : Known(reqs[q][t])' <=> Known(reqs[q][t])
    BY <1>1 DEF Known
  <2> QED  BY <1>1, <1>3, <1>5, <2>1, <2>2 DEF CollInv, KnownInv
<1>7. CallInv' /\ JoinInv'
  BY <1>1 DEF CollInv, CallInv, JoinInv
<1>8. RingInv'
  BY <1>1 DEF CollInv, RingInv, SlotMatchesCall
<1> QED  BY <1>2, <1>4, <1>6, <1>7, <1>8 DEF CollInv

LEMMA ExitsKeeps ==
  ASSUME CollInv, NEW p \in Procs, Exits(p)
  PROVE  CollInv'
BY StaysKeeps DEF Exits

-----------------------------------------------------------------------------
(* The steps after a call                                                  *)

\* Cookies in M go from one list to another; none gets into a list otherwise.
Transfer(x0, y0, M) ==
  /\ x0 # y0 /\ M \subseteq Contents(x0)
  /\ Contents(x0)' \subseteq Contents(x0) \ M
  /\ Contents(y0)' \subseteq Contents(y0) \cup M
  /\ \A x \in Places : x # x0 /\ x # y0 => Contents(x)' \subseteq Contents(x)

LEMMA TransferPlaces ==
  ASSUME PlacedOnce, NEW x0 \in Places, NEW y0 \in Places, NEW M, Transfer(x0, y0, M)
  PROVE  /\ \A x, y \in Places : x # y => Contents(x)' \cap Contents(y)' = {}
         /\ \A x \in Places : \A c \in Contents(x)' : \E y \in Places : c \in Contents(y)
<1>1. ASSUME NEW x \in Places, NEW c \in Contents(x)'
      PROVE  (c \in Contents(x) /\ ~(x = x0 /\ c \in M)) \/ (x = y0 /\ c \in M /\ c \in Contents(x0))
  BY <1>1 DEF Transfer
<1>2. ASSUME NEW x \in Places, NEW y \in Places, x # y, NEW c \in Contents(x)', c \in Contents(y)'
      PROVE  FALSE
  <2>1. \A u, v \in Places : c \in Contents(u) /\ c \in Contents(v) => u = v
    BY DEF PlacedOnce
  <2>2. x0 # y0 /\ (c \in M => c \in Contents(x0))
    BY DEF Transfer
  <2> QED  BY <1>1, <1>2, <2>1, <2>2
<1> QED  BY <1>1, <1>2

\* The ring of slots is as it was, and the cookies are for the same calls.
Quiet ==
  /\ DOMAIN slots' = Turns /\ ticket' = ticket
  /\ \A s \in Turns :
       /\ slots'[s].ticket = slots[s].ticket /\ slots'[s].joined = slots[s].joined
       /\ slots'[s].box = slots[s].box /\ slots'[s].locked = slots[s].locked
  /\ \A c \in Cookies :
       cookie'[c].owner = cookie[c].owner /\ cookie'[c].src = cookie[c].src /\ cookie'[c].call = cookie[c].call

\* p is the process that moves, and its local variables hold what they should.
Moves(p) ==
  /\ \A q \in Procs : q # p =>
       /\ pc'[q] = pc[q] /\ call'[q] = call[q] /\ at'[q] = at[q]
       /\ todo'[q] = todo[q] /\ reqs'[q] = reqs[q]
  /\ \A t \in Calls :
       \/ reqs'[p][t] = reqs[p][t] \/ reqs'[p][t] = NoCookie
       \/ t < ticket[p] /\ reqs'[p][t] = at'[p]
  /\ pc'[p] # "join" /\ IsInjective(todo'[p])
  /\ at'[p] # NoCookie => at'[p] \in Cookies /\ Known(at'[p])
  /\ pc'[p] # "idle" => call'[p] \in Calls /\ call'[p] < ticket[p]
  /\ pc'[p] \notin {"serve", "deliver", "scan"} => todo'[p] = <<>>
  /\ pc'[p] = "serve" => todo'[p] # <<>>
  /\ pc'[p] \in {"idle", "serve"} => at'[p] = NoCookie
  /\ pc'[p] \in {"deliver", "scan", "wait", "leave"} => at'[p] \in Cookies
  /\ pc'[p] \in {"wait", "leave"} => reqs'[p][call'[p]] = at'[p]

LEMMA QuietRing ==
  ASSUME CollInv, Quiet
  PROVE  RingInv'
<1>1. TypeOK /\ RingInv
  BY DEF CollInv
<1>2. \A t : Made(t)' = Made(t)
  BY DEF Quiet, Made
<1>3. \A s \in Turns : \A c \in ToSet(slots[s].box) :
        c \in Cookies /\ cookie'[c].src = cookie[c].src /\ cookie'[c].call = cookie[c].call
  BY <1>1, SlotTypes DEF Quiet
<1>4. SlotMatchesCall'
  <2>1. \A s \in Turns : Matches(s)
    BY <1>1, MatchesAre, SlotTypes DEF RingInv
  <2>2. ASSUME NEW s \in Turns  PROVE  Matches(s)'
    <3>1. Made(slots[s].ticket)' = Made(slots[s].ticket)
      <4>1. PICK t : t = slots[s].ticket
        OBVIOUS
      <4>2. slots'[s].ticket = t
        BY <4>1 DEF Quiet
      <4> QED  BY <1>2, <4>1, <4>2 DEF Made
    <3> QED  BY <1>3, <2>1, <3>1 DEF Matches, Quiet
  <2>3. DOMAIN slots' = Turns
    BY DEF Quiet
  <2> QED  BY <2>2, <2>3, MatchesBecome
<1>5. \A s \in Turns : \A c \in ToSet(slots'[s].box) : ticket'[cookie'[c].src] > slots'[s].ticket
  BY <1>1, <1>3 DEF RingInv, Quiet
<1>6. \A s \in Turns : \A c, d \in ToSet(slots'[s].box) : cookie'[c].src = cookie'[d].src => c = d
  BY <1>1, <1>3 DEF RingInv, Quiet
<1>7. \A s \in Turns : slots'[s].box # <<>> => slots'[s].ticket % NSlots = s
  BY <1>1 DEF RingInv, Quiet
<1>8. \A t \in Calls : t % NSlots \in Turns
  BY CallsAre, TurnOf
<1>9. \A t \in Calls : \A p, q \in Procs : ticket'[p] <= t /\ t < ticket'[q] =>
        slots'[t % NSlots].ticket = t /\ (slots'[t % NSlots].box # <<>> \/ slots'[t % NSlots].locked)
  BY <1>1, <1>8 DEF RingInv, Quiet
<1> QED  BY <1>4, <1>5, <1>6, <1>7, <1>9 DEF RingInv

\* The members of the lists, and what the processes hold, are cookies.
LEMMA HeldAreCookies ==
  ASSUME TypeOK
  PROVE  /\ \A x \in Places : Contents(x) \subseteq Cookies
         /\ \A q \in Procs : at[q] # NoCookie => at[q] \in Cookies
         /\ \A q \in Procs, t \in Calls : reqs[q][t] # NoCookie => reqs[q][t] \in Cookies
<1>1. \A q \in Procs : pending[q] \subseteq Cookies /\ free[q] \subseteq Cookies /\ ToSet(todo[q]) \subseteq Cookies
  BY MembersAre DEF TypeOK
<1>2. \A s \in Turns : ToSet(slots[s].box) \subseteq Cookies
  BY SlotTypes
<1>3. \A x \in Places : Contents(x) \subseteq Cookies
  BY <1>1, <1>2, PlaceTypes, ContentsAre
<1>4. \A q \in Procs : at[q] # NoCookie => at[q] \in Cookies
  BY DEF TypeOK
<1>5. \A q \in Procs, t \in Calls : reqs[q][t] # NoCookie => reqs[q][t] \in Cookies
  BY DEF TypeOK
<1> QED  BY <1>3, <1>4, <1>5

LEMMA MovesKnown ==
  ASSUME CollInv, NEW p \in Procs, Moves(p),
         \A c \in Cookies :
           cookie'[c].owner = cookie[c].owner /\ cookie'[c].src = cookie[c].src /\ cookie'[c].call = cookie[c].call,
         \A x \in Places : \A c \in Contents(x)' : \E y \in Places : c \in Contents(y)
  PROVE  KnownInv'
<1>1. TypeOK /\ KnownInv
  BY DEF CollInv
<1>2. ASSUME NEW c \in Cookies, Known(c)  PROVE  Known(c)'
  BY <1>2 DEF Known
<1>3. ASSUME NEW q \in Procs, at'[q] # NoCookie  PROVE  Known(at[q])'
  <2>1. at'[q] \in Cookies /\ Known(at'[q])
    <3>1. CASE q = p
      BY <1>3, <3>1 DEF Moves
    <3>2. CASE q # p
      <4>1. at'[q] = at[q]
        BY <3>2 DEF Moves
      <4> QED  BY <1>1, <1>3, <4>1, HeldAreCookies DEF KnownInv
    <3> QED  BY <3>1, <3>2
  <2>2. PICK c \in Cookies : c = at'[q] /\ Known(c)
    BY <2>1
  <2>3. Known(c)'
    BY <1>2, <2>2
  <2> QED  BY <2>2, <2>3 DEF Known
<1>4. ASSUME NEW q \in Procs, NEW t \in Calls, reqs'[q][t] # NoCookie  PROVE  Known(reqs[q][t])'
  <2>1. reqs'[q][t] = reqs[q][t] \/ (q = p /\ reqs'[q][t] = at'[p])
    BY <1>4 DEF Moves
  <2>2. reqs'[q][t] \in Cookies /\ Known(reqs'[q][t])
    <3>1. CASE reqs'[q][t] = reqs[q][t]
      BY <1>1, <1>4, <3>1, HeldAreCookies DEF KnownInv
    <3>2. CASE q = p /\ reqs'[q][t] = at'[p]
      BY <1>4, <3>2 DEF Moves
    <3> QED  BY <2>1, <3>1, <3>2
  <2>3. PICK c \in Cookies : c = reqs'[q][t] /\ Known(c)
    BY <2>2
  <2>4. Known(c)'
    BY <1>2, <2>3
  <2> QED  BY <2>3, <2>4 DEF Known
<1>5. ASSUME NEW x \in Places, NEW c \in Contents(x)'  PROVE  Known(c)'
  <2>1. c \in Cookies /\ Known(c)
    BY <1>1, <1>5, HeldAreCookies DEF KnownInv
  <2> QED  BY <1>2, <2>1
<1> QED  BY <1>3, <1>4, <1>5 DEF KnownInv

LEMMA MovesCalls ==
  ASSUME CollInv, NEW p \in Procs, Moves(p), ticket' = ticket
  PROVE  CallInv'
<1>1. CallInv
  BY DEF CollInv
<1>2. ASSUME NEW t \in Calls, reqs'[p][t] # NoCookie  PROVE  t < ticket'[p]
  BY <1>1, <1>2 DEF CallInv, Moves
<1> QED  BY <1>1, <1>2 DEF CallInv, Moves

\* The invariant after a step of a process that neither calls nor joins.
LEMMA QuietKeeps ==
  ASSUME CollInv, NEW p \in Procs, Quiet, Moves(p), TypeOK',
         NEW x0 \in Places, NEW y0 \in Places, NEW M, Transfer(x0, y0, M)
  PROVE  CollInv'
<1>1. TypeOK /\ CallInv /\ JoinInv /\ PlacedOnce
  BY DEF CollInv
<1>2. /\ \A x, y \in Places : x # y => Contents(x)' \cap Contents(y)' = {}
      /\ \A x \in Places : \A c \in Contents(x)' : \E y \in Places : c \in Contents(y)
  BY <1>1, TransferPlaces
<1>3. PlacedOnce'
  <2>1. \A q \in Procs : IsInjective(todo'[q])
    BY <1>1 DEF Moves, PlacedOnce
  <2>2. \A s \in Turns : IsInjective(slots'[s].box)
    BY <1>1 DEF Quiet, PlacedOnce
  <2> QED  BY <1>2, <2>1, <2>2 DEF PlacedOnce
<1>4. KnownInv'
  <2>1. \A c \in Cookies :
          cookie'[c].owner = cookie[c].owner /\ cookie'[c].src = cookie[c].src /\ cookie'[c].call = cookie[c].call
    BY DEF Quiet
  <2> QED  BY <1>2, <2>1, MovesKnown
<1>5. RingInv'
  BY QuietRing
<1>6. CallInv'
  BY MovesCalls DEF Quiet
<1>7. JoinInv'
  <2>1. \A q \in Procs : pc'[q] = "join" =>
          q # p /\ pc[q] = "join" /\ call'[q] = call[q] /\ at'[q] = at[q] /\ call[q] % NSlots \in Turns
    <3>1. \A q \in Procs : pc[q] = "join" => call[q] % NSlots \in Turns
      BY <1>1, CallsAre, TurnOf DEF CallInv
    <3> QED  BY <3>1 DEF Moves
  <2> QED  BY <1>1, <2>1 DEF JoinInv, Quiet
<1> QED  BY <1>3, <1>4, <1>5, <1>6, <1>7 DEF CollInv

LEMMA QuietIs ==
  ASSUME TypeOK, UNCHANGED <<slots, cookie, ticket>>
  PROVE  Quiet
<1>1. DOMAIN slots = Turns
  BY DEF TypeOK, Turns
<1> QED  BY <1>1 DEF Quiet

\* The cookies p still has to serve stay where they are.
LEMMA NothingMoves ==
  ASSUME CollInv, NEW p \in Procs, UNCHANGED lists,
         \A s \in Turns : slots'[s].box = slots[s].box,
         \A q \in Procs : q # p => todo'[q] = todo[q],
         todo'[p] = todo[p] \/ todo'[p] = <<>>
  PROVE  Transfer(<<"todo", p>>, <<"free", p>>, {}) /\ IsInjective(todo'[p])
<1>1. pending' = pending /\ free' = free
  BY DEF lists
<1>2. \A q \in Procs : ToSet(todo'[q]) \subseteq ToSet(todo[q])
  BY EmptyList
<1>3. ASSUME NEW x \in Places  PROVE  Contents(x)' \subseteq Contents(x)
  BY <1>1, <1>2, PlaceTypes, ContentsAre, ContentsBecome
<1>4. <<"todo", p>> \in Places /\ <<"free", p>> \in Places
  BY PlaceTypes
<1>5. IsInjective(todo'[p])
  BY EmptyList DEF CollInv, PlacedOnce
<1> QED  BY <1>3, <1>4, <1>5 DEF Transfer

\* p goes on to the next cookie, or returns.
LEMMA ServesMoves ==
  ASSUME CollInv, NEW p \in Procs, pc[p] \in {"deliver", "scan"},
         \/ Serves(p, call[p], todo[p])
         \/ Returns(p),
         UNCHANGED lists, reqs' = reqs \/ Holds(p, call[p], NoCookie),
         \A s \in Turns : slots'[s].box = slots[s].box
  PROVE  /\ Moves(p) /\ Transfer(<<"todo", p>>, <<"free", p>>, {})
         /\ pc' \in [Procs -> {"idle", "join", "serve", "deliver", "scan", "wait", "leave"}]
         /\ call' \in [Procs -> Nat] /\ at' \in [Procs -> Cookies \cup {NoCookie}]
         /\ todo' \in [Procs -> Seq(Cookies)]
         /\ reqs' \in [Procs -> [Calls -> Cookies \cup {NoCookie}]]
<1>1. TypeOK /\ call[p] \in Calls /\ call[p] \in Nat /\ call[p] < ticket[p]
  BY WorksOn
<1>2. PICK rest \in Seq(Cookies) :
        Serves(p, call[p], rest) /\ (rest = todo[p] \/ rest = <<>>)
  <2>1. todo[p] \in Seq(Cookies) /\ <<>> \in Seq(Cookies)
    BY <1>1, EmptyList DEF TypeOK
  <2>2. Returns(p) => Serves(p, call[p], <<>>)
    BY DEF Serves
  <2> QED  BY <2>1, <2>2
<1>3. /\ todo' = [todo EXCEPT ![p] = rest]
      /\ pc' \in [Procs -> {"idle", "join", "serve", "deliver", "scan", "wait", "leave"}]
      /\ call' \in [Procs -> Nat] /\ at' \in [Procs -> Cookies \cup {NoCookie}]
      /\ \A q \in Procs : q # p => pc'[q] = pc[q] /\ call'[q] = call[q] /\ at'[q] = at[q]
      /\ at'[p] = NoCookie
      /\ \/ pc'[p] = "idle" /\ rest = <<>>
         \/ pc'[p] = "serve" /\ call'[p] = call[p] /\ rest # <<>>
  BY <1>1, <1>2, ServesIs
<1>4. /\ todo' \in [Procs -> Seq(Cookies)] /\ todo'[p] = rest
      /\ \A q \in Procs : q # p => todo'[q] = todo[q]
  BY <1>1, <1>3 DEF TypeOK
<1>5. Transfer(<<"todo", p>>, <<"free", p>>, {}) /\ IsInjective(todo'[p])
  BY <1>2, <1>4, NothingMoves
<1>6. /\ reqs' \in [Procs -> [Calls -> Cookies \cup {NoCookie}]]
      /\ \A q \in Procs : q # p => reqs'[q] = reqs[q]
      /\ \A t \in Calls : reqs'[p][t] = reqs[p][t] \/ reqs'[p][t] = NoCookie
  BY <1>1, HoldsIs DEF TypeOK
<1>7. Moves(p)
  BY <1>1, <1>3, <1>4, <1>5, <1>6 DEF Moves
<1> QED  BY <1>3, <1>4, <1>5, <1>6, <1>7

LEMMA ServeKeeps ==
  ASSUME CollInv, NEW p \in Procs, Serve(p)
  PROVE  CollInv' /\ \A b : InUse(b) => InUse(b)'
<1>1. /\ pc[p] = "serve" /\ MovesToPending(Head(todo[p]))
      /\ Goes(p, "deliver", call[p], Head(todo[p]), Tail(todo[p]))
  BY DEF Serve
<1>2. UNCHANGED <<program, slots, free, cookies, ticket, seen, reqs, exited, buf, lost>>
  BY DEF Serve
<1>3. /\ TypeOK /\ todo[p] # <<>> /\ todo[p] \in Seq(Cookies) /\ IsInjective(todo[p])
      /\ call[p] \in Calls /\ call[p] \in Nat /\ call[p] < ticket[p]
  BY <1>1, CallsAre DEF CollInv, CallInv, TypeOK, PlacedOnce
<1>4. PICK c \in Cookies : c = Head(todo[p])
  BY <1>3, TailMembers
<1>5. /\ c \in ToSet(todo[p]) /\ Tail(todo[p]) \in Seq(Cookies) /\ IsInjective(Tail(todo[p]))
      /\ ToSet(todo[p]) = ToSet(Tail(todo[p])) \cup {c} /\ c \notin ToSet(Tail(todo[p]))
  BY <1>3, <1>4, TailMembers
<1>6. Known(c)
  BY <1>5, ContentsAre, PlaceTypes DEF CollInv, KnownInv
<1>7. PICK o \in Procs : o = cookie[c].owner
  BY <1>6 DEF Known
<1>8. pending' = [pending EXCEPT ![o] = @ \cup {c}]
  BY <1>1, <1>4, <1>7 DEF MovesToPending
<1>9. /\ pc' = [pc EXCEPT ![p] = "deliver"] /\ call' = [call EXCEPT ![p] = call[p]]
      /\ at' = [at EXCEPT ![p] = c] /\ todo' = [todo EXCEPT ![p] = Tail(todo[p])]
  BY <1>1, <1>4 DEF Goes
<1>10. TypeOK'
  BY <1>2, <1>3, <1>5, <1>8, <1>9 DEF TypeOK, cookies
<1>11. Quiet
  BY <1>2, <1>3, QuietIs DEF cookies
<1>12. Moves(p)
  <2>1. reqs' = reqs
    BY <1>2
  <2>2. /\ pc'[p] = "deliver" /\ call'[p] = call[p] /\ at'[p] = c /\ todo'[p] = Tail(todo[p])
        /\ \A q \in Procs : q # p => pc'[q] = pc[q] /\ call'[q] = call[q] /\ at'[q] = at[q] /\ todo'[q] = todo[q]
    BY <1>3, <1>9 DEF TypeOK
  <2> QED  BY <1>3, <1>5, <1>6, <2>1, <2>2 DEF Moves
<1>13. <<"todo", p>> \in Places /\ <<"pending", o>> \in Places
  BY PlaceTypes
<1>14. Transfer(<<"todo", p>>, <<"pending", o>>, {c})
  <2>1. /\ pending'[o] = pending[o] \cup {c} /\ \A q \in Procs : q # o => pending'[q] = pending[q]
        /\ free' = free /\ slots' = slots
        /\ todo'[p] = Tail(todo[p]) /\ \A q \in Procs : q # p => todo'[q] = todo[q]
    BY <1>2, <1>3, <1>8, <1>9 DEF TypeOK
  <2>2. Contents(<<"todo", p>>)' \subseteq Contents(<<"todo", p>>) \ {c}
    BY <1>5, <2>1, ContentsAre, ContentsBecome
  <2>3. Contents(<<"pending", o>>)' \subseteq Contents(<<"pending", o>>) \cup {c}
    BY <2>1, ContentsAre, ContentsBecome
  <2>4. ASSUME NEW x \in Places, x # <<"todo", p>>, x # <<"pending", o>>
        PROVE  Contents(x)' \subseteq Contents(x)
    BY <2>1, <2>4, PlaceTypes, ContentsAre, ContentsBecome
  <2> QED  BY <1>5, <2>2, <2>3, <2>4, ContentsAre DEF Transfer
<1>15. ASSUME NEW b, InUse(b)  PROVE  InUse(b)'
  <2>1. PICK x \in Places : x[1] # "free" /\ b \in Contents(x)
    BY <1>15 DEF InUse
  <2>2. /\ pending'[o] = pending[o] \cup {c} /\ \A q \in Procs : pending[q] \subseteq pending'[q]
        /\ slots' = slots /\ todo'[p] = Tail(todo[p])
        /\ \A q \in Procs : q # p => todo'[q] = todo[q]
    BY <1>2, <1>3, <1>8, <1>9 DEF TypeOK
  <2>3. CASE b = c
    <3>1. b \in Contents(<<"pending", o>>)'
      BY <2>2, <2>3, ContentsBecome
    <3> QED  BY <1>13, <3>1 DEF InUse
  <2>4. CASE b # c
    <3>1. \A q \in Procs : b \in ToSet(todo[q]) => b \in ToSet(todo'[q])
      BY <1>5, <2>2, <2>4
    <3>2. CASE \E q \in Procs : x = <<"pending", q>>
      <4>1. b \in Contents(x)'
        BY <2>1, <2>2, <3>2, ContentsAre, ContentsBecome
      <4> QED  BY <2>1, <4>1 DEF InUse
    <3>3. CASE \E q \in Procs : x = <<"todo", q>>
      <4>1. b \in Contents(x)'
        BY <2>1, <3>1, <3>3, ContentsAre, ContentsBecome
      <4> QED  BY <2>1, <4>1 DEF InUse
    <3>4. CASE \E u \in Turns : x = <<"box", u>>
      <4>1. b \in Contents(x)'
        BY <2>1, <2>2, <3>4, ContentsAre, ContentsBecome
      <4> QED  BY <2>1, <4>1 DEF InUse
    <3>5. \A q \in Procs : x # <<"free", q>>
      BY <2>1
    <3> QED  BY <3>2, <3>3, <3>4, <3>5, PlaceTypes
  <2> QED  BY <2>3, <2>4
<1>16. CollInv'
  BY <1>10, <1>11, <1>12, <1>13, <1>14, QuietKeeps
<1> QED  BY <1>15, <1>16

LEMMA MovedType ==
  ASSUME CollInv, NEW p \in Procs, pc[p] \in {"deliver", "scan"}
  PROVE  /\ Moved(p) \in [Procs -> [Calls -> Data]]
         /\ buf[cookie[at[p]].owner][cookie[at[p]].call] \in Data
<1>1. /\ TypeOK /\ call[p] \in Calls
      /\ cookie[at[p]].owner \in Procs /\ cookie[at[p]].call \in Calls
  BY WorksOn
<1>2. PICK o \in Procs, t \in Calls : o = cookie[at[p]].owner /\ t = cookie[at[p]].call
  BY <1>1
<1>3. buf \in [Procs -> [Calls -> Data]] /\ buf[p][call[p]] \in Data /\ buf[o][t] \in Data
  BY <1>1 DEF TypeOK
<1>4. PICK a \in Data, b \in Data : a = buf[p][call[p]] \cup buf[o][t] /\ b = buf[o][t] \cup buf[p][call[p]]
  BY <1>3, DataTypes
<1>5. Moved(p) \in {[buf EXCEPT ![p][call[p]] = a], [buf EXCEPT ![o][t] = buf[p][call[p]]],
                    [buf EXCEPT ![o][t] = b], buf}
  BY <1>2, <1>4 DEF Moved
<1>6. /\ [buf EXCEPT ![p][call[p]] = a] \in [Procs -> [Calls -> Data]]
      /\ [buf EXCEPT ![o][t] = buf[p][call[p]]] \in [Procs -> [Calls -> Data]]
      /\ [buf EXCEPT ![o][t] = b] \in [Procs -> [Calls -> Data]]
  BY <1>1, <1>3
<1> QED  BY <1>2, <1>3, <1>5, <1>6

LEMMA DeliverKeeps ==
  ASSUME CollInv, NEW p \in Procs, Deliver(p)
  PROVE  CollInv'
<1>1. pc[p] = "deliver" /\ Serves(p, call[p], todo[p]) /\ busy' = Notified(at[p]) /\ buf' = Moved(p)
  BY DEF Deliver, Notifies
<1>2. UNCHANGED <<program, slots, lists, cookie, used, ticket, seen, reqs, exited, lost>>
  BY DEF Deliver
<1>3. TypeOK /\ slots' = slots /\ UNCHANGED lists /\ reqs' = reqs
  BY <1>2 DEF CollInv
<1>4. /\ Moves(p) /\ Transfer(<<"todo", p>>, <<"free", p>>, {})
      /\ pc' \in [Procs -> {"idle", "join", "serve", "deliver", "scan", "wait", "leave"}]
      /\ call' \in [Procs -> Nat] /\ at' \in [Procs -> Cookies \cup {NoCookie}]
      /\ todo' \in [Procs -> Seq(Cookies)]
      /\ reqs' \in [Procs -> [Calls -> Cookies \cup {NoCookie}]]
  BY <1>1, <1>3, ServesMoves
<1>5. Quiet
  BY <1>2, <1>3, QuietIs
<1>6. busy' \in [Cookies -> Int]
  BY <1>1, <1>3, NotifiedType
<1>7. buf' \in [Procs -> [Calls -> Data]]
  BY <1>1, MovedType
<1>8. TypeOK'
  BY <1>2, <1>3, <1>4, <1>6, <1>7 DEF TypeOK, lists
<1> QED  BY <1>4, <1>5, <1>8, PlaceTypes, QuietKeeps

LEMMA DeliverFailsKeeps ==
  ASSUME CollInv, NEW p \in Procs, DeliverFails(p)
  PROVE  CollInv'
<1>1. /\ pc[p] \in {"deliver", "scan"} /\ busy' = Notified(at[p])
      /\ cookie' = [cookie EXCEPT ![at[p]].err = MPI_FAIL]
  BY DEF DeliverFails, Notifies
<1>2. UNCHANGED <<program, slots, lists, used, ticket, seen, exited, buf>>
  BY DEF DeliverFails
<1>3. TypeOK /\ slots' = slots /\ UNCHANGED lists /\ DOMAIN slots = Turns
  BY <1>2 DEF CollInv, TypeOK, Turns
<1>4. /\ Serves(p, call[p], todo[p]) \/ Returns(p)
      /\ reqs' = reqs \/ Holds(p, call[p], NoCookie)
      /\ lost' = lost \/ lost' = [lost EXCEPT ![reqs[p][call[p]]] = @ + 1]
  BY DEF DeliverFails, GivesUp
<1>5. /\ Moves(p) /\ Transfer(<<"todo", p>>, <<"free", p>>, {})
      /\ pc' \in [Procs -> {"idle", "join", "serve", "deliver", "scan", "wait", "leave"}]
      /\ call' \in [Procs -> Nat] /\ at' \in [Procs -> Cookies \cup {NoCookie}]
      /\ todo' \in [Procs -> Seq(Cookies)]
      /\ reqs' \in [Procs -> [Calls -> Cookies \cup {NoCookie}]]
  BY <1>1, <1>3, <1>4, ServesMoves
<1>6. /\ cookie' \in [Cookies -> CookieRecords]
      /\ \A b \in Cookies :
           cookie'[b].owner = cookie[b].owner /\ cookie'[b].src = cookie[b].src /\ cookie'[b].call = cookie[b].call
  BY <1>1, <1>3, ErrorNoted
<1>7. Quiet
  BY <1>2, <1>3, <1>6 DEF Quiet
<1>8. busy' \in [Cookies -> Int]
  BY <1>1, <1>3, NotifiedType
<1>9. lost' \in [Cookies -> Nat]
  <2>1. lost \in [Cookies -> Nat]
    BY <1>3 DEF TypeOK
  <2>2. PICK c : c = reqs[p][call[p]]
    OBVIOUS
  <2>3. CASE c \in Cookies
    BY <1>4, <2>1, <2>2, <2>3
  <2>4. CASE c \notin Cookies
    BY <1>4, <2>1, <2>2, <2>4
  <2> QED  BY <2>3, <2>4
<1>10. TypeOK'
  BY <1>2, <1>3, <1>5, <1>6, <1>8, <1>9 DEF TypeOK, lists
<1> QED  BY <1>5, <1>7, <1>10, PlaceTypes, QuietKeeps

\* A slot in which only a sum has changed.
LEMMA SumsQuiet ==
  ASSUME TypeOK, NEW s \in Turns, NEW slot \in SlotRecords,
         slot.ticket = slots[s].ticket, slot.joined = slots[s].joined,
         slot.box = slots[s].box, slot.locked = slots[s].locked,
         slots' = [slots EXCEPT ![s] = slot], UNCHANGED <<cookie, ticket>>
  PROVE  /\ Quiet /\ slots' \in [Turns -> SlotRecords]
         /\ \A u \in Turns : slots'[u].box = slots[u].box
<1>1. slots \in [Turns -> SlotRecords]
  BY DEF TypeOK, Turns
<1> QED  BY <1>1 DEF Quiet

LEMMA ScanReadsKeeps ==
  ASSUME CollInv, NEW p \in Procs, ScanReads(p)
  PROVE  CollInv'
<1> DEFINE data == buf[cookie[at[p]].owner][cookie[at[p]].call]
<1>0. pc[p] = "deliver" /\ busy' = Notified(at[p])
  BY DEF ScanReads, Notifies
<1>1. PICK s \in Turns : s = call[p] % NSlots
  BY <1>0, WorksOn
<1>2. IF Rank[cookie[at[p]].src] = 0
      THEN slots' = [slots EXCEPT ![s].sendbuf = data] /\ Serves(p, call[p], todo[p])
      ELSE slots' = [slots EXCEPT ![s].recvbuf = data] /\ Goes(p, "scan", call[p], at[p], todo[p])
  BY <1>1 DEF ScanReads
<1>3. UNCHANGED <<program, lists, cookie, used, ticket, seen, reqs, exited, buf, lost>>
  BY DEF ScanReads
<1>4. /\ TypeOK /\ data \in Data /\ at[p] \in Cookies /\ Known(at[p])
      /\ call[p] \in Calls /\ call[p] \in Nat /\ call[p] < ticket[p]
  BY <1>0, WorksOn, MovedType
<1> HIDE DEF data
<1>5. UNCHANGED lists /\ reqs' = reqs /\ UNCHANGED <<cookie, ticket>>
  BY <1>3
<1>6. busy' \in [Cookies -> Int]
  BY <1>0, <1>4, NotifiedType
<1>7. slots[s] \in SlotRecords
  BY <1>4, SlotTypes
<1>8. CASE Rank[cookie[at[p]].src] = 0
  <2>1. PICK slot : slot = [slots[s] EXCEPT !.sendbuf = data]
    OBVIOUS
  <2>2. /\ slot \in SlotRecords /\ slot.ticket = slots[s].ticket /\ slot.joined = slots[s].joined
        /\ slot.box = slots[s].box /\ slot.locked = slots[s].locked
    BY <1>4, <1>7, <2>1 DEF SlotRecords
  <2>3. slots' = [slots EXCEPT ![s] = slot] /\ Serves(p, call[p], todo[p])
    BY <1>2, <1>8, <2>1
  <2>4. /\ Quiet /\ slots' \in [Turns -> SlotRecords]
        /\ \A u \in Turns : slots'[u].box = slots[u].box
    BY <1>4, <1>5, <2>2, <2>3, SumsQuiet
  <2>5. /\ Moves(p) /\ Transfer(<<"todo", p>>, <<"free", p>>, {})
        /\ pc' \in [Procs -> {"idle", "join", "serve", "deliver", "scan", "wait", "leave"}]
        /\ call' \in [Procs -> Nat] /\ at' \in [Procs -> Cookies \cup {NoCookie}]
        /\ todo' \in [Procs -> Seq(Cookies)]
        /\ reqs' \in [Procs -> [Calls -> Cookies \cup {NoCookie}]]
    BY <1>0, <1>5, <2>3, <2>4, ServesMoves
  <2>6. TypeOK'
    BY <1>3, <1>4, <1>6, <2>4, <2>5 DEF TypeOK, lists, Turns
  <2> QED  BY <2>4, <2>5, <2>6, PlaceTypes, QuietKeeps
<1>9. CASE Rank[cookie[at[p]].src] # 0
  <2>1. PICK slot : slot = [slots[s] EXCEPT !.recvbuf = data]
    OBVIOUS
  <2>2. /\ slot \in SlotRecords /\ slot.ticket = slots[s].ticket /\ slot.joined = slots[s].joined
        /\ slot.box = slots[s].box /\ slot.locked = slots[s].locked
    BY <1>4, <1>7, <2>1 DEF SlotRecords
  <2>3. slots' = [slots EXCEPT ![s] = slot] /\ Goes(p, "scan", call[p], at[p], todo[p])
    BY <1>2, <1>9, <2>1
  <2>4. /\ Quiet /\ slots' \in [Turns -> SlotRecords]
        /\ \A u \in Turns : slots'[u].box = slots[u].box
    BY <1>4, <1>5, <2>2, <2>3, SumsQuiet
  <2>5. /\ pc' = [pc EXCEPT ![p] = "scan"] /\ call' = [call EXCEPT ![p] = call[p]]
        /\ at' = [at EXCEPT ![p] = at[p]] /\ todo' = [todo EXCEPT ![p] = todo[p]]
    BY <2>3 DEF Goes
  <2>6. /\ pc'[p] = "scan" /\ call'[p] = call[p] /\ at'[p] = at[p] /\ todo'[p] = todo[p]
        /\ \A q \in Procs : q # p => pc'[q] = pc[q] /\ call'[q] = call[q] /\ at'[q] = at[q] /\ todo'[q] = todo[q]
    BY <1>4, <2>5 DEF TypeOK
  <2>7. Transfer(<<"todo", p>>, <<"free", p>>, {}) /\ IsInjective(todo'[p])
    BY <1>5, <2>4, <2>6, NothingMoves
  <2>8. Moves(p)
    BY <1>4, <1>5, <2>6, <2>7 DEF Moves
  <2>9. TypeOK'
    BY <1>3, <1>4, <1>6, <2>4, <2>5 DEF TypeOK, lists, Turns
  <2> QED  BY <2>4, <2>7, <2>8, <2>9, PlaceTypes, QuietKeeps
<1> QED  BY <1>8, <1>9

LEMMA ScanWritesKeeps ==
  ASSUME CollInv, NEW p \in Procs, ScanWrites(p)
  PROVE  CollInv'
<1>0. pc[p] = "scan" /\ busy' = Notified(at[p]) /\ Serves(p, call[p], todo[p])
  BY DEF ScanWrites, Notifies
<1>1. PICK s \in Turns : s = call[p] % NSlots
  BY <1>0, WorksOn
<1> DEFINE with   == Plus(slots[s].sendbuf, slots[s].recvbuf)
           result == Result(program[call[p]].kind, slots[s].sendbuf, with)
           sum    == IF program[call[p]].kind = "exscan" /\ todo[p] = <<>> THEN slots[s].sendbuf ELSE with
<1>2. UNCHANGED <<program, lists, cookie, used, ticket, seen, reqs, exited, lost>>
  BY DEF ScanWrites
<1>3. /\ TypeOK /\ cookie[at[p]].owner \in Procs /\ cookie[at[p]].call \in Calls
  BY <1>0, WorksOn
<1>4. PICK o \in Procs, t \in Calls : o = cookie[at[p]].owner /\ t = cookie[at[p]].call
  BY <1>3
<1>5. slots[s] \in SlotRecords /\ slots[s].sendbuf \in Data /\ slots[s].recvbuf \in Data
  BY <1>3, SlotTypes DEF SlotRecords
<1>6. with \in Data /\ result \in Data /\ sum \in Data
  BY <1>5, DataTypes DEF Result
<1>7. buf' = [buf EXCEPT ![o][t] = result] /\ slots' = [slots EXCEPT ![s].sendbuf = sum]
  BY <1>1, <1>4 DEF ScanWrites
<1> HIDE DEF with, result, sum
<1>8. PICK slot : slot = [slots[s] EXCEPT !.sendbuf = sum]
  OBVIOUS
<1>9. /\ slot \in SlotRecords /\ slot.ticket = slots[s].ticket /\ slot.joined = slots[s].joined
      /\ slot.box = slots[s].box /\ slot.locked = slots[s].locked
  BY <1>5, <1>6, <1>8 DEF SlotRecords
<1>10. slots' = [slots EXCEPT ![s] = slot]
  BY <1>7, <1>8
<1>11. UNCHANGED lists /\ reqs' = reqs /\ UNCHANGED <<cookie, ticket>>
  BY <1>2
<1>12. /\ Quiet /\ slots' \in [Turns -> SlotRecords]
       /\ \A u \in Turns : slots'[u].box = slots[u].box
  BY <1>3, <1>9, <1>10, <1>11, SumsQuiet
<1>13. /\ Moves(p) /\ Transfer(<<"todo", p>>, <<"free", p>>, {})
       /\ pc' \in [Procs -> {"idle", "join", "serve", "deliver", "scan", "wait", "leave"}]
       /\ call' \in [Procs -> Nat] /\ at' \in [Procs -> Cookies \cup {NoCookie}]
       /\ todo' \in [Procs -> Seq(Cookies)]
       /\ reqs' \in [Procs -> [Calls -> Cookies \cup {NoCookie}]]
  BY <1>0, <1>11, <1>12, ServesMoves
<1>14. busy' \in [Cookies -> Int]
  BY <1>0, <1>3, NotifiedType
<1>15. buf' \in [Procs -> [Calls -> Data]]
  <2>1. buf \in [Procs -> [Calls -> Data]]
    BY <1>3 DEF TypeOK
  <2> QED  BY <1>6, <1>7, <2>1
<1>16. TypeOK'
  BY <1>2, <1>3, <1>12, <1>13, <1>14, <1>15 DEF TypeOK, lists, Turns
<1> QED  BY <1>12, <1>13, <1>16, PlaceTypes, QuietKeeps

LEMMA WaitKeeps ==
  ASSUME CollInv, NEW p \in Procs, NEW t \in Calls, Wait(p, t)
  PROVE  CollInv'
<1>1. pc[p] = "idle" /\ reqs[p][t] # NoCookie /\ Goes(p, "wait", t, reqs[p][t], <<>>)
  BY DEF Wait
<1>2. UNCHANGED <<program, slots, lists, cookies, ticket, seen, reqs, exited, buf, lost>>
  BY DEF Wait
<1>3. PICK c \in Cookies : c = reqs[p][t]
  BY <1>1, HeldAreCookies DEF CollInv
<1>4. /\ TypeOK /\ todo[p] = <<>> /\ t < ticket[p] /\ t \in Nat /\ Known(c)
  BY <1>1, <1>3, CallsAre DEF CollInv, CallInv, KnownInv
<1>5. /\ pc' = [pc EXCEPT ![p] = "wait"] /\ call' = [call EXCEPT ![p] = t]
      /\ at' = [at EXCEPT ![p] = c] /\ todo' = [todo EXCEPT ![p] = <<>>]
  BY <1>1, <1>3 DEF Goes
<1>6. /\ pc'[p] = "wait" /\ call'[p] = t /\ at'[p] = c /\ todo'[p] = <<>>
      /\ \A q \in Procs : q # p => pc'[q] = pc[q] /\ call'[q] = call[q] /\ at'[q] = at[q] /\ todo'[q] = todo[q]
  BY <1>4, <1>5 DEF TypeOK
<1>7. UNCHANGED lists /\ UNCHANGED <<slots, cookie, ticket>> /\ reqs' = reqs
  BY <1>2 DEF cookies
<1>8. Quiet
  BY <1>4, <1>7, QuietIs
<1>9. Transfer(<<"todo", p>>, <<"free", p>>, {}) /\ IsInjective(todo'[p])
  BY <1>6, <1>7, NothingMoves
<1>10. Moves(p)
  BY <1>3, <1>4, <1>6, <1>7, <1>9 DEF Moves
<1>11. TypeOK'
  BY <1>2, <1>4, <1>5, EmptyList DEF TypeOK, lists, cookies
<1> QED  BY <1>8, <1>9, <1>10, <1>11, PlaceTypes, QuietKeeps

LEMMA LeavesKeeps ==
  ASSUME CollInv, NEW p \in Procs, Leaves(p)
  PROVE  CollInv'
<1>1. pc[p] = "wait" /\ pc' = [pc EXCEPT ![p] = "leave"] /\ seen' = [seen EXCEPT ![p] = used[at[p]]]
  BY DEF Leaves
<1>2. UNCHANGED <<program, slots, lists, cookies, ticket, call, at, todo, reqs, exited, buf, lost>>
  BY DEF Leaves
<1>3. /\ TypeOK /\ at[p] \in Cookies /\ Known(at[p]) /\ call[p] \in Calls /\ call[p] < ticket[p]
  BY <1>1, WorksOn
<1>4. todo[p] = <<>> /\ reqs[p][call[p]] = at[p]
  BY <1>1 DEF CollInv, CallInv
<1>5. pc'[p] = "leave" /\ \A q \in Procs : q # p => pc'[q] = pc[q]
  BY <1>1, <1>3 DEF TypeOK
<1>6. UNCHANGED lists /\ UNCHANGED <<slots, cookie, ticket>> /\ reqs' = reqs /\ todo' = todo /\ call' = call /\ at' = at
  BY <1>2 DEF cookies
<1>7. Quiet
  BY <1>3, <1>6, QuietIs
<1>8. Transfer(<<"todo", p>>, <<"free", p>>, {}) /\ IsInjective(todo'[p])
  BY <1>6, NothingMoves
<1>9. Moves(p)
  BY <1>3, <1>4, <1>5, <1>6, <1>8 DEF Moves
<1>10. used[at[p]] \in Int
  BY <1>3 DEF TypeOK
<1>11. TypeOK'
  BY <1>1, <1>2, <1>3, <1>10 DEF TypeOK, lists, cookies
<1> QED  BY <1>7, <1>8, <1>9, <1>11, PlaceTypes, QuietKeeps

LEMMA UpdatedType ==
  ASSUME CollInv, NEW p \in Procs, NEW change \in Int, Updated(p, change),
         pc[p] \in {"join", "leave"}
  PROVE  used' \in [Cookies -> Int]
<1>1. TypeOK /\ at[p] \in Cookies
  BY WorksOn
<1>2. PICK now \in Int : now = (IF AtomicCounts THEN used[at[p]] ELSE seen[p]) + change
  <2>1. used[at[p]] \in Int /\ seen[p] \in Int
    BY <1>1 DEF TypeOK
  <2>2. (IF AtomicCounts THEN used[at[p]] ELSE seen[p]) \in Int
    BY <2>1
  <2>3. \A i \in Int : i + change \in Int
    OBVIOUS
  <2> QED  BY <2>2, <2>3
<1>3. used' = [used EXCEPT ![at[p]] = now]
  BY <1>2 DEF Updated
<1> QED  BY <1>1, <1>3 DEF TypeOK

LEMMA LeaveKeeps ==
  ASSUME CollInv, NEW p \in Procs, Leave(p)
  PROVE  CollInv'
<1>1. pc[p] = "leave" /\ Updated(p, -1) /\ Holds(p, call[p], NoCookie) /\ Returns(p)
  BY DEF Leave
<1>2. seen' = [seen EXCEPT ![p] = 0] /\ UNCHANGED <<program, slots, cookie, busy, ticket, exited, buf, lost>>
  BY DEF Leave
<1>3. /\ TypeOK /\ at[p] \in Cookies /\ call[p] \in Calls
  BY <1>1, WorksOn
<1>4. PICK o \in Procs : o = cookie[at[p]].owner
  BY <1>1, WorksOn
<1>5. PICK unused : unused = Unused(o)
  OBVIOUS
<1>6. unused \subseteq pending[o]
  BY <1>5 DEF Unused
<1>7. pending' = [pending EXCEPT ![o] = @ \ unused]
  BY <1>4, <1>5 DEF Leave
<1>8. PICK K : K \subseteq free[o] \cup unused /\ free' = [free EXCEPT ![o] = K]
  BY <1>4, <1>5 DEF Leave
<1>9. -1 \in Int /\ used' \in [Cookies -> Int]
  BY <1>1, UpdatedType
<1>10. /\ reqs' \in [Procs -> [Calls -> Cookies \cup {NoCookie}]]
       /\ \A q \in Procs : q # p => reqs'[q] = reqs[q]
       /\ \A t \in Calls : reqs'[p][t] = reqs[p][t] \/ reqs'[p][t] = NoCookie
  BY SMTT(30), <1>1, <1>3, HoldsIs DEF TypeOK
<1>11. /\ pc' = [pc EXCEPT ![p] = "idle"] /\ call' = [call EXCEPT ![p] = 0]
       /\ at' = [at EXCEPT ![p] = NoCookie] /\ todo' = [todo EXCEPT ![p] = <<>>]
  BY <1>1 DEF Returns, Goes
<1>12. /\ pc'[p] = "idle" /\ at'[p] = NoCookie /\ todo'[p] = <<>> /\ todo[p] = <<>>
       /\ \A q \in Procs : q # p => pc'[q] = pc[q] /\ call'[q] = call[q] /\ at'[q] = at[q] /\ todo'[q] = todo[q]
  BY <1>1, <1>3, <1>11 DEF TypeOK, CollInv, CallInv
<1>13. Moves(p)
  BY <1>10, <1>12, EmptyList DEF Moves
<1>14. Quiet
  BY <1>2, <1>3, QuietIs
<1>15. TypeOK'
  BY <1>2, <1>3, <1>6, <1>7, <1>8, <1>9, <1>10, <1>11, EmptyList DEF TypeOK
<1>16. Transfer(<<"pending", o>>, <<"free", o>>, unused)
  <2>1. /\ pending'[o] = pending[o] \ unused /\ \A q \in Procs : q # o => pending'[q] = pending[q]
        /\ free'[o] = K /\ \A q \in Procs : q # o => free'[q] = free[q]
        /\ slots' = slots /\ \A q \in Procs : ToSet(todo'[q]) = ToSet(todo[q])
    BY <1>2, <1>3, <1>7, <1>8, <1>12 DEF TypeOK
  <2>2. Contents(<<"pending", o>>)' \subseteq Contents(<<"pending", o>>) \ unused
    BY <2>1, ContentsAre, ContentsBecome
  <2>3. Contents(<<"free", o>>)' \subseteq Contents(<<"free", o>>) \cup unused
    BY <1>8, <2>1, ContentsAre, ContentsBecome
  <2>4. ASSUME NEW x \in Places, x # <<"pending", o>>, x # <<"free", o>>
        PROVE  Contents(x)' \subseteq Contents(x)
    BY <2>1, <2>4, PlaceTypes, ContentsAre, ContentsBecome
  <2> QED  BY <1>6, <2>2, <2>3, <2>4, ContentsAre DEF Transfer
<1> QED  BY <1>13, <1>14, <1>15, <1>16, PlaceTypes, QuietKeeps

\* The last process to join takes the root's cookie out of the slot; the others have all
\* made the call, so that nobody looks for the slot any more.
LEMMA JoinStoresKeeps ==
  ASSUME CollInv, NEW p \in Procs, JoinStores(p)
  PROVE  CollInv' /\ \A b : InUse(b) => InUse(b)'
<1>1. pc[p] = "join" /\ Updated(p, 1) /\ Holds(p, call[p], at[p])
  BY DEF JoinStores
<1>2. UNCHANGED <<program, free, cookie, busy, ticket, call, at, todo, exited, buf, lost>>
  BY DEF JoinStores
<1>3. pc' = [pc EXCEPT ![p] = "deliver"] /\ seen' = [seen EXCEPT ![p] = 0]
  BY DEF JoinStores
<1>4. /\ TypeOK /\ at[p] # NoCookie /\ Known(at[p]) /\ call[p] \in Calls /\ call[p] \in Nat /\ call[p] < ticket[p]
      /\ CallInv /\ JoinInv /\ RingInv /\ PlacedOnce
  BY <1>1, WorksOn DEF CollInv
<1>5. PICK s \in Turns : s = call[p] % NSlots
  BY <1>1, WorksOn
<1>6. PICK c \in Cookies : c = at[p]
  BY <1>1, WorksOn
<1>7. PICK o \in Procs : o = cookie[c].owner
  BY <1>1, <1>6, WorksOn
<1>8. PICK box : box = slots[s].box
  OBVIOUS
<1>9. /\ slots[s] \in SlotRecords /\ slots[s].joined \in 0..N /\ box \in Seq(Cookies) /\ IsInjective(box)
      /\ slots \in [Turns -> SlotRecords]
  BY <1>4, <1>8, SlotTypes DEF PlacedOnce, TypeOK, Turns
<1>10. slots[s].locked /\ box # <<>> /\ Head(box) = c /\ slots[s].ticket = call[p]
  BY <1>1, <1>4, <1>5, <1>6, <1>8 DEF JoinInv
<1>11. /\ c \in ToSet(box) /\ Tail(box) \in Seq(Cookies) /\ IsInjective(Tail(box))
       /\ ToSet(box) = ToSet(Tail(box)) \cup {c} /\ c \notin ToSet(Tail(box))
  BY <1>9, <1>10, TailMembers
<1>12. PICK left \in Seq(Cookies) :
         /\ slots' = [slots EXCEPT ![s] = [slots[s] EXCEPT !.box = left, !.locked = FALSE]]
         /\ \/ /\ slots[s].joined = N /\ left = Tail(box)
               /\ pending' = [pending EXCEPT ![o] = @ \cup {c}]
            \/ slots[s].joined # N /\ left = box /\ pending' = pending
  <2>1. CASE slots[s].joined = N
    <3>1. slots' = [slots EXCEPT ![s] = [slots[s] EXCEPT !.box = Tail(box), !.locked = FALSE]]
      BY <1>4, <1>5, <1>8, <1>9, <2>1 DEF JoinStores, Removed
    <3>2. pending' = [pending EXCEPT ![o] = @ \cup {c}]
      BY <1>5, <1>6, <1>7, <2>1 DEF JoinStores, MovesToPending
    <3> QED  BY <1>11, <2>1, <3>1, <3>2
  <2>2. CASE slots[s].joined # N
    <3>1. slots' = [slots EXCEPT ![s] = [slots[s] EXCEPT !.locked = FALSE]] /\ pending' = pending
      BY <1>5, <1>9, <2>2 DEF JoinStores
    <3>2. PICK old \in SlotRecords : old = slots[s]
      BY <1>9
    <3>3. [old EXCEPT !.locked = FALSE] = [old EXCEPT !.box = box, !.locked = FALSE]
      BY <1>8, <3>2 DEF SlotRecords
    <3> QED  BY <1>9, <2>2, <3>1, <3>2, <3>3
  <2> QED  BY <2>1, <2>2
<1>13. PICK slot : slot = [slots[s] EXCEPT !.box = left, !.locked = FALSE]
  OBVIOUS
<1>14. /\ slot \in SlotRecords /\ slot.ticket = slots[s].ticket /\ slot.joined = slots[s].joined
       /\ slot.box = left /\ ~slot.locked
  BY <1>9, <1>13 DEF SlotRecords
<1>15. /\ slots' \in [Turns -> SlotRecords] /\ slots'[s] = slot
       /\ \A u \in Turns : u # s => slots'[u] = slots[u]
  BY <1>9, <1>12, <1>13, <1>14
<1>16. /\ ToSet(left) \subseteq ToSet(box) /\ IsInjective(left)
       /\ \A b \in ToSet(left) : b # c \/ slots[s].joined # N
  BY <1>9, <1>11, <1>12
<1>17. /\ reqs' \in [Procs -> [Calls -> Cookies \cup {NoCookie}]]
       /\ \A q \in Procs : q # p => reqs'[q] = reqs[q]
       /\ \A t \in Calls : reqs'[p][t] = reqs[p][t] \/ (t = call[p] /\ reqs'[p][t] = c)
  <2>1. reqs' = [reqs EXCEPT ![p][call[p]] = c] /\ reqs \in [Procs -> [Calls -> Cookies \cup {NoCookie}]]
    BY <1>1, <1>4, <1>6 DEF Holds, TypeOK
  <2> QED  BY <1>4, <2>1
<1>18. pc'[p] = "deliver" /\ \A q \in Procs : q # p => pc'[q] = pc[q]
  BY <1>3, <1>4 DEF TypeOK
<1>19. Moves(p)
  <2>1. call' = call /\ at' = at /\ todo' = todo
    BY <1>2
  <2>2. \A q \in Procs : IsInjective(todo'[q])
    BY <1>4, <2>1 DEF PlacedOnce
  <2> QED  BY <1>4, <1>6, <1>17, <1>18, <2>1, <2>2 DEF Moves
<1>20. 1 \in Int /\ used' \in [Cookies -> Int]
  BY <1>1, UpdatedType
<1>21. pending' \in [Procs -> SUBSET Cookies]
  <2>1. pending \in [Procs -> SUBSET Cookies]
    BY <1>4 DEF TypeOK
  <2>2. pending[o] \cup {c} \in SUBSET Cookies
    BY <2>1
  <2>3. CASE pending' = [pending EXCEPT ![o] = @ \cup {c}]
    BY <2>1, <2>2, <2>3
  <2> QED  BY <1>12, <2>1, <2>3
<1>22. TypeOK'
  <2>1. pc' \in [Procs -> {"idle", "join", "serve", "deliver", "scan", "wait", "leave"}]
    BY <1>3, <1>4 DEF TypeOK
  <2>2. seen' \in [Procs -> Int]
    BY <1>3, <1>4 DEF TypeOK
  <2> QED  BY <1>2, <1>4, <1>15, <1>17, <1>20, <1>21, <2>1, <2>2 DEF TypeOK, Turns
<1>23. \E M : Transfer(<<"box", s>>, <<"pending", o>>, M)
  <2>1. free' = free /\ todo' = todo
    BY <1>2
  <2>2. ASSUME NEW x \in Places, x # <<"box", s>>, x # <<"pending", o>>
        PROVE  Contents(x)' \subseteq Contents(x)
    <3>1. \A q \in Procs : q # o => pending'[q] = pending[q]
      BY <1>4, <1>12 DEF TypeOK
    <3> QED  BY <1>15, <2>1, <2>2, <3>1, PlaceTypes, ContentsAre, ContentsBecome
  <2>3. /\ Contents(<<"box", s>>) = ToSet(box) /\ Contents(<<"box", s>>)' = ToSet(left)
        /\ Contents(<<"pending", o>>) = pending[o] /\ Contents(<<"pending", o>>)' = pending'[o]
    BY <1>8, <1>14, <1>15, ContentsAre, ContentsBecome
  <2>4. CASE slots[s].joined = N
    <3>1. pending'[o] = pending[o] \cup {c} /\ ToSet(left) = ToSet(box) \ {c}
      BY <1>4, <1>11, <1>12, <2>4 DEF TypeOK
    <3>2. Transfer(<<"box", s>>, <<"pending", o>>, {c})
      BY <1>11, <2>2, <2>3, <3>1 DEF Transfer
    <3> QED  BY <3>2
  <2>5. CASE slots[s].joined # N
    <3>1. Transfer(<<"box", s>>, <<"pending", o>>, {})
      BY <1>12, <2>2, <2>3, <2>5 DEF Transfer
    <3> QED  BY <3>1
  <2> QED  BY <2>4, <2>5
<1>24. /\ \A x, y \in Places : x # y => Contents(x)' \cap Contents(y)' = {}
       /\ \A x \in Places : \A b \in Contents(x)' : \E y \in Places : b \in Contents(y)
  BY <1>4, <1>23, PlaceTypes, TransferPlaces
<1>25. PlacedOnce'
  <2>1. \A u \in Turns : IsInjective(slots'[u].box)
    BY <1>4, <1>14, <1>15, <1>16 DEF PlacedOnce
  <2>2. todo' = todo
    BY <1>2
  <2> QED  BY <1>4, <1>24, <2>1, <2>2 DEF PlacedOnce
<1>26. KnownInv'
  <2>1. cookie' = cookie
    BY <1>2
  <2> QED  BY <1>19, <1>24, <2>1, MovesKnown
<1>27. CallInv'
  BY <1>2, <1>19, MovesCalls
<1>28. JoinInv'
  <2>1. \A q \in Procs : pc'[q] = "join" =>
          q # p /\ pc[q] = "join" /\ call'[q] = call[q] /\ at'[q] = at[q]
    BY <1>2, <1>18
  <2>2. \A q \in Procs : pc'[q] = "join" => call[q] % NSlots \in Turns /\ call[q] % NSlots # s
    <3>1. \A q \in Procs : pc[q] = "join" => call[q] % NSlots \in Turns
      BY WorksOn
    <3> QED  BY <1>1, <1>4, <1>5, <2>1, <3>1 DEF JoinInv
  <2>3. \A q \in Procs : pc'[q] = "join" =>
          LET now == slots'[call'[q] % NSlots] IN
          now.locked /\ now.box # <<>> /\ Head(now.box) = at'[q] /\ now.ticket = call'[q]
    BY <1>4, <1>15, <2>1, <2>2 DEF JoinInv
  <2>4. \A q, r \in Procs :
          pc'[q] = "join" /\ pc'[r] = "join" /\ call'[q] % NSlots = call'[r] % NSlots => q = r
    BY <1>4, <2>1 DEF JoinInv
  <2> QED  BY <2>3, <2>4 DEF JoinInv
<1>29. RingInv'
  <2>1. ticket' = ticket /\ cookie' = cookie /\ DOMAIN slots' = Turns
    BY <1>2, <1>15
  <2>2. /\ \A u \in Turns : slots'[u].ticket = slots[u].ticket /\ slots'[u].joined = slots[u].joined
        /\ \A u \in Turns : ToSet(slots'[u].box) \subseteq ToSet(slots[u].box)
        /\ \A u \in Turns : slots'[u].box # <<>> => slots[u].box # <<>>
    BY <1>8, <1>10, <1>14, <1>15, <1>16
  <2>3. SlotMatchesCall'
    <3>1. \A u \in Turns : Matches(u)
      BY <1>4, MatchesAre, SlotTypes DEF RingInv
    <3>2. ASSUME NEW u \in Turns  PROVE  Matches(u)'
      <4>1. Made(slots[u].ticket)' = Made(slots[u].ticket)
        BY <2>1, <2>2 DEF Made
      <4> QED  BY <2>1, <2>2, <3>1, <4>1 DEF Matches
    <3> QED  BY <2>1, <3>2, MatchesBecome
  <2>4. \A u \in Turns : \A b \in ToSet(slots'[u].box) : ticket'[cookie'[b].src] > slots'[u].ticket
    BY <1>4, <2>1, <2>2 DEF RingInv
  <2>5. \A u \in Turns : \A b, d \in ToSet(slots'[u].box) : cookie'[b].src = cookie'[d].src => b = d
    BY <1>4, <2>1, <2>2 DEF RingInv
  <2>6. \A u \in Turns : slots'[u].box # <<>> => slots'[u].ticket % NSlots = u
    BY <1>4, <2>2 DEF RingInv
  <2>7. ASSUME NEW t \in Calls, NEW q \in Procs, NEW r \in Procs, ticket'[q] <= t, t < ticket'[r]
        PROVE  /\ slots'[t % NSlots].ticket = t
               /\ slots'[t % NSlots].box # <<>> \/ slots'[t % NSlots].locked
    <3>1. PICK u \in Turns : u = t % NSlots
      BY CallsAre, TurnOf
    <3>2. slots[u].ticket = t /\ (slots[u].box # <<>> \/ slots[u].locked)
      BY <1>4, <2>1, <2>7, <3>1 DEF RingInv
    <3>3. CASE u # s
      BY <1>15, <3>1, <3>2, <3>3
    <3>4. CASE u = s
      <4>1. slots[s].joined = Cardinality(Made(t))
        <5>1. Matches(s)
          BY <1>4, MatchesAre, SlotTypes DEF RingInv
        <5> QED  BY <1>8, <1>10, <3>2, <3>4, <5>1 DEF Matches
      <4>2. q \notin Made(t)
        <5>1. ticket[q] \in Nat /\ t \in Nat
          BY <1>4, TicketType, CallsAre
        <5> QED  BY <2>1, <2>7, <5>1 DEF Made
      <4>3. slots[s].joined # N
        BY <4>1, <4>2, MadeIsFinite
      <4> QED  BY <1>10, <1>12, <1>14, <1>15, <3>1, <3>2, <3>4, <4>3
    <3> QED  BY <3>3, <3>4
  <2> QED  BY <2>3, <2>4, <2>5, <2>6, <2>7 DEF RingInv
<1>30. ASSUME NEW b, InUse(b)  PROVE  InUse(b)'
  <2>1. PICK x \in Places : x[1] # "free" /\ b \in Contents(x)
    BY <1>30 DEF InUse
  <2>2. CASE b = c /\ slots[s].joined = N
    <3>1. c \in pending'[o]
      BY <1>4, <1>12, <2>2 DEF TypeOK
    <3>2. <<"pending", o>> \in Places /\ b \in Contents(<<"pending", o>>)'
      BY <2>2, <3>1, PlaceTypes, ContentsBecome
    <3> QED  BY <3>2 DEF InUse
  <2>3. CASE ~(b = c /\ slots[s].joined = N)
    <3>1. /\ \A q \in Procs : pending[q] \subseteq pending'[q]
          /\ todo' = todo
      BY <1>2, <1>4, <1>12 DEF TypeOK
    <3>2. \A u \in Turns : b \in ToSet(slots[u].box) => b \in ToSet(slots'[u].box)
      <4>1. b \in ToSet(box) => b \in ToSet(left)
        BY <1>11, <1>12, <2>3
      <4> QED  BY <1>8, <1>14, <1>15, <4>1
    <3>3. b \in Contents(x)'
      <4>1. CASE \E q \in Procs : x = <<"pending", q>>
        BY <2>1, <3>1, <4>1, ContentsAre, ContentsBecome
      <4>2. CASE \E q \in Procs : x = <<"todo", q>>
        BY <2>1, <3>1, <4>2, ContentsAre, ContentsBecome
      <4>3. CASE \E u \in Turns : x = <<"box", u>>
        BY <2>1, <3>2, <4>3, ContentsAre, ContentsBecome
      <4>4. \A q \in Procs : x # <<"free", q>>
        BY <2>1
      <4> QED  BY <4>1, <4>2, <4>3, <4>4, PlaceTypes
    <3> QED  BY <2>1, <3>3 DEF InUse
  <2> QED  BY <2>2, <2>3
<1> QED  BY <1>22, <1>25, <1>26, <1>27, <1>28, <1>29, <1>30 DEF CollInv

-----------------------------------------------------------------------------
(* The counts after a step other than a call                               *)

\* The lists are as they were, but for free ones.
LEMMA InUseTheSame ==
  ASSUME pending' = pending, todo' = todo, \A s \in Turns : slots'[s].box = slots[s].box
  PROVE  \A b : InUse(b) => InUse(b)'
<1> SUFFICES ASSUME NEW b, InUse(b)  PROVE  InUse(b)'
  OBVIOUS
<1>1. PICK x \in Places : x[1] # "free" /\ b \in Contents(x)
  BY DEF InUse
<1>2. b \in Contents(x)'
  <2>1. CASE \E q \in Procs : x = <<"pending", q>>
    BY <1>1, <2>1, ContentsAre, ContentsBecome
  <2>2. CASE \E q \in Procs : x = <<"todo", q>>
    BY <1>1, <2>2, ContentsAre, ContentsBecome
  <2>3. CASE \E u \in Turns : x = <<"box", u>>
    BY <1>1, <2>3, ContentsAre, ContentsBecome
  <2>4. \A q \in Procs : x # <<"free", q>>
    BY <1>1
  <2> QED  BY <2>1, <2>2, <2>3, <2>4, PlaceTypes
<1> QED  BY <1>1, <1>2 DEF InUse

\* A process that goes on to serve has its todo list still.
LEMMA TodoStays ==
  ASSUME TypeOK, NEW p \in Procs, NEW t, Serves(p, t, todo[p]) \/ Goes(p, "scan", t, at[p], todo[p])
  PROVE  todo' = todo
<1>1. todo' = [todo EXCEPT ![p] = todo[p]]
  BY DEF Serves, Returns, Goes
<1> QED  BY <1>1 DEF TypeOK

\* Data is moved, and the lists and the requests are as they were.
LEMMA MovesSlots ==
  ASSUME CollInv, NEW p \in Procs, Deliver(p) \/ ScanReads(p) \/ ScanWrites(p)
  PROVE  /\ DOMAIN slots' = Turns
         /\ \A s \in Turns :
              slots'[s].ticket = slots[s].ticket /\ slots'[s].joined = slots[s].joined /\ slots'[s].box = slots[s].box
<1>1. TypeOK /\ call[p] % NSlots \in Turns
  BY WorksOn DEF CollInv, Deliver, ScanReads, ScanWrites
<1>2. slots \in [Turns -> SlotRecords] /\ DOMAIN slots = Turns
  BY <1>1 DEF TypeOK, Turns
<1>3. PICK s \in Turns : s = call[p] % NSlots
  BY <1>1
<1>4. CASE Deliver(p)
  BY <1>2, <1>4 DEF Deliver
<1>5. CASE ScanReads(p)
  <2> DEFINE data == buf[cookie[at[p]].owner][cookie[at[p]].call]
  <2>1. IF Rank[cookie[at[p]].src] = 0
        THEN slots' = [slots EXCEPT ![s].sendbuf = data] /\ Serves(p, call[p], todo[p])
        ELSE slots' = [slots EXCEPT ![s].recvbuf = data] /\ Goes(p, "scan", call[p], at[p], todo[p])
    BY <1>3, <1>5 DEF ScanReads
  <2> HIDE DEF data
  <2>2. CASE slots' = [slots EXCEPT ![s].sendbuf = data]
    BY <1>2, <2>2 DEF SlotRecords
  <2>3. CASE slots' = [slots EXCEPT ![s].recvbuf = data]
    BY <1>2, <2>3 DEF SlotRecords
  <2> QED  BY <2>1, <2>2, <2>3
<1>6. CASE ScanWrites(p)
  <2> DEFINE with == Plus(slots[s].sendbuf, slots[s].recvbuf)
             sum  == IF program[call[p]].kind = "exscan" /\ todo[p] = <<>> THEN slots[s].sendbuf ELSE with
  <2>1. slots' = [slots EXCEPT ![s].sendbuf = sum]
    BY <1>3, <1>6 DEF ScanWrites
  <2> HIDE DEF sum
  <2> QED  BY <1>2, <2>1 DEF SlotRecords
<1> QED  BY <1>4, <1>5, <1>6

LEMMA MovesCount ==
  ASSUME CollInv, CountInv, NEW p \in Procs, Deliver(p) \/ ScanReads(p) \/ ScanWrites(p)
  PROVE  CountInv'
<1>1. TypeOK /\ call[p] % NSlots \in Turns
  BY WorksOn DEF CollInv, Deliver, ScanReads, ScanWrites
<1>2. used' = used /\ reqs' = reqs /\ lost' = lost /\ pending' = pending
  BY DEF Deliver, ScanReads, ScanWrites, lists
<1>3. todo' = todo
  BY <1>1, TodoStays DEF Deliver, ScanReads, ScanWrites
<1>4. \A s \in Turns : slots'[s].box = slots[s].box
  BY MovesSlots
<1>5. \A b : InUse(b) => InUse(b)'
  BY <1>2, <1>3, <1>4, InUseTheSame
<1> QED  BY <1>2, <1>5, CountsTheSame

LEMMA WaitsCount ==
  ASSUME CollInv, CountInv, NEW p \in Procs, (\E t \in Calls : Wait(p, t)) \/ Leaves(p)
  PROVE  CountInv'
<1>1. used' = used /\ reqs' = reqs /\ lost' = lost /\ pending' = pending /\ slots' = slots
  BY DEF Wait, Leaves, lists, cookies
<1>2. todo' = todo
  <2>1. CASE \E t \in Calls : Wait(p, t)
    <3>1. pc[p] = "idle" /\ todo' = [todo EXCEPT ![p] = <<>>]
      BY <2>1 DEF Wait, Goes
    <3>2. todo[p] = <<>>
      BY <3>1 DEF CollInv, CallInv
    <3> QED  BY <3>1, <3>2 DEF CollInv, TypeOK
  <2>2. CASE Leaves(p)
    BY <2>2 DEF Leaves
  <2> QED  BY <2>1, <2>2
<1>3. \A b : InUse(b) => InUse(b)'
  BY <1>1, <1>2, InUseTheSame
<1> QED  BY <1>1, <1>3, CountsTheSame

LEMMA ServeCounts ==
  ASSUME CollInv, CountInv, NEW p \in Procs, Serve(p)
  PROVE  CountInv'
<1>1. used' = used /\ reqs' = reqs /\ lost' = lost
  BY DEF Serve, cookies
<1> QED  BY <1>1, ServeKeeps, CountsTheSame

\* If ++ is atomic, the count has not changed since the process has loaded it, or so it
\* seems.
LEMMA JoinStoresCounts ==
  ASSUME AtomicCounts, CollInv, CountInv, NEW p \in Procs, JoinStores(p)
  PROVE  CountInv'
<1>1. pc[p] = "join" /\ Updated(p, 1) /\ Holds(p, call[p], at[p]) /\ lost' = lost
  BY DEF JoinStores
<1>2. PICK c \in Cookies : c = at[p]
  BY <1>1, WorksOn
<1>3. PICK t \in Calls : t = call[p]
  BY <1>1, WorksOn
<1>4. PICK s \in Turns : s = call[p] % NSlots
  BY <1>1, WorksOn
<1>5. TypeOK /\ reqs[p][t] = NoCookie /\ slots[s].box # <<>> /\ Head(slots[s].box) = c
  BY <1>1, <1>2, <1>3, <1>4 DEF CollInv, CallInv, JoinInv
<1>6. used' = [used EXCEPT ![c] = @ + 1]
  BY <1>1, <1>2 DEF Updated
<1>7. \A b : InUse(b) => InUse(b)'
  BY JoinStoresKeeps
<1>8. InUse(c)
  <2>1. c \in ToSet(slots[s].box)
    BY <1>5, SlotTypes, TailMembers
  <2>2. <<"box", s>> \in Places /\ c \in Contents(<<"box", s>>)
    BY <2>1, PlaceTypes, ContentsAre
  <2> QED  BY <2>2 DEF InUse
<1>9. Holds(p, t, c)
  BY <1>1, <1>2, <1>3
<1> QED  BY <1>1, <1>5, <1>6, <1>7, <1>8, <1>9, CountsOneMore

\* A cookie nobody uses any more is nobody's.
LEMMA LeaveCounts ==
  ASSUME AtomicCounts, CollInv, CountInv, NEW p \in Procs, Leave(p)
  PROVE  CountInv'
<1>1. pc[p] = "leave" /\ Updated(p, -1) /\ Holds(p, call[p], NoCookie) /\ Returns(p) /\ lost' = lost /\ slots' = slots
  BY DEF Leave
<1>2. PICK c \in Cookies : c = at[p]
  BY <1>1, WorksOn
<1>3. PICK t \in Calls : t = call[p]
  BY <1>1, WorksOn
<1>4. PICK o \in Procs : o = cookie[c].owner
  BY <1>1, <1>2, WorksOn
<1>5. /\ TypeOK /\ used \in [Cookies -> Int] /\ NoCookie \notin Cookies
      /\ reqs[p][t] = c /\ todo[p] = <<>>
  BY <1>1, <1>2, <1>3, ConstantTypes DEF CollInv, CallInv, TypeOK
<1>6. used' = [used EXCEPT ![c] = @ + (-1)]
  BY <1>1, <1>2 DEF Updated
<1>7. Holds(p, t, NoCookie) /\ NoCookie \in Cookies \cup {NoCookie}
  BY <1>1, <1>3
<1>8. \A b : Refs(b)' = IF b = NoCookie THEN Refs(b) \cup {<<p, t>>} ELSE Refs(b) \ {<<p, t>>}
  BY <1>5, <1>7, RefsBecome
<1>9. ASSUME NEW b \in Cookies
      PROVE  /\ used'[b] = Cardinality(Refs(b)') + lost'[b]
             /\ used'[b] = 0 => Refs(b)' = {}
  <2>1. used[b] = Cardinality(Refs(b)) /\ lost'[b] = 0 /\ Cardinality(Refs(b)) \in Nat /\ IsFiniteSet(Refs(b))
    BY <1>1, <1>5, RefsAre DEF CountInv, RefCount, TypeOK
  <2>2. Refs(b)' = Refs(b) \ {<<p, t>>} /\ (<<p, t>> \in Refs(b) <=> b = c)
    BY <1>5, <1>8 DEF Refs
  <2>3. IsFiniteSet(Refs(b)') /\ used'[b] = Cardinality(Refs(b)')
    <3>1. CASE b # c
      <4>1. Refs(b)' = Refs(b)
        BY <2>2, <3>1
      <4>2. used'[b] = used[b]
        BY <1>5, <1>6, <3>1
      <4> QED  BY <2>1, <4>1, <4>2
    <3>2. CASE b = c
      <4>1. IsFiniteSet(Refs(b)') /\ Cardinality(Refs(b)') = Cardinality(Refs(b)) - 1
        <5>1. IsFiniteSet(Refs(b)) /\ <<p, t>> \in Refs(b) /\ Refs(b)' = Refs(b) \ {<<p, t>>}
          BY <2>1, <2>2, <3>2
        <5> HIDE DEF Refs
        <5> QED  BY <5>1, FS_RemoveElement
      <4>2. used'[b] = used[b] + (-1)
        BY <1>5, <1>6, <3>2
      <4> QED  BY <2>1, <4>1, <4>2
    <3> QED  BY <3>1, <3>2
  <2>4. Cardinality(Refs(b)') \in Nat
    BY <2>3, FS_CardinalityType
  <2> QED  BY <2>1, <2>3, <2>4, FS_EmptySet
<1>10. RefCount'
  BY <1>9 DEF RefCount
<1>11. ASSUME NEW q \in Procs, NEW u \in Calls, reqs'[q][u] # NoCookie  PROVE  InUse(reqs[q][u])'
  <2>1. /\ \A r \in Procs : r # p => reqs'[r] = reqs[r]
        /\ \A v \in Calls : reqs'[p][v] = IF v = t THEN NoCookie ELSE reqs[p][v]
    BY <1>5, <1>7, HoldsIs
  <2>2. PICK b : b = reqs'[q][u]
    OBVIOUS
  <2>3. b = reqs[q][u] /\ b # NoCookie
    BY <1>11, <2>1, <2>2
  <2>4. b \in Cookies
    BY <1>5, <2>3, HeldAreCookies
  <2>5. used'[b] # 0
    <3>1. <<q, u>> \in Refs(b)'
      BY <2>2 DEF Refs
    <3> QED  BY <1>9, <2>4, <3>1
  <2>6. PICK x \in Places : x[1] # "free" /\ b \in Contents(x)
    <3>1. InUse(b)
      BY <2>3 DEF CountInv
    <3> QED  BY <3>1 DEF InUse
  <2>7. b \in Contents(x)'
    <3>1. CASE \E r \in Procs : x = <<"pending", r>>
      <4>1. PICK r \in Procs : x = <<"pending", r>>
        BY <3>1
      <4>2. PICK unused : unused = Unused(o) /\ b \notin unused
        <5>1. b \notin Unused(o)
          BY <2>5 DEF Unused
        <5> QED  BY <5>1
      <4>3. pending' = [pending EXCEPT ![o] = @ \ unused]
        BY <1>2, <1>4, <4>2 DEF Leave
      <4>4. b \in pending[r]
        BY <2>6, <4>1, ContentsAre
      <4>5. b \in pending'[r]
        BY <1>5, <4>2, <4>3, <4>4 DEF TypeOK
      <4> QED  BY <4>1, <4>5, ContentsBecome
    <3>2. CASE \E r \in Procs : x = <<"todo", r>>
      <4>1. todo' = [todo EXCEPT ![p] = <<>>]
        BY <1>1 DEF Returns, Goes
      <4>2. todo' = todo
        BY <1>5, <4>1 DEF TypeOK
      <4> QED  BY <2>6, <3>2, <4>2, ContentsAre, ContentsBecome
    <3>3. CASE \E s \in Turns : x = <<"box", s>>
      BY <1>1, <2>6, <3>3, ContentsAre, ContentsBecome
    <3>4. \A r \in Procs : x # <<"free", r>>
      BY <2>6
    <3> QED  BY <3>1, <3>2, <3>3, <3>4, PlaceTypes
  <2>8. InUse(b)'
    BY <2>6, <2>7 DEF InUse
  <2> QED  BY <2>2, <2>8 DEF InUse
<1>12. \A b \in Cookies : lost'[b] = 0
  BY <1>1 DEF CountInv
<1> QED  BY <1>10, <1>11, <1>12 DEF CountInv

-----------------------------------------------------------------------------
(* What the cookies wait for after a step other than a call                *)

LEMMA InUseIs ==
  /\ \A b : InUse(b) <=> \/ \E q \in Procs : b \in pending[q] \/ b \in ToSet(todo[q])
                         \/ \E s \in Turns : b \in ToSet(slots[s].box)
  /\ \A b : InUse(b)' <=> \/ \E q \in Procs : b \in pending'[q] \/ b \in ToSet(todo'[q])
                          \/ \E s \in Turns : b \in ToSet(slots'[s].box)
<1>1. \A q : <<"pending", q>>[1] # "free" /\ <<"todo", q>>[1] # "free" /\ <<"box", q>>[1] # "free" /\ <<"free", q>>[1] = "free"
  OBVIOUS
<1>2. ASSUME NEW b
      PROVE  InUse(b) <=> \/ \E q \in Procs : b \in pending[q] \/ b \in ToSet(todo[q])
                          \/ \E s \in Turns : b \in ToSet(slots[s].box)
  <2>1. ASSUME InUse(b)
        PROVE  \/ \E q \in Procs : b \in pending[q] \/ b \in ToSet(todo[q])
               \/ \E s \in Turns : b \in ToSet(slots[s].box)
    <3>1. PICK x \in Places : x[1] # "free" /\ b \in Contents(x)
      BY <2>1 DEF InUse
    <3> QED  BY <1>1, <3>1, PlaceTypes, ContentsAre
  <2>2. ASSUME NEW q \in Procs, b \in pending[q] \/ b \in ToSet(todo[q])  PROVE  InUse(b)
    BY <1>1, <2>2, PlaceTypes, ContentsAre DEF InUse
  <2>3. ASSUME NEW s \in Turns, b \in ToSet(slots[s].box)  PROVE  InUse(b)
    BY <1>1, <2>3, PlaceTypes, ContentsAre DEF InUse
  <2> QED  BY <2>1, <2>2, <2>3
<1>3. ASSUME NEW b
      PROVE  InUse(b)' <=> \/ \E q \in Procs : b \in pending'[q] \/ b \in ToSet(todo'[q])
                           \/ \E s \in Turns : b \in ToSet(slots'[s].box)
  <2>1. ASSUME InUse(b)'
        PROVE  \/ \E q \in Procs : b \in pending'[q] \/ b \in ToSet(todo'[q])
               \/ \E s \in Turns : b \in ToSet(slots'[s].box)
    <3>1. PICK x \in Places : x[1] # "free" /\ b \in Contents(x)'
      BY <2>1 DEF InUse
    <3> QED  BY <1>1, <3>1, PlaceTypes, ContentsBecome
  <2>2. ASSUME NEW q \in Procs, b \in pending'[q] \/ b \in ToSet(todo'[q])  PROVE  InUse(b)'
    BY <1>1, <2>2, PlaceTypes, ContentsBecome DEF InUse
  <2>3. ASSUME NEW s \in Turns, b \in ToSet(slots'[s].box)  PROVE  InUse(b)'
    BY <1>1, <2>3, PlaceTypes, ContentsBecome DEF InUse
  <2> QED  BY <2>1, <2>2, <2>3
<1> QED  BY <1>2, <1>3

\* A cookie whose data somebody moves is busy.
LEMMA MoverBusy ==
  ASSUME CollInv, BusyInv, NEW p \in Procs, pc[p] \in Moving
  PROVE  at[p] \in Cookies /\ busy[at[p]] \in Int /\ busy[at[p]] > 0
<1>1. PICK c \in Cookies : c = at[p]
  BY MoversPlaced
<1>2. p \in Movers(c)
  BY <1>1 DEF Movers, Moving
<1>3. Cardinality(Movers(c)) \in Nat /\ Cardinality(Movers(c)) # 0
  BY <1>2, MoversAre, FS_EmptySet
<1>4. busy[c] \in Int
  BY DEF CollInv, TypeOK
<1>5. CASE \E o \in Procs : c \in pending[o]
  <2>1. busy[c] = Cardinality(Movers(c)) + Cardinality(Twice(c))
    BY <1>5, ExactIs
  <2>2. Cardinality(Twice(c)) \in Nat
    <3>1. Twice(c) \subseteq Movers(c)
      BY DEF Twice
    <3> QED  BY <3>1, MoversAre, FS_Subset, FS_CardinalityType
  <2> QED  BY <1>1, <1>3, <1>4, <2>1, <2>2
<1>6. CASE \E s \in Turns : RootsCookie(s, c) /\ c \in ToSet(slots[s].box)
  <2>1. PICK s \in Turns : RootsCookie(s, c) /\ c \in ToSet(slots[s].box)
    BY <1>6
  <2>2. Head(slots[s].box) = c /\ program[slots[s].ticket].kind \in Rooted /\ cookie[c].src = program[slots[s].ticket].root
    BY <2>1 DEF RootsCookie
  <2>3. busy[c] = N - slots[s].joined + Cardinality(Movers(c))
    BY <2>1, <2>2, ExactIs, WaitsForIs
  <2>4. slots[s].joined \in 0..N
    BY SlotTypes DEF CollInv
  <2> QED  BY <1>1, <1>3, <1>4, <2>3, <2>4, ConstantTypes
<1> QED  BY <1>1, <1>5, <1>6, MoversPlaced

\* Only in a scan data is moved twice.
LEMMA NotTwice ==
  ASSUME BusyInv, NEW c, program[cookie[c].call].kind \notin Scans
  PROVE  Twice(c) = {}
<1>1. ASSUME NEW q \in Twice(c)  PROVE  FALSE
  <2>1. q \in Procs /\ pc[q] \in Moving /\ at[q] = c /\ program[call[q]].kind \in Scans
    BY DEF Twice, Movers, MovesTwice, InScan, Moving
  <2> QED  BY <2>1 DEF BusyInv, MoverInv
<1> QED  BY <1>1

\* The lists and the requests are as they were.
Stays ==
  /\ program' = program /\ cookie' = cookie /\ pending' = pending /\ todo' = todo /\ reqs' = reqs
  /\ DOMAIN slots' = Turns
  /\ \A s \in Turns :
       slots'[s].ticket = slots[s].ticket /\ slots'[s].joined = slots[s].joined /\ slots'[s].box = slots[s].box

\* p may end to move data, and begin to complete its request.
MovesOn(p) ==
  /\ \A q \in Procs : q # p => pc'[q] = pc[q] /\ call'[q] = call[q] /\ at'[q] = at[q]
  /\ pc'[p] \in Moving => pc[p] \in Moving /\ at'[p] = at[p] /\ call'[p] = call[p]
  /\ todo[p] # <<>> => call'[p] = call[p]
  /\ pc'[p] = "leave" /\ cookie[at'[p]].owner = p => at'[p] \in Cookies /\ busy[at'[p]] = 0

LEMMA StaysOwned ==
  ASSUME CollInv, BusyInv, Stays, NEW p \in Procs, MovesOn(p),
         \A b \in Cookies : busy'[b] = busy[b] \/ (busy[b] > 0 /\ busy'[b] = busy[b] - 1)
  PROVE  MoverInv' /\ BoxInv' /\ ListsInv' /\ OwnerInv'
<1>0. /\ TypeOK /\ MoverInv /\ BoxInv /\ ListsInv /\ OwnerInv
  BY DEF CollInv, BusyInv
<1>1. MoverInv'
  <2> SUFFICES ASSUME NEW q \in Procs, pc'[q] \in Moving
               PROVE  /\ cookie'[at'[q]].call = call'[q]
                      /\ at'[q] \in pending'[cookie'[at'[q]].owner] \/ RootsCookie(call[q] % NSlots, at[q])'
    BY DEF MoverInv
  <2>1. pc[q] \in Moving /\ at'[q] = at[q] /\ call'[q] = call[q]
    BY DEF MovesOn
  <2>2. /\ cookie[at[q]].call = call[q]
        /\ at[q] \in pending[cookie[at[q]].owner] \/ RootsCookie(call[q] % NSlots, at[q])
    BY <1>0, <2>1 DEF MoverInv
  <2>3. PICK s \in Turns : s = call[q] % NSlots
    BY <2>1, WorksOn DEF Moving
  <2>4. RootsCookie(call[q] % NSlots, at[q]) => RootsCookie(call[q] % NSlots, at[q])'
    BY <2>1, <2>3 DEF RootsCookie, Stays
  <2> QED  BY <2>1, <2>2, <2>4 DEF Stays
<1>2. BoxInv'
  BY <1>0 DEF BoxInv, Stays
<1>3. ListsInv'
  <2>1. ASSUME NEW q \in Procs, NEW c \in ToSet(todo'[q])  PROVE  cookie'[c].call = call'[q]
    <3>1. c \in ToSet(todo[q]) /\ todo[q] # <<>>
      BY <2>1 DEF Stays, ToSet
    <3>2. call'[q] = call[q]
      BY <3>1 DEF MovesOn
    <3> QED  BY <1>0, <3>1, <3>2 DEF ListsInv, Stays
  <2> QED  BY <1>0, <2>1 DEF ListsInv, Stays
<1>4. \A b : InUse(b)' => InUse(b)
  BY InUseIs DEF Stays
<1>5. ASSUME NEW c \in Cookies, InUse(c)', busy'[c] > 0  PROVE  reqs'[cookie'[c].owner][cookie'[c].call] = c
  <2>1. busy[c] \in Int
    BY <1>0 DEF TypeOK
  <2>2. busy[c] > 0
    BY <1>5, <2>1
  <2> QED  BY <1>0, <1>4, <1>5, <2>2 DEF OwnerInv, Stays
<1>6. ASSUME NEW q \in Procs, pc'[q] = "leave", cookie'[at'[q]].owner = q  PROVE  busy'[at'[q]] = 0
  <2>1. at'[q] \in Cookies /\ busy[at'[q]] = 0
    <3>1. CASE q = p
      BY <1>6, <3>1 DEF MovesOn, Stays
    <3>2. CASE q # p
      <4>1. pc[q] = "leave" /\ at'[q] = at[q]
        BY <1>6, <3>2 DEF MovesOn
      <4> QED  BY <1>0, <1>6, <4>1, WorksOn DEF OwnerInv, Stays
    <3> QED  BY <3>1, <3>2
  <2> QED  BY <2>1
<1> QED  BY <1>1, <1>2, <1>3, <1>5, <1>6 DEF OwnerInv

\* What busy_ loses is what p has moved.
LEMMA MoveExact ==
  ASSUME CollInv, BusyInv, Stays, NEW p \in Procs, MovesOn(p), pc[p] \in Moving, busy' = Notified(at[p]),
         \/ pc'[p] \notin Moving /\ ~MovesTwice(p)
         \/ pc'[p] = "scan" /\ MovesTwice(p)
  PROVE  BusyExact'
<1>1. PICK c \in Cookies : c = at[p]
  BY MoverBusy
<1>2. /\ TypeOK /\ \A b \in Cookies : busy'[b] = IF b = c THEN busy[b] - 1 ELSE busy[b]
  BY <1>1, NotifiedIs DEF CollInv
<1>3. /\ \A b : Movers(b)' \ {p} = Movers(b) \ {p}
      /\ \A b : Twice(b)' \ {p} = Twice(b) \ {p}
  BY OthersMove DEF Stays, MovesOn
<1>4. /\ p \in Movers(c) /\ \A b : b # c => p \notin Movers(b) /\ p \notin Movers(b)'
      /\ \A b : b # c => p \notin Twice(b) /\ p \notin Twice(b)'
  BY <1>1 DEF Movers, Moving, Twice, MovesOn
<1>5. ASSUME NEW b, b # c  PROVE  Movers(b)' = Movers(b) /\ Twice(b)' = Twice(b)
  <2>1. Movers(b)' \ {p} = Movers(b) \ {p} /\ Twice(b)' \ {p} = Twice(b) \ {p}
    BY <1>3
  <2>2. p \notin Movers(b) /\ p \notin Movers(b)' /\ p \notin Twice(b) /\ p \notin Twice(b)'
    BY <1>4, <1>5
  <2> QED  BY <2>1, <2>2, SameButOne
<1>6. IsFiniteSet(Twice(c))
  <2>1. Twice(c) \subseteq Movers(c)
    BY DEF Twice
  <2> QED  BY <2>1, MoversAre, FS_Subset
<1>7. \/ /\ Cardinality(Movers(c)') = Cardinality(Movers(c)) - 1
         /\ Twice(c)' = Twice(c)
      \/ /\ Movers(c)' = Movers(c) /\ p \in Twice(c)
         /\ Cardinality(Twice(c)') = Cardinality(Twice(c)) - 1
  <2>1. CASE pc'[p] \notin Moving /\ ~MovesTwice(p)
    <3>1. p \notin Movers(c)' /\ p \notin Twice(c) /\ p \notin Twice(c)'
      BY <2>1 DEF Movers, Moving, Twice
    <3>2. Movers(c)' \ {p} = Movers(c) \ {p} /\ Twice(c)' \ {p} = Twice(c) \ {p}
      BY <1>3
    <3>3. Twice(c)' = Twice(c)
      BY <3>1, <3>2, SameButOne
    <3>4. IsFiniteSet(Movers(c)) /\ p \in Movers(c)
      BY <1>4, MoversAre
    <3>5. Cardinality(Movers(c)') = Cardinality(Movers(c)) - 1
      BY <3>1, <3>2, <3>4, OneApart
    <3> QED  BY <3>3, <3>5
  <2>2. CASE pc'[p] = "scan" /\ MovesTwice(p)
    <3>1. p \in Movers(c)' /\ p \in Twice(c) /\ p \notin Twice(c)'
      BY <1>1, <1>4, <2>2 DEF Movers, Moving, Twice, MovesTwice, MovesOn
    <3>2. Movers(c)' \ {p} = Movers(c) \ {p} /\ Twice(c)' \ {p} = Twice(c) \ {p} /\ p \in Movers(c)
      BY <1>3, <1>4
    <3>3. Movers(c)' = Movers(c)
      BY <3>1, <3>2, SameButOne
    <3>4. Cardinality(Twice(c)') = Cardinality(Twice(c)) - 1
      BY <1>6, <3>1, <3>2, OneApart
    <3> QED  BY <3>1, <3>3, <3>4
  <2> QED  BY <2>1, <2>2
<1>8. /\ Cardinality(Movers(c)) \in Nat /\ Cardinality(Twice(c)) \in Nat /\ busy[c] \in Int
  BY <1>2, <1>6, MoversAre, FS_CardinalityType DEF TypeOK
<1>9. /\ DOMAIN slots' = Turns /\ program' = program /\ cookie' = cookie /\ pending' = pending /\ todo' = todo
      /\ \A s \in Turns :
           slots'[s].ticket = slots[s].ticket /\ slots'[s].joined = slots[s].joined /\ slots'[s].box = slots[s].box
  BY DEF Stays
<1>10. ASSUME NEW s \in Turns, NEW b \in ToSet(slots[s].box)
       PROVE  busy'[b] = WaitsFor(program[slots[s].ticket], slots[s].box, slots[s].joined, b, cookie[b].src,
                                  Cardinality(Movers(b)'))
  <2>1. /\ b \in Cookies
        /\ busy[b] = WaitsFor(program[slots[s].ticket], slots[s].box, slots[s].joined, b, cookie[b].src,
                              Cardinality(Movers(b)))
    BY <1>2, ExactIs, SlotTypes
  <2>2. CASE b # c
    BY <1>2, <1>5, <2>1, <2>2
  <2>3. CASE b = c
    <3>1. RootsCookie(s, c)
      BY <1>4, <2>3, Unmoved
    <3>2. /\ Head(slots[s].box) = c /\ program[slots[s].ticket].kind \in Rooted
          /\ cookie[c].src = program[slots[s].ticket].root
      BY <3>1 DEF RootsCookie
    <3>3. /\ busy[c] = N - slots[s].joined + Cardinality(Movers(c))
          /\ WaitsFor(program[slots[s].ticket], slots[s].box, slots[s].joined, c, cookie[c].src, Cardinality(Movers(c)'))
               = N - slots[s].joined + Cardinality(Movers(c)')
      BY <2>1, <2>3, <3>2, WaitsForIs
    <3>4. Twice(c) = {}
      <4>1. Matches(s)
        BY <1>2, MatchesAre, SlotTypes DEF CollInv, RingInv
      <4>2. cookie[c].call = slots[s].ticket
        BY <2>3, <4>1 DEF Matches, ToSet
      <4>3. program[cookie[c].call].kind \notin Scans
        BY <3>2, <4>2 DEF Rooted, Scans
      <4> QED  BY <4>3, NotTwice
    <3>5. Cardinality(Movers(c)') = Cardinality(Movers(c)) - 1
      BY <1>7, <3>4
    <3>6. slots[s].joined \in Int /\ N \in Int
      BY <1>2, SlotTypes, ConstantTypes
    <3> QED  BY <1>2, <1>8, <2>3, <3>3, <3>5, <3>6
  <2> QED  BY <2>2, <2>3
<1>11. ASSUME NEW q \in Procs, NEW b \in ToSet(todo[q])
       PROVE  busy'[b] = ServedFor(program[cookie[b].call], cookie[b].src)
  <2>1. b # c
    BY <1>4, Unmoved
  <2>2. b \in Cookies
    BY <1>2, MembersAre DEF TypeOK
  <2> QED  BY <1>2, <2>1, <2>2, ExactIs
<1>12. ASSUME NEW q \in Procs, NEW b \in pending[q]
       PROVE  busy'[b] = Cardinality(Movers(b)') + Cardinality(Twice(b)')
  <2>1. b \in Cookies /\ busy[b] = Cardinality(Movers(b)) + Cardinality(Twice(b))
    BY ExactIs
  <2>2. CASE b # c
    BY <1>2, <1>5, <2>1, <2>2
  <2>3. CASE b = c
    BY <1>2, <1>7, <1>8, <2>1, <2>3
  <2> QED  BY <2>2, <2>3
<1> QED  BY <1>9, <1>10, <1>11, <1>12, ExactBecomes

\* Data is moved.
LEMMA MoveBusy ==
  ASSUME CollInv, BusyInv, NEW p \in Procs, Deliver(p) \/ ScanReads(p) \/ ScanWrites(p)
  PROVE  BusyInv'
<1>1. pc[p] \in {"deliver", "scan"} /\ pc[p] \in Moving /\ busy' = Notified(at[p])
  BY DEF Deliver, ScanReads, ScanWrites, Notifies, Moving
<1>2. /\ TypeOK /\ call[p] \in Nat /\ todo[p] \in Seq(Cookies) /\ at[p] \in Cookies /\ cookie[at[p]].src \in Procs
  <2>1. TypeOK /\ call[p] \in Nat /\ at[p] \in Cookies /\ Known(at[p])
    BY <1>1, WorksOn
  <2> QED  BY <2>1 DEF TypeOK, Known
<1>3. program' = program /\ cookie' = cookie /\ pending' = pending /\ reqs' = reqs
  BY DEF Deliver, ScanReads, ScanWrites, lists
<1>4. todo' = todo
  BY <1>2, TodoStays DEF Deliver, ScanReads, ScanWrites
<1>5. /\ DOMAIN slots' = Turns
      /\ \A s \in Turns :
           slots'[s].ticket = slots[s].ticket /\ slots'[s].joined = slots[s].joined /\ slots'[s].box = slots[s].box
  BY MovesSlots
<1>6. Stays
  BY <1>3, <1>4, <1>5 DEF Stays
<1>7. /\ MovesOn(p)
      /\ \/ pc'[p] \notin Moving /\ ~MovesTwice(p)
         \/ pc'[p] = "scan" /\ MovesTwice(p)
  <2>1. Rank[cookie[at[p]].src] \in Nat
    BY <1>2, RankAssumption, ConstantTypes DEF N
  <2>2. CASE Serves(p, call[p], todo[p])
    <3>1. /\ \A q \in Procs : q # p => pc'[q] = pc[q] /\ call'[q] = call[q] /\ at'[q] = at[q]
          /\ \/ pc'[p] = "idle" /\ todo[p] = <<>>
             \/ pc'[p] = "serve" /\ call'[p] = call[p] /\ todo[p] # <<>>
      BY <1>2, <2>2, ServesIs
    <3>2. MovesOn(p) /\ pc'[p] \notin Moving
      BY <3>1 DEF MovesOn, Moving
    <3>3. ~MovesTwice(p)
      <4>1. CASE Deliver(p)
        BY <4>1 DEF Deliver, MovesTwice
      <4>2. CASE ScanWrites(p)
        BY <4>2 DEF ScanWrites, MovesTwice
      <4>3. CASE ScanReads(p)
        <5>1. Rank[cookie[at[p]].src] = 0
          <6>1. CASE Goes(p, "scan", call[p], at[p], todo[p])
            <7>1. pc'[p] = "scan"
              BY <1>2, <6>1 DEF Goes, TypeOK
            <7> QED  BY <3>1, <7>1
          <6> QED  BY <4>3, <6>1 DEF ScanReads
        <5> QED  BY <5>1 DEF MovesTwice
      <4> QED  BY <4>1, <4>2, <4>3
    <3> QED  BY <3>2, <3>3
  <2>3. CASE ScanReads(p) /\ ~Serves(p, call[p], todo[p])
    <3>1. pc[p] = "deliver" /\ InScan(p) /\ Rank[cookie[at[p]].src] # 0 /\ Goes(p, "scan", call[p], at[p], todo[p])
      BY <2>3 DEF ScanReads
    <3>2. MovesTwice(p)
      BY <2>1, <3>1 DEF MovesTwice
    <3>3. /\ pc'[p] = "scan" /\ call'[p] = call[p] /\ at'[p] = at[p]
          /\ \A q \in Procs : q # p => pc'[q] = pc[q] /\ call'[q] = call[q] /\ at'[q] = at[q]
      BY <1>2, <3>1 DEF Goes, TypeOK
    <3> QED  BY <1>1, <3>2, <3>3 DEF MovesOn
  <2> QED  BY <2>2, <2>3 DEF Deliver, ScanWrites
<1>8. BusyExact'
  BY <1>1, <1>6, <1>7, MoveExact
<1>9. MoverInv' /\ BoxInv' /\ ListsInv' /\ OwnerInv'
  <2>1. \A b \in Cookies : busy'[b] = busy[b] \/ (busy[b] > 0 /\ busy'[b] = busy[b] - 1)
    BY <1>1, <1>2, NotifiedIs, MoverBusy
  <2> QED  BY <1>6, <1>7, <2>1, StaysOwned
<1>10. \A c \in Cookies : cookie'[c].err = MPI_SUCCESS
  BY <1>3 DEF BusyInv
<1> QED  BY <1>8, <1>9, <1>10 DEF BusyInv

\* A process turns to one of its requests; an owner waits there until its cookie is not busy.
LEMMA WaitBusy ==
  ASSUME CollInv, BusyInv, NEW p \in Procs, (\E t \in Calls : Wait(p, t)) \/ Leaves(p)
  PROVE  BusyInv'
<1>1. /\ program' = program /\ cookie' = cookie /\ pending' = pending /\ reqs' = reqs /\ slots' = slots
      /\ busy' = busy
  BY DEF Wait, Leaves, lists, cookies
<1>2. /\ TypeOK /\ todo[p] = <<>> /\ DOMAIN slots = Turns
  BY DEF CollInv, CallInv, TypeOK, Turns, Wait, Leaves
<1>3. /\ todo' = todo /\ pc[p] \in {"idle", "wait"} /\ pc'[p] \in {"wait", "leave"}
      /\ \A q \in Procs : q # p => pc'[q] = pc[q] /\ call'[q] = call[q] /\ at'[q] = at[q]
      /\ pc'[p] = "leave" => Leaves(p) /\ at'[p] = at[p] /\ pc[p] = "wait"
  <2>1. CASE \E t \in Calls : Wait(p, t)
    <3>1. PICK t \in Calls : pc[p] = "idle" /\ Goes(p, "wait", t, reqs[p][t], <<>>)
      BY <2>1 DEF Wait
    <3>2. /\ pc' = [pc EXCEPT ![p] = "wait"] /\ call' = [call EXCEPT ![p] = t]
          /\ at' = [at EXCEPT ![p] = reqs[p][t]] /\ todo' = [todo EXCEPT ![p] = <<>>]
      BY <3>1 DEF Goes
    <3> QED  BY <1>2, <3>1, <3>2 DEF TypeOK
  <2>2. CASE Leaves(p)
    <3>1. pc[p] = "wait" /\ pc' = [pc EXCEPT ![p] = "leave"] /\ call' = call /\ at' = at /\ todo' = todo
      BY <2>2 DEF Leaves
    <3> QED  BY <1>2, <2>2, <3>1 DEF TypeOK
  <2> QED  BY <2>1, <2>2
<1>4. Stays
  BY <1>1, <1>2, <1>3 DEF Stays
<1>5. MovesOn(p)
  <2>1. ASSUME pc'[p] = "leave", cookie[at'[p]].owner = p  PROVE  at'[p] \in Cookies /\ busy[at'[p]] = 0
    <3>1. at'[p] = at[p] /\ at[p] \in Cookies /\ MayLeave(p)
      BY <1>3, <2>1, WorksOn DEF Leaves
    <3> QED  BY <2>1, <3>1 DEF MayLeave
  <2> QED  BY <1>2, <1>3, <2>1 DEF MovesOn, Moving
<1>6. MoverInv' /\ BoxInv' /\ ListsInv' /\ OwnerInv'
  BY <1>1, <1>4, <1>5, StaysOwned
<1>7. \A b : Movers(b)' = Movers(b) /\ Twice(b)' = Twice(b)
  <2>1. /\ \A b : Movers(b)' \ {p} = Movers(b) \ {p}
        /\ \A b : Twice(b)' \ {p} = Twice(b) \ {p}
    BY <1>1, <1>3, OthersMove
  <2>2. \A b : p \notin Movers(b) /\ p \notin Movers(b)' /\ p \notin Twice(b) /\ p \notin Twice(b)'
    BY <1>3 DEF Movers, Twice
  <2> QED  BY <2>1, <2>2, SameButOne
<1>8. BusyExact'
  <2>1. /\ \A s \in Turns : \A c \in ToSet(slots'[s].box) :
              busy'[c] = WaitsFor(program'[slots'[s].ticket], slots'[s].box, slots'[s].joined, c, cookie'[c].src,
                                  Cardinality(Movers(c)'))
        /\ \A q \in Procs : \A c \in ToSet(todo'[q]) : busy'[c] = ServedFor(program'[cookie'[c].call], cookie'[c].src)
        /\ \A q \in Procs : \A c \in pending'[q] : busy'[c] = Cardinality(Movers(c)') + Cardinality(Twice(c)')
    BY <1>1, <1>3, <1>7, ExactIs
  <2>2. DOMAIN slots' = Turns
    BY <1>1, <1>2
  <2> QED  BY <2>1, <2>2, ExactBecomes
<1>9. \A c \in Cookies : cookie'[c].err = MPI_SUCCESS
  BY <1>1 DEF BusyInv
<1> QED  BY <1>6, <1>8, <1>9 DEF BusyInv

\* A cookie that is served waits for its data, and in a scan twice unless it is rank 0's.
LEMMA ServeBusy ==
  ASSUME CollInv, BusyInv, NEW p \in Procs, Serve(p)
  PROVE  BusyInv'
<1>0. /\ TypeOK /\ BusyExact /\ MoverInv /\ BoxInv /\ ListsInv /\ OwnerInv /\ \A c \in Cookies : cookie[c].err = MPI_SUCCESS
  BY DEF CollInv, BusyInv
<1>1. /\ pc[p] = "serve" /\ MovesToPending(Head(todo[p]))
      /\ Goes(p, "deliver", call[p], Head(todo[p]), Tail(todo[p]))
  BY DEF Serve
<1>2. /\ program' = program /\ slots' = slots /\ cookie' = cookie /\ busy' = busy /\ reqs' = reqs
      /\ DOMAIN slots' = Turns
  BY <1>0 DEF Serve, cookies, TypeOK, Turns
<1>3. todo[p] # <<>> /\ todo[p] \in Seq(Cookies) /\ IsInjective(todo[p])
  BY <1>1 DEF CollInv, CallInv, TypeOK, PlacedOnce
<1>4. PICK c \in Cookies : c = Head(todo[p])
  BY <1>3, TailMembers
<1>5. /\ c \in ToSet(todo[p]) /\ ToSet(todo[p]) = ToSet(Tail(todo[p])) \cup {c} /\ c \notin ToSet(Tail(todo[p]))
  BY <1>3, <1>4, TailMembers
<1>6. PICK o \in Procs : o = cookie[c].owner
  <2>1. Known(c)
    BY <1>5, ContentsAre, PlaceTypes DEF CollInv, KnownInv
  <2> QED  BY <2>1 DEF Known
<1>7. cookie[c].src \in Procs /\ cookie[c].call = call[p]
  <2>1. Known(c)
    BY <1>5, ContentsAre, PlaceTypes DEF CollInv, KnownInv
  <2> QED  BY <1>0, <1>5, <2>1 DEF Known, ListsInv
<1>8. pending'[o] = pending[o] \cup {c} /\ \A q \in Procs : q # o => pending'[q] = pending[q]
  <2>1. pending' = [pending EXCEPT ![o] = @ \cup {c}]
    BY <1>1, <1>4, <1>6 DEF MovesToPending
  <2> QED  BY <1>0, <2>1 DEF TypeOK
<1>9. /\ pc'[p] = "deliver" /\ call'[p] = call[p] /\ at'[p] = c /\ todo'[p] = Tail(todo[p])
      /\ \A q \in Procs : q # p => pc'[q] = pc[q] /\ call'[q] = call[q] /\ at'[q] = at[q] /\ todo'[q] = todo[q]
  <2>1. /\ pc' = [pc EXCEPT ![p] = "deliver"] /\ call' = [call EXCEPT ![p] = call[p]]
        /\ at' = [at EXCEPT ![p] = c] /\ todo' = [todo EXCEPT ![p] = Tail(todo[p])]
    BY <1>1, <1>4 DEF Goes
  <2> QED  BY <1>0, <2>1 DEF TypeOK
<1>10. Movers(c) = {} /\ Twice(c) = {}
  <2>1. Movers(c) = {}
    BY <1>5, Unmoved
  <2> QED  BY <2>1 DEF Twice
<1>11. /\ \A b : Movers(b)' \ {p} = Movers(b) \ {p}
       /\ \A b : Twice(b)' \ {p} = Twice(b) \ {p}
  BY <1>2, <1>9, OthersMove
<1>12. ASSUME NEW b, b # c  PROVE  Movers(b)' = Movers(b) /\ Twice(b)' = Twice(b)
  <2>1. Movers(b)' \ {p} = Movers(b) \ {p} /\ Twice(b)' \ {p} = Twice(b) \ {p}
    BY <1>11
  <2>2. p \notin Movers(b) /\ p \notin Movers(b)' /\ p \notin Twice(b) /\ p \notin Twice(b)'
    BY <1>1, <1>9, <1>12 DEF Movers, Twice
  <2> QED  BY <2>1, <2>2, SameButOne
<1>13. busy'[c] = Cardinality(Movers(c)') + Cardinality(Twice(c)')
  <2>1. busy[c] = ServedFor(program[call[p]], cookie[c].src)
    BY <1>5, <1>7, ExactIs
  <2>2. Movers(c)' \ {p} = {} /\ Twice(c)' \ {p} = {} /\ p \in Movers(c)'
    BY <1>9, <1>10, <1>11 DEF Movers
  <2>3. Movers(c)' = {p} /\ Cardinality({p}) = 1
    BY <2>2, FS_Singleton
  <2>4. p \in Twice(c)' <=> program[call[p]].kind \in Scans /\ Rank[cookie[c].src] > 0
    BY <1>2, <1>9, <2>2 DEF Twice, MovesTwice, InScan
  <2>5. Rank[cookie[c].src] \in Nat
    BY <1>7, RankAssumption, ConstantTypes DEF N
  <2>6. Twice(c)' = IF program[call[p]].kind \in Scans /\ Rank[cookie[c].src] # 0 THEN {p} ELSE {}
    <3>1. Rank[cookie[c].src] > 0 <=> Rank[cookie[c].src] # 0
      BY <2>5
    <3> QED  BY <2>2, <2>4, <3>1
  <2>7. Cardinality(Twice(c)') = IF program[call[p]].kind \in Scans /\ Rank[cookie[c].src] # 0 THEN 1 ELSE 0
    BY <2>3, <2>6, FS_EmptySet
  <2> QED  BY <1>2, <2>1, <2>3, <2>7 DEF ServedFor
<1>14. BusyExact'
  <2>1. ASSUME NEW s \in Turns, NEW b \in ToSet(slots'[s].box)
        PROVE  busy'[b] = WaitsFor(program'[slots'[s].ticket], slots'[s].box, slots'[s].joined, b, cookie'[b].src,
                                   Cardinality(Movers(b)'))
    <3>1. b \in ToSet(slots[s].box)
      BY <1>2, <2>1
    <3>2. b # c
      <4>1. /\ <<"box", s>> \in Places /\ <<"todo", p>> \in Places /\ <<"box", s>> # <<"todo", p>>
            /\ Contents(<<"box", s>>) = ToSet(slots[s].box) /\ Contents(<<"todo", p>>) = ToSet(todo[p])
        BY PlaceTypes, ContentsAre
      <4> QED  BY <1>5, <3>1, <4>1 DEF CollInv, PlacedOnce
    <3>3. Movers(b)' = Movers(b)
      BY <1>12, <3>2
    <3> QED  BY <1>2, <3>1, <3>3, ExactIs
  <2>2. ASSUME NEW q \in Procs, NEW b \in ToSet(todo'[q])
        PROVE  busy'[b] = ServedFor(program'[cookie'[b].call], cookie'[b].src)
    <3>1. b \in ToSet(todo[q])
      BY <1>5, <1>9, <2>2
    <3> QED  BY <1>2, <3>1, ExactIs
  <2>3. ASSUME NEW q \in Procs, NEW b \in pending'[q]
        PROVE  busy'[b] = Cardinality(Movers(b)') + Cardinality(Twice(b)')
    <3>1. CASE b = c
      BY <1>13, <3>1
    <3>2. CASE b # c
      <4>1. b \in pending[q]
        BY <1>8, <2>3, <3>2
      <4> QED  BY <1>2, <1>12, <3>2, <4>1, ExactIs
    <3> QED  BY <3>1, <3>2
  <2> QED  BY <1>2, <2>1, <2>2, <2>3, ExactBecomes
<1>15. MoverInv'
  <2> SUFFICES ASSUME NEW q \in Procs, pc'[q] \in Moving
               PROVE  /\ cookie'[at'[q]].call = call'[q]
                      /\ at'[q] \in pending'[cookie'[at'[q]].owner] \/ RootsCookie(call[q] % NSlots, at[q])'
    BY DEF MoverInv
  <2>1. CASE q = p
    BY <1>2, <1>6, <1>7, <1>8, <1>9, <2>1
  <2>2. CASE q # p
    <3>1. pc[q] \in Moving /\ at'[q] = at[q] /\ call'[q] = call[q]
      BY <1>9, <2>2
    <3>2. /\ cookie[at[q]].call = call[q] /\ cookie[at[q]].owner \in Procs
          /\ at[q] \in pending[cookie[at[q]].owner] \/ RootsCookie(call[q] % NSlots, at[q])
      BY <1>0, <3>1, WorksOn DEF MoverInv, Moving
    <3>3. RootsCookie(call[q] % NSlots, at[q]) => RootsCookie(call[q] % NSlots, at[q])'
      BY <1>2, <3>1 DEF RootsCookie
    <3> QED  BY <1>2, <1>8, <3>1, <3>2, <3>3
  <2> QED  BY <2>1, <2>2
<1>16. BoxInv'
  BY <1>0, <1>2 DEF BoxInv
<1>17. ListsInv'
  <2>1. ASSUME NEW q \in Procs, NEW b \in ToSet(todo'[q])  PROVE  cookie'[b].call = call'[q]
    <3>1. b \in ToSet(todo[q]) /\ call'[q] = call[q]
      BY <1>5, <1>9, <2>1
    <3> QED  BY <1>0, <1>2, <3>1 DEF ListsInv
  <2>2. ASSUME NEW q \in Procs, NEW b \in pending'[q]  PROVE  cookie'[b].owner = q
    BY <1>0, <1>2, <1>6, <1>8, <2>2 DEF ListsInv
  <2> QED  BY <2>1, <2>2 DEF ListsInv
<1>18. OwnerInv'
  <2>1. ASSUME NEW b, InUse(b)'  PROVE  InUse(b)
    <3>1. /\ \A q \in Procs : b \in pending'[q] => b \in pending[q] \/ b \in ToSet(todo[p])
          /\ \A q \in Procs : b \in ToSet(todo'[q]) => b \in ToSet(todo[q])
      BY <1>5, <1>8, <1>9
    <3> QED  BY <1>2, <2>1, <3>1, InUseIs
  <2> QED  BY <1>0, <1>2, <1>9, <2>1 DEF OwnerInv
<1> QED  BY <1>0, <1>2, <1>14, <1>15, <1>16, <1>17, <1>18 DEF BusyInv

\* The process that joins a root's cookie goes on to move data. The last one to join makes
\* the cookie pending: then it waits for those that have joined and nobody else.
LEMMA JoinStoresBusy ==
  ASSUME CollInv, BusyInv, NEW p \in Procs, JoinStores(p)
  PROVE  BusyInv'
<1>0. /\ TypeOK /\ JoinInv /\ RingInv
      /\ BusyExact /\ MoverInv /\ BoxInv /\ ListsInv /\ OwnerInv /\ \A c \in Cookies : cookie[c].err = MPI_SUCCESS
  BY DEF CollInv, BusyInv
<1>1. pc[p] = "join" /\ pc' = [pc EXCEPT ![p] = "deliver"] /\ Holds(p, call[p], at[p])
  BY DEF JoinStores
<1>2. program' = program /\ cookie' = cookie /\ busy' = busy /\ call' = call /\ at' = at /\ todo' = todo
  BY DEF JoinStores
<1>3. PICK c \in Cookies, o \in Procs, t \in Calls, s \in Turns :
        c = at[p] /\ o = cookie[c].owner /\ t = call[p] /\ s = call[p] % NSlots
  BY <1>1, WorksOn
<1>4. /\ slots[s].box # <<>> /\ Head(slots[s].box) = c /\ slots[s].ticket = t
      /\ slots[s].box \in Seq(Cookies) /\ c \in ToSet(slots[s].box) /\ reqs[p][t] = NoCookie
  <2>1. slots[s].box # <<>> /\ Head(slots[s].box) = c /\ slots[s].ticket = t
    BY <1>0, <1>1, <1>3 DEF JoinInv
  <2>2. reqs[p][t] = NoCookie
    BY <1>1, <1>3 DEF CollInv, CallInv
  <2> QED  BY <1>0, <2>1, <2>2, SlotTypes, TailMembers
<1>5. RootsCookie(s, c) /\ cookie[c].call = t
  <2>1. cookie[c].call = t /\ (c \in pending[o] \/ RootsCookie(s, c))
    BY <1>0, <1>1, <1>3 DEF MoverInv, Moving
  <2>2. c \notin pending[o]
    <3>1. /\ <<"box", s>> \in Places /\ <<"pending", o>> \in Places /\ <<"box", s>> # <<"pending", o>>
          /\ Contents(<<"box", s>>) = ToSet(slots[s].box) /\ Contents(<<"pending", o>>) = pending[o]
      BY PlaceTypes, ContentsAre
    <3> QED  BY <1>4, <3>1 DEF CollInv, PlacedOnce
  <2> QED  BY <2>1, <2>2
<1>6. slots[s].box = <<c>> /\ program[t].kind \in Rooted /\ cookie[c].src = program[t].root /\ program[t].kind \notin Scans
  BY <1>4, <1>5 DEF RootsCookie, Rooted, Scans
<1>7. pc'[p] = "deliver" /\ \A q \in Procs : q # p => pc'[q] = pc[q]
  BY <1>0, <1>1 DEF TypeOK
<1>8. \A b : Movers(b)' = Movers(b)
  BY <1>1, <1>2, <1>7 DEF Movers
<1>9. \A b : Twice(b)' = Twice(b)
  <2>1. \A b : Twice(b)' \ {p} = Twice(b) \ {p}
    BY <1>2, <1>7, OthersMove
  <2>2. \A b : p \notin Twice(b) /\ p \notin Twice(b)'
    BY <1>1, <1>2, <1>3, <1>6 DEF Twice, MovesTwice, InScan
  <2> QED  BY <2>1, <2>2, SameButOne
<1>10. Twice(c) = {}
  BY <1>5, <1>6, NotTwice
<1>11. busy[c] = N - slots[s].joined + Cardinality(Movers(c))
  <2>1. busy[c] = WaitsFor(program[t], slots[s].box, slots[s].joined, c, cookie[c].src, Cardinality(Movers(c)))
    BY <1>4, ExactIs
  <2> QED  BY <1>4, <1>6, <2>1, WaitsForIs
<1>12. PICK left \in Seq(Cookies) :
         /\ slots'[s].box = left /\ slots'[s].ticket = slots[s].ticket /\ slots'[s].joined = slots[s].joined
         /\ DOMAIN slots' = Turns /\ \A u \in Turns : u # s => slots'[u] = slots[u]
         /\ \/ /\ slots[s].joined = N /\ left = <<>>
               /\ pending'[o] = pending[o] \cup {c} /\ \A q \in Procs : q # o => pending'[q] = pending[q]
            \/ left = <<c>> /\ pending' = pending
  <2>1. /\ slots[s] \in SlotRecords /\ slots \in [Turns -> SlotRecords] /\ Tail(<<c>>) = <<>>
        /\ <<>> \in Seq(Cookies) /\ <<c>> \in Seq(Cookies) /\ pending \in [Procs -> SUBSET Cookies]
    <3>1. slots[s] \in SlotRecords
      BY <1>0, SlotTypes
    <3>2. slots \in [Turns -> SlotRecords] /\ pending \in [Procs -> SUBSET Cookies]
      BY <1>0 DEF TypeOK, Turns
    <3>3. Tail(<<c>>) = <<>> /\ <<c>> \in Seq(Cookies) /\ <<>> \in Seq(Cookies)
      OBVIOUS
    <3> QED  BY <3>1, <3>2, <3>3
  <2>2. CASE slots[s].joined = N
    <3>1. PICK slot : slot = [slots[s] EXCEPT !.box = <<>>, !.locked = FALSE]
      OBVIOUS
    <3>2. slots' = [slots EXCEPT ![s] = slot] /\ pending' = [pending EXCEPT ![o] = @ \cup {c}]
      BY <1>3, <1>6, <2>1, <2>2, <3>1 DEF JoinStores, Removed, MovesToPending
    <3>3. slot.box = <<>> /\ slot.ticket = slots[s].ticket /\ slot.joined = slots[s].joined
      BY <2>1, <3>1 DEF SlotRecords
    <3> QED  BY <2>1, <2>2, <3>2, <3>3
  <2>3. CASE slots[s].joined # N
    <3>1. PICK slot : slot = [slots[s] EXCEPT !.locked = FALSE]
      OBVIOUS
    <3>2. slots' = [slots EXCEPT ![s] = slot] /\ pending' = pending
      BY <1>3, <2>1, <2>3, <3>1 DEF JoinStores
    <3>3. slot.box = <<c>> /\ slot.ticket = slots[s].ticket /\ slot.joined = slots[s].joined
      BY <1>6, <2>1, <3>1 DEF SlotRecords
    <3> QED  BY <2>1, <3>2, <3>3
  <2> QED  BY <2>2, <2>3
<1>13. BusyExact'
  <2>1. ASSUME NEW u \in Turns, NEW b \in ToSet(slots'[u].box)
        PROVE  busy'[b] = WaitsFor(program'[slots'[u].ticket], slots'[u].box, slots'[u].joined, b, cookie'[b].src,
                                   Cardinality(Movers(b)'))
    <3>1. slots'[u].box = slots[u].box /\ slots'[u].ticket = slots[u].ticket /\ slots'[u].joined = slots[u].joined
      <4>1. CASE u = s
        <5>1. slots'[s].box # <<>>
          BY <2>1, <4>1 DEF ToSet
        <5> QED  BY <1>6, <1>12, <4>1, <5>1
      <4>2. CASE u # s
        BY <1>12, <4>2
      <4> QED  BY <4>1, <4>2
    <3>2. Movers(b)' = Movers(b)
      BY <1>8
    <3> QED  BY <1>2, <2>1, <3>1, <3>2, ExactIs
  <2>2. \A q \in Procs : \A b \in ToSet(todo'[q]) : busy'[b] = ServedFor(program'[cookie'[b].call], cookie'[b].src)
    BY <1>2, ExactIs
  <2>3. ASSUME NEW q \in Procs, NEW b \in pending'[q]
        PROVE  busy'[b] = Cardinality(Movers(b)') + Cardinality(Twice(b)')
    <3>1. CASE b \in pending[q]
      BY <1>2, <1>8, <1>9, <3>1, ExactIs
    <3>2. CASE b \notin pending[q]
      <4>1. b = c /\ slots[s].joined = N
        BY <1>12, <2>3, <3>2
      <4>2. busy[c] = N - N + Cardinality(Movers(c))
        BY <1>11, <4>1
      <4>3. Cardinality(Movers(c)) \in Nat /\ Cardinality(Twice(c)) = 0
        BY <1>10, MoversAre, FS_EmptySet
      <4>4. busy[c] = Cardinality(Movers(c)) + Cardinality(Twice(c))
        BY <4>2, <4>3, ConstantTypes
      <4> QED  BY <1>2, <1>8, <1>9, <4>1, <4>4
    <3> QED  BY <3>1, <3>2
  <2> QED  BY <1>12, <2>1, <2>2, <2>3, ExactBecomes
<1>14. MoverInv'
  <2> SUFFICES ASSUME NEW q \in Procs, pc'[q] \in Moving
               PROVE  /\ cookie'[at'[q]].call = call'[q]
                      /\ at'[q] \in pending'[cookie'[at'[q]].owner] \/ RootsCookie(call[q] % NSlots, at[q])'
    BY DEF MoverInv
  <2>1. pc[q] \in Moving
    BY <1>1, <1>7 DEF Moving
  <2>2. PICK d \in Cookies, u \in Turns, r \in Procs : d = at[q] /\ u = call[q] % NSlots /\ r = cookie[d].owner
    BY <2>1, WorksOn DEF Moving
  <2>3. cookie[d].call = call[q] /\ (d \in pending[r] \/ RootsCookie(u, d))
    BY <1>0, <2>1, <2>2 DEF MoverInv
  <2>4. d \in pending'[r] \/ RootsCookie(u, d)'
    <3>1. CASE d \in pending[r]
      <4>1. pending[r] \subseteq pending'[r]
        BY <1>12
      <4> QED  BY <3>1, <4>1
    <3>2. CASE RootsCookie(u, d) /\ u # s
      BY <1>2, <1>12, <3>2 DEF RootsCookie
    <3>3. CASE RootsCookie(u, d) /\ u = s
      <4>1. d = c
        BY <1>6, <3>3 DEF RootsCookie
      <4>2. CASE slots'[s].box = <<c>>
        BY <1>2, <1>4, <1>6, <1>12, <3>3, <4>1, <4>2 DEF RootsCookie
      <4>3. CASE slots'[s].box # <<c>>
        BY <1>3, <1>12, <2>2, <4>1, <4>3
      <4> QED  BY <4>2, <4>3
    <3> QED  BY <2>3, <3>1, <3>2, <3>3
  <2>5. RootsCookie(u, d)' => RootsCookie(call[q] % NSlots, at[q])'
    BY <1>2, <2>2 DEF RootsCookie
  <2> QED  BY <1>2, <2>2, <2>3, <2>4, <2>5
<1>15. BoxInv'
  <2> SUFFICES ASSUME NEW u \in Turns, slots'[u].box # <<>>
               PROVE  LET op == program[slots[u].ticket] IN
                      /\ slots'[u].ticket = slots[u].ticket
                      /\ op.kind \in Rooted => \A b \in ToSet(slots'[u].box) : cookie[b].src = op.root => slots'[u].box = <<b>>
                      /\ op.kind = "allreduce" => Len(slots'[u].box) = slots'[u].joined
    BY <1>2 DEF BoxInv
  <2>1. slots'[u].box = slots[u].box /\ slots'[u].ticket = slots[u].ticket /\ slots'[u].joined = slots[u].joined
    BY <1>6, <1>12
  <2>2. slots[u].box # <<>>
    BY <2>1
  <2> QED  BY <1>0, <2>1, <2>2 DEF BoxInv
<1>16. ListsInv'
  BY <1>0, <1>2, <1>3, <1>12 DEF ListsInv
<1>17. OwnerInv'
  <2>1. ASSUME NEW b, InUse(b)'  PROVE  InUse(b)
    <3>1. \A u \in Turns : b \in ToSet(slots'[u].box) => b \in ToSet(slots[u].box)
      BY <1>6, <1>12, EmptyList
    <3>2. \A q \in Procs : b \in pending'[q] => b \in pending[q] \/ b \in ToSet(slots[s].box)
      BY <1>4, <1>12
    <3> QED  BY <1>2, <2>1, <3>1, <3>2, InUseIs
  <2>2. ASSUME NEW b \in Cookies, InUse(b)', busy'[b] > 0
        PROVE  reqs'[cookie'[b].owner][cookie'[b].call] = b
    <3>1. reqs[cookie[b].owner][cookie[b].call] = b
      BY <1>0, <1>2, <2>1, <2>2 DEF OwnerInv
    <3>2. cookie[b].owner \in Procs /\ cookie[b].call \in Calls
      <4>1. InUse(b)
        BY <2>1, <2>2
      <4>2. Known(b)
        BY <4>1 DEF InUse, CollInv, KnownInv
      <4> QED  BY <4>2 DEF Known
    <3>3. PICK r \in Procs, u \in Calls : r = cookie[b].owner /\ u = cookie[b].call
      BY <3>2
    <3>4. reqs[r][u] = b /\ b # NoCookie
      BY <3>1, <3>3, ConstantTypes
    <3>5. /\ \A q \in Procs : q # p => reqs'[q] = reqs[q]
          /\ \A v \in Calls : reqs'[p][v] = IF v = t THEN c ELSE reqs[p][v]
      BY <1>0, <1>1, <1>3, HoldsIs
    <3>6. reqs'[r][u] = b
      BY <1>4, <3>4, <3>5
    <3> QED  BY <1>2, <3>3, <3>6
  <2>3. ASSUME NEW q \in Procs, pc'[q] = "leave", cookie'[at'[q]].owner = q  PROVE  busy'[at'[q]] = 0
    <3>1. pc[q] = "leave"
      BY <1>7, <2>3
    <3> QED  BY <1>0, <1>2, <2>3, <3>1 DEF OwnerInv
  <2> QED  BY <2>2, <2>3 DEF OwnerInv
<1> QED  BY <1>0, <1>2, <1>13, <1>14, <1>15, <1>16, <1>17 DEF BusyInv

\* A cookie somebody's data is moved for is still its owner's, so that nobody who leaves
\* recycles it.
LEMMA LeaveBusy ==
  ASSUME CollInv, BusyInv, CountInv', NEW p \in Procs, Leave(p)
  PROVE  BusyInv'
<1>0. /\ TypeOK
      /\ BusyExact /\ MoverInv /\ BoxInv /\ ListsInv /\ OwnerInv /\ \A c \in Cookies : cookie[c].err = MPI_SUCCESS
  BY DEF CollInv, BusyInv
<1>1. pc[p] = "leave" /\ Holds(p, call[p], NoCookie) /\ Returns(p)
  BY DEF Leave
<1>2. /\ program' = program /\ slots' = slots /\ cookie' = cookie /\ busy' = busy /\ lost' = lost
      /\ DOMAIN slots' = Turns
  BY <1>0 DEF Leave, TypeOK, Turns
<1>3. PICK c \in Cookies, o \in Procs, t \in Calls : c = at[p] /\ o = cookie[c].owner /\ t = call[p]
  BY <1>1, WorksOn
<1>4. reqs[p][t] = c /\ todo[p] = <<>>
  BY <1>1, <1>3 DEF CollInv, CallInv
<1>5. /\ pc'[p] = "idle" /\ todo' = todo
      /\ \A q \in Procs : q # p => pc'[q] = pc[q] /\ call'[q] = call[q] /\ at'[q] = at[q]
  <2>1. /\ pc' = [pc EXCEPT ![p] = "idle"] /\ call' = [call EXCEPT ![p] = 0]
        /\ at' = [at EXCEPT ![p] = NoCookie] /\ todo' = [todo EXCEPT ![p] = <<>>]
    BY <1>1 DEF Returns, Goes
  <2> QED  BY <1>0, <1>4, <2>1 DEF TypeOK
<1>6. PICK unused : unused = Unused(o)
  OBVIOUS
<1>7. /\ \A b \in unused : used'[b] = 0
      /\ pending'[o] = pending[o] \ unused /\ \A q \in Procs : q # o => pending'[q] = pending[q]
  <2>1. pending' = [pending EXCEPT ![o] = @ \ unused]
    BY <1>3, <1>6 DEF Leave
  <2> QED  BY <1>0, <1>6, <2>1 DEF TypeOK, Unused
<1>8. \A b : Movers(b)' = Movers(b) /\ Twice(b)' = Twice(b)
  <2>1. /\ \A b : Movers(b)' \ {p} = Movers(b) \ {p}
        /\ \A b : Twice(b)' \ {p} = Twice(b) \ {p}
    BY <1>2, <1>5, OthersMove
  <2>2. \A b : p \notin Movers(b) /\ p \notin Movers(b)' /\ p \notin Twice(b) /\ p \notin Twice(b)'
    BY <1>1, <1>5 DEF Movers, Twice
  <2> QED  BY <2>1, <2>2, SameButOne
<1>9. ASSUME NEW b \in Cookies, InUse(b), busy[b] > 0
      PROVE  reqs'[cookie[b].owner][cookie[b].call] = b /\ used'[b] # 0
  <2>1. Known(b)
    BY <1>9 DEF InUse, CollInv, KnownInv
  <2>2. PICK r \in Procs, u \in Calls : r = cookie[b].owner /\ u = cookie[b].call
    BY <2>1 DEF Known
  <2>3. reqs[r][u] = b
    BY <1>0, <1>9, <2>2 DEF OwnerInv
  <2>4. ~(r = p /\ u = t)
    <3>1. ASSUME r = p, u = t  PROVE  FALSE
      <4>1. b = c /\ cookie[at[p]].owner = p
        BY <1>3, <1>4, <2>2, <2>3, <3>1
      <4>2. busy[b] = 0
        BY <1>0, <1>1, <1>3, <4>1 DEF OwnerInv
      <4> QED  BY <1>9, <4>2
    <3> QED  BY <3>1
  <2>5. reqs'[r][u] = b
    <3>1. Holds(p, t, NoCookie) /\ NoCookie \in Cookies \cup {NoCookie}
      BY <1>1, <1>3
    <3>2. /\ \A q \in Procs : q # p => reqs'[q] = reqs[q]
          /\ \A v \in Calls : reqs'[p][v] = IF v = t THEN NoCookie ELSE reqs[p][v]
      BY <1>0, <3>1, HoldsIs
    <3> QED  BY <2>3, <2>4, <3>2
  <2>6. used'[b] # 0
    <3>1. used'[b] = Cardinality(Refs(b)') + lost'[b] /\ lost'[b] = 0
      BY DEF CountInv, RefCount
    <3>2. <<r, u>> \in Refs(b)'
      BY <2>5 DEF Refs
    <3>3. IsFiniteSet(Refs(b)') /\ Cardinality(Refs(b)') \in Nat
      <4>1. IsFiniteSet(Calls)
        BY ConstantTypes, FS_Interval DEF Calls
      <4>2. IsFiniteSet(Procs \X Calls)
        BY <4>1, ConstantTypes, FS_Product
      <4>3. Refs(b)' \subseteq Procs \X Calls
        BY DEF Refs
      <4> QED  BY <4>2, <4>3, FS_Subset, FS_CardinalityType
    <3>4. Cardinality(Refs(b)') # 0
      BY <3>2, <3>3, FS_EmptySet
    <3> QED  BY <3>1, <3>3, <3>4
  <2> QED  BY <2>2, <2>5, <2>6
<1>10. BusyExact'
  <2>1. \A s \in Turns : \A b \in ToSet(slots'[s].box) :
          busy'[b] = WaitsFor(program'[slots'[s].ticket], slots'[s].box, slots'[s].joined, b, cookie'[b].src,
                              Cardinality(Movers(b)'))
    BY <1>2, <1>8, ExactIs
  <2>2. \A q \in Procs : \A b \in ToSet(todo'[q]) : busy'[b] = ServedFor(program'[cookie'[b].call], cookie'[b].src)
    BY <1>2, <1>5, ExactIs
  <2>3. \A q \in Procs : \A b \in pending'[q] : busy'[b] = Cardinality(Movers(b)') + Cardinality(Twice(b)')
    BY <1>2, <1>7, <1>8, ExactIs
  <2> QED  BY <1>2, <2>1, <2>2, <2>3, ExactBecomes
<1>11. MoverInv'
  <2> SUFFICES ASSUME NEW q \in Procs, pc'[q] \in Moving
               PROVE  /\ cookie'[at'[q]].call = call'[q]
                      /\ at'[q] \in pending'[cookie'[at'[q]].owner] \/ RootsCookie(call[q] % NSlots, at[q])'
    BY DEF MoverInv
  <2>1. q # p /\ pc[q] \in Moving /\ at'[q] = at[q] /\ call'[q] = call[q]
    BY <1>5 DEF Moving
  <2>2. PICK d \in Cookies, u \in Turns, r \in Procs : d = at[q] /\ u = call[q] % NSlots /\ r = cookie[d].owner
    BY <2>1, WorksOn DEF Moving
  <2>3. cookie[d].call = call[q] /\ (d \in pending[r] \/ RootsCookie(u, d))
    BY <1>0, <2>1, <2>2 DEF MoverInv
  <2>4. InUse(d) /\ busy[d] > 0
    BY <2>1, <2>2, MoversPlaced, MoverBusy
  <2>5. d \notin unused
    BY <1>7, <1>9, <2>4
  <2>6. d \in pending[r] => d \in pending'[r]
    BY <1>7, <2>5
  <2>7. RootsCookie(u, d) => RootsCookie(call[q] % NSlots, at[q])'
    BY <1>2, <2>1, <2>2 DEF RootsCookie
  <2> QED  BY <1>2, <2>1, <2>2, <2>3, <2>6, <2>7
<1>12. BoxInv'
  BY <1>0, <1>2 DEF BoxInv
<1>13. ListsInv'
  <2>1. ASSUME NEW q \in Procs, NEW b \in ToSet(todo'[q])  PROVE  cookie'[b].call = call'[q]
    <3>1. b \in ToSet(todo[q]) /\ q # p
      BY <1>4, <1>5, <2>1, EmptyList
    <3> QED  BY <1>0, <1>2, <1>5, <3>1 DEF ListsInv
  <2>2. \A q \in Procs : \A b \in pending'[q] : cookie'[b].owner = q
    BY <1>0, <1>2, <1>7 DEF ListsInv
  <2> QED  BY <2>1, <2>2 DEF ListsInv
<1>14. OwnerInv'
  <2>1. ASSUME NEW b, InUse(b)'  PROVE  InUse(b)
    <3>1. \A q \in Procs : pending'[q] \subseteq pending[q]
      BY <1>7
    <3> QED  BY <1>2, <1>5, <2>1, <3>1, InUseIs
  <2>2. ASSUME NEW q \in Procs, pc'[q] = "leave", cookie'[at'[q]].owner = q  PROVE  busy'[at'[q]] = 0
    <3>1. q # p /\ pc[q] = "leave" /\ at'[q] = at[q]
      BY <1>5, <2>2
    <3> QED  BY <1>0, <1>2, <2>2, <3>1 DEF OwnerInv
  <2> QED  BY <1>2, <1>9, <2>1, <2>2 DEF OwnerInv
<1> QED  BY <1>0, <1>2, <1>10, <1>11, <1>12, <1>13, <1>14 DEF BusyInv

\* A step that leaves what busy_ depends on as it was.
LEMMA StillBusy ==
  ASSUME CollInv, BusyInv, UNCHANGED <<program, slots, lists, cookies, calls, reqs>>
  PROVE  BusyInv'
<1>1. /\ program' = program /\ slots' = slots /\ pending' = pending /\ free' = free /\ cookie' = cookie
      /\ busy' = busy /\ pc' = pc /\ call' = call /\ at' = at /\ todo' = todo /\ reqs' = reqs
  BY DEF lists, cookies, calls
<1>2. DOMAIN slots' = Turns
  BY <1>1 DEF CollInv, TypeOK, Turns
<1>3. \A b : Movers(b)' = Movers(b) /\ Twice(b)' = Twice(b)
  BY <1>1 DEF Movers, Twice, MovesTwice, InScan
<1>4. BusyExact'
  <2>1. /\ \A s \in Turns : \A b \in ToSet(slots'[s].box) :
              busy'[b] = WaitsFor(program'[slots'[s].ticket], slots'[s].box, slots'[s].joined, b, cookie'[b].src,
                                  Cardinality(Movers(b)'))
        /\ \A q \in Procs : \A b \in ToSet(todo'[q]) : busy'[b] = ServedFor(program'[cookie'[b].call], cookie'[b].src)
        /\ \A q \in Procs : \A b \in pending'[q] : busy'[b] = Cardinality(Movers(b)') + Cardinality(Twice(b)')
    BY <1>1, <1>3, ExactIs
  <2> QED  BY <1>2, <2>1, ExactBecomes
<1>5. MoverInv' /\ BoxInv' /\ ListsInv'
  <2>1. MoverInv'
    <3>1. MoverInv
      BY DEF BusyInv
    <3>2. \A q : RootsCookie(call[q] % NSlots, at[q]) => RootsCookie(call[q] % NSlots, at[q])'
      BY <1>1 DEF RootsCookie
    <3> QED  BY <1>1, <3>1, <3>2 DEF MoverInv
  <2>2. BoxInv'
    BY <1>1 DEF BusyInv, BoxInv
  <2>3. ListsInv'
    BY <1>1 DEF BusyInv, ListsInv
  <2> QED  BY <2>1, <2>2, <2>3
<1>6. OwnerInv'
  <2>1. \A b : InUse(b)' => InUse(b)
    BY <1>1, InUseIs
  <2> QED  BY <1>1, <2>1 DEF BusyInv, OwnerInv
<1> QED  BY <1>1, <1>4, <1>5, <1>6 DEF BusyInv

-----------------------------------------------------------------------------
(* The invariant holds                                                     *)

LEMMA InitColl ==
  ASSUME Init
  PROVE  CollInv
<1>1. /\ program \in [Calls -> Operations]
      /\ slots = [s \in 0..(NSlots - 1) |->
                    [ticket |-> 0, joined |-> 0, box |-> <<>>, locked |-> FALSE, displs |-> 0,
                     sendbuf |-> {}, recvbuf |-> {}]]
      /\ cookie = [c \in Cookies |-> [owner |-> Nobody, src |-> Nobody, err |-> MPI_SUCCESS, call |-> 0]]
  BY ProgramsAssumption DEF Init
<1>2. /\ pending = [p \in Procs |-> {}] /\ free = [p \in Procs |-> {}]
      /\ ticket = [p \in Procs |-> 0] /\ pc = [p \in Procs |-> "idle"]
      /\ at = [p \in Procs |-> NoCookie] /\ todo = [p \in Procs |-> <<>>]
      /\ reqs = [p \in Procs |-> [t \in Calls |-> NoCookie]]
  BY DEF Init
<1>3. \A s \in Turns : slots[s].box = <<>>
  BY <1>1 DEF Turns
<1>4. slots \in [0..(NSlots - 1) -> SlotRecords]
  <2>1. 0 \in 0..N /\ {} \in Data
    BY ConstantTypes DEF Data
  <2> QED  BY <1>1, <2>1, EmptyList DEF SlotRecords
<1>5. cookie \in [Cookies -> CookieRecords]
  <2>1. [owner |-> Nobody, src |-> Nobody, err |-> MPI_SUCCESS, call |-> 0] \in CookieRecords
    BY DEF CookieRecords, MPI_SUCCESS
  <2> QED  BY <1>1, <2>1
<1>6. ticket \in [Procs -> 0..MaxCalls]
  <2>1. 0 \in 0..MaxCalls
    BY ConstantTypes
  <2> QED  BY <1>2, <2>1
<1>7. /\ buf \in [Procs -> [Calls -> Data]] /\ lost \in [Cookies -> Nat] /\ used \in [Cookies -> Int]
      /\ busy \in [Cookies -> Int] /\ call \in [Procs -> Nat] /\ seen \in [Procs -> Int] /\ exited \in BOOLEAN
  <2>1. buf \in [Procs -> [Calls -> Data]]
    <3>1. {} \in Data /\ buf = [p \in Procs |-> [t \in Calls |-> {}]]
      BY DEF Init, Data
    <3> QED  BY <3>1
  <2>2. lost \in [Cookies -> Nat] /\ used \in [Cookies -> Int] /\ busy \in [Cookies -> Int]
    BY DEF Init
  <2>3. call \in [Procs -> Nat] /\ seen \in [Procs -> Int]
    BY DEF Init
  <2>4. exited = FALSE
    BY DEF Init
  <2>5. exited \in BOOLEAN
    BY <2>4
  <2> QED  BY <2>1, <2>2, <2>3, <2>5
<1>8. TypeOK
  BY <1>1, <1>2, <1>4, <1>5, <1>6, <1>7, EmptyList DEF TypeOK
<1>9. \A x \in Places : Contents(x) = {}
  BY <1>2, <1>3, EmptyList, PlaceTypes, ContentsAre
<1>10. PlacedOnce
  BY <1>2, <1>3, <1>9, EmptyList DEF PlacedOnce
<1>11. KnownInv
  BY <1>2, <1>9 DEF KnownInv
<1>12. CallInv /\ JoinInv
  BY <1>2 DEF CallInv, JoinInv
<1>13. RingInv
  <2>1. DOMAIN slots = Turns
    BY <1>1 DEF Turns
  <2>2. SlotMatchesCall
    BY <1>3, <2>1 DEF SlotMatchesCall
  <2>3. \A t \in Calls : \A p, q \in Procs : ~(ticket[p] <= t /\ t < ticket[q])
    BY <1>2, CallsAre
  <2> QED  BY <1>3, <2>2, <2>3, EmptyList DEF RingInv
<1> QED  BY <1>8, <1>10, <1>11, <1>12, <1>13 DEF CollInv

LEMMA StepKeeps ==
  ASSUME CollInv, [Next]_vars
  PROVE  CollInv'
<1>1. CASE UNCHANGED vars
  <2>1. exited' \in BOOLEAN
    BY <1>1 DEF vars, CollInv, TypeOK
  <2> QED  BY <1>1, <2>1, StaysKeeps DEF vars
<1>2. ASSUME NEW p \in Procs, Step(p)  PROVE  CollInv'
  <2>1. CASE Enter(p)
    BY <2>1, LeafJoinsKeeps, LeafPostsKeeps, RootPostsKeeps, RootLastKeeps, ExchangeFirstKeeps,
       ExchangeMiddleKeeps, ExchangeLastKeeps, ExchangeFailsKeeps, InplacePostsKeeps, InplaceLastKeeps,
       ScanPostsKeeps, ScanRejectsKeeps, ExitsKeeps DEF Enter, Keeps
  <2>2. CASE ~Enter(p)
    BY <1>2, <2>2, JoinStoresKeeps, ServeKeeps, DeliverKeeps, DeliverFailsKeeps, ScanReadsKeeps,
       ScanWritesKeeps, WaitKeeps, LeavesKeeps, LeaveKeeps DEF Step
  <2> QED  BY <2>1, <2>2
<1> QED  BY <1>1, <1>2 DEF Next

\* Whatever the processes call, and in which order they come, wherever one of them is in
\* the library, the ring of slots and the lists are as CollInv says.
THEOREM CollInvCorrect == Spec => []CollInv
<1>1. Init => CollInv
  BY InitColl
<1>2. CollInv /\ [Next]_vars => CollInv'
  BY StepKeeps
<1> QED  BY <1>1, <1>2, PTL DEF Spec

\* The fields of the slots, the cookies and the processes' local variables have their
\* types: ticket_ counts up, joined_ never exceeds the number of processes (the ring of
\* struct shared).
THEOREM CollTypeCorrect == Spec => []TypeOK
<1>1. CollInv => TypeOK
  BY DEF CollInv
<1> QED  BY <1>1, CollInvCorrect, PTL

\* shared::get_current_slot gives a slot to the next call that uses it only when every
\* process has made the call before: the cookies in a slot are those of one call, and
\* joined_ counts those that have made it.
THEOREM SlotMatchesCallCorrect == Spec => []SlotMatchesCall
<1>1. CollInv => SlotMatchesCall
  BY DEF CollInv, RingInv
<1> QED  BY <1>1, CollInvCorrect, PTL

\* A cookie goes through a slot's box_, the todo list of the process that serves it, and
\* its owner's pending and free lists, by std::list::splice under different mutexes. It is
\* never in two of them, and never twice in one.
THEOREM PlacedOnceCorrect == Spec => []PlacedOnce
<1>1. CollInv => PlacedOnce
  BY DEF CollInv
<1> QED  BY <1>1, CollInvCorrect, PTL

LEMMA InitCounts ==
  ASSUME Init
  PROVE  CountInv
<1>1. /\ used = [c \in Cookies |-> 0] /\ lost = [c \in Cookies |-> 0]
      /\ \A p \in Procs, t \in Calls : reqs[p][t] = NoCookie
  BY DEF Init
<1>2. \A c \in Cookies : Refs(c) = {}
  BY <1>1, ConstantTypes DEF Refs
<1>3. RefCount
  <2>1. \A c \in Cookies : Cardinality(Refs(c)) = 0
    BY <1>2, FS_EmptySet
  <2> QED  BY <1>1, <2>1 DEF RefCount
<1> QED  BY <1>1, <1>3 DEF CountInv

LEMMA StepCounts ==
  ASSUME AtomicCounts, MPI_FAIL \notin Outcomes, CollInv, CountInv, [Next]_vars
  PROVE  CountInv'
<1>1. CASE UNCHANGED vars
  <2>1. used' = used /\ reqs' = reqs /\ lost' = lost /\ pending' = pending /\ todo' = todo /\ slots' = slots
    BY <1>1 DEF vars, lists, cookies, calls
  <2> QED  BY <2>1, InUseTheSame, CountsTheSame
<1>2. ASSUME NEW p \in Procs, Step(p)  PROVE  CountInv'
  <2>1. CASE Exits(p)
    <3>1. used' = used /\ reqs' = reqs /\ lost' = lost /\ pending' = pending /\ todo' = todo /\ slots' = slots
      BY <2>1 DEF Exits, lists, cookies, calls
    <3> QED  BY <3>1, InUseTheSame, CountsTheSame
  <2>2. CASE Enter(p) /\ ~Exits(p)
    BY <2>2, LeafJoinsKeeps, LeafPostsKeeps, RootPostsKeeps, RootLastKeeps, ExchangeFirstKeeps,
       ExchangeMiddleKeeps, ExchangeLastKeeps, ExchangeFailsKeeps, InplacePostsKeeps, InplaceLastKeeps,
       ScanPostsKeeps, ScanRejectsKeeps DEF Enter, Keeps
  <2>3. ~DeliverFails(p)
    BY DEF DeliverFails
  <2>4. CASE ~Enter(p)
    BY <1>2, <2>3, <2>4, JoinStoresCounts, ServeCounts, MovesCount, WaitsCount, LeaveCounts DEF Step
  <2> QED  BY <2>1, <2>2, <2>4
<1> QED  BY <1>1, <1>2 DEF Next

\* As long as no transfer fails and ++ and -- of used_ are atomic, used_ is the number of
\* requests that share the cookie (cookie::join and process::finalize), whichever of them
\* is completed first.
THEOREM RefCountCorrect ==
  ASSUME AtomicCounts, MPI_FAIL \notin Outcomes
  PROVE  Spec => []RefCount
<1>1. Init => CollInv /\ CountInv
  BY InitColl, InitCounts
<1>2. CollInv /\ CountInv /\ [Next]_vars => (CollInv /\ CountInv)'
  BY StepKeeps, StepCounts
<1>3. CollInv /\ CountInv => RefCount
  BY DEF CountInv
<1> QED  BY <1>1, <1>2, <1>3, PTL DEF Spec

\* On the same terms, the cookie of a request that has not been waited for is neither on a
\* free list nor back in the memory pool, where another call would create it anew
\* (process::create_request and process::finalize).
THEOREM HeldIsLiveCorrect ==
  ASSUME AtomicCounts, MPI_FAIL \notin Outcomes
  PROVE  Spec => []HeldIsLive
<1>1. Init => CollInv /\ CountInv
  BY InitColl, InitCounts
<1>2. CollInv /\ CountInv /\ [Next]_vars => (CollInv /\ CountInv)'
  BY StepKeeps, StepCounts
<1>3. ASSUME CollInv, CountInv  PROVE  HeldIsLive
  <2> SUFFICES ASSUME NEW p \in Procs, NEW t \in Calls, NEW c, c = reqs[p][t], c # NoCookie
               PROVE  Placed(c) /\ \A q \in Procs : c \notin free[q]
    BY DEF HeldIsLive
  <2>1. PICK x \in Places : x[1] # "free" /\ c \in Contents(x)
    BY <1>3 DEF CountInv, InUse
  <2>2. DOMAIN slots = Turns
    BY <1>3 DEF CollInv, TypeOK, Turns
  <2>3. Placed(c)
    BY <2>1, <2>2, PlaceTypes, ContentsAre DEF Placed
  <2>4. ASSUME NEW q \in Procs, c \in free[q]  PROVE  FALSE
    <3>1. <<"free", q>> \in Places /\ c \in Contents(<<"free", q>>)
      BY <2>4, PlaceTypes, ContentsAre
    <3>2. x # <<"free", q>>
      BY <2>1
    <3> QED  BY <1>3, <2>1, <3>1, <3>2 DEF CollInv, PlacedOnce
  <2> QED  BY <2>3, <2>4
<1>4. CollInv /\ CountInv => HeldIsLive
  BY <1>3
<1> QED  BY <1>1, <1>2, <1>4, PTL DEF Spec

LEMMA InitBusy ==
  ASSUME Init
  PROVE  BusyInv
<1>1. /\ cookie = [c \in Cookies |-> [owner |-> Nobody, src |-> Nobody, err |-> MPI_SUCCESS, call |-> 0]]
      /\ busy = [c \in Cookies |-> 0]
      /\ \A p \in Procs : pending[p] = {} /\ todo[p] = <<>> /\ pc[p] = "idle"
      /\ slots = [s \in 0..(NSlots - 1) |->
                    [ticket |-> 0, joined |-> 0, box |-> <<>>, locked |-> FALSE, displs |-> 0,
                     sendbuf |-> {}, recvbuf |-> {}]]
  BY DEF Init
<1>2. \A s \in DOMAIN slots : slots[s].box = <<>>
  BY <1>1
<1>3. DOMAIN slots = Turns
  BY <1>1 DEF Turns
<1>4. BusyExact
  BY <1>1, <1>2, EmptyList DEF BusyExact
<1>5. MoverInv /\ BoxInv /\ ListsInv
  BY <1>1, <1>2, <1>3, EmptyList DEF MoverInv, BoxInv, ListsInv, Moving
<1>6. OwnerInv
  <2>1. \A c \in Cookies : ~(busy[c] > 0)
    BY <1>1
  <2> QED  BY <1>1, <2>1 DEF OwnerInv
<1>7. \A c \in Cookies : cookie[c].err = MPI_SUCCESS
  BY <1>1
<1> QED  BY <1>4, <1>5, <1>6, <1>7 DEF BusyInv

LEMMA StepBusy ==
  ASSUME AtomicCounts, MPI_FAIL \notin Outcomes, CollInv, CountInv, BusyInv, [Next]_vars
  PROVE  BusyInv'
<1>1. CASE UNCHANGED vars
  <2>1. UNCHANGED <<program, slots, lists, cookies, calls, reqs>>
    BY <1>1 DEF vars
  <2> QED  BY <2>1, StillBusy
<1>2. ASSUME NEW p \in Procs, Step(p)  PROVE  BusyInv'
  <2>1. CASE Exits(p)
    <3>1. UNCHANGED <<program, slots, lists, cookies, calls, reqs>>
      BY <2>1 DEF Exits
    <3> QED  BY <3>1, StillBusy
  <2>2. CASE Enter(p) /\ ~Exits(p)
    <3>1. AllWell
      BY DEF AllWell
    <3>2. Keeps(p)
      BY <2>2, LeafJoinsKeeps, LeafPostsKeeps, RootPostsKeeps, RootLastKeeps, ExchangeFirstKeeps,
         ExchangeMiddleKeeps, ExchangeLastKeeps, ExchangeFailsKeeps, InplacePostsKeeps, InplaceLastKeeps,
         ScanPostsKeeps, ScanRejectsKeeps DEF Enter
    <3> QED  BY <3>1, <3>2 DEF Keeps
  <2>3. ~DeliverFails(p)
    BY DEF DeliverFails
  <2>4. CASE Leave(p)
    BY <2>4, LeaveCounts, LeaveBusy
  <2>5. CASE ~Enter(p) /\ ~Leave(p)
    BY <1>2, <2>3, <2>5, JoinStoresBusy, ServeBusy, MoveBusy, WaitBusy DEF Step
  <2> QED  BY <2>1, <2>2, <2>4, <2>5
<1> QED  BY <1>1, <1>2 DEF Next

\* The invariant of a job without errors.
LEMMA WellInv ==
  ASSUME AtomicCounts, MPI_FAIL \notin Outcomes
  PROVE  Spec => [](CollInv /\ CountInv /\ BusyInv)
<1>1. Init => CollInv /\ CountInv /\ BusyInv
  BY InitColl, InitCounts, InitBusy
<1>2. CollInv /\ CountInv /\ BusyInv /\ [Next]_vars => (CollInv /\ CountInv /\ BusyInv)'
  BY StepKeeps, StepCounts, StepBusy
<1> QED  BY <1>1, <1>2, PTL DEF Spec

\* On the same terms, busy_ is the number of transfers its owner still has to wait for,
\* whichever operation the cookie is for and however many of the others have come: those
\* that are under way, those the cookie is in a todo list for, and those of the processes
\* that have not called yet (process::create_request sets it, process::notify_done counts
\* it down).
THEOREM BusyExactCorrect ==
  ASSUME AtomicCounts, MPI_FAIL \notin Outcomes
  PROVE  Spec => []BusyExact
<1>1. CollInv /\ CountInv /\ BusyInv => BusyExact
  BY DEF BusyInv
<1> QED  BY <1>1, WellInv, PTL

\* On the same terms, cookie::read_from_owner and cookie::write_to_owner move data between
\* buffers of the same call, and the owner of the other buffer has not completed that call:
\* MPI_Wait does not return before the last transfer.
THEOREM BufferStillOwnedCorrect ==
  ASSUME AtomicCounts, MPI_FAIL \notin Outcomes
  PROVE  Spec => []BufferStillOwned
<1>1. ASSUME CollInv, BusyInv  PROVE  BufferStillOwned
  <2> SUFFICES ASSUME NEW p \in Procs, pc[p] \in {"deliver", "scan"}
               PROVE  /\ cookie[at[p]].call = call[p]
                      /\ reqs[cookie[at[p]].owner][call[p]] = at[p]
                      /\ ~(pc[cookie[at[p]].owner] = "leave" /\ at[cookie[at[p]].owner] = at[p])
    BY DEF BufferStillOwned
  <2>1. pc[p] \in Moving
    BY DEF Moving
  <2>2. PICK c \in Cookies, o \in Procs : c = at[p] /\ o = cookie[c].owner
    BY <1>1, <2>1, WorksOn DEF Moving
  <2>3. cookie[c].call = call[p]
    BY <1>1, <2>1, <2>2 DEF BusyInv, MoverInv
  <2>4. InUse(c) /\ busy[c] > 0
    BY <1>1, <2>1, <2>2, MoversPlaced, MoverBusy
  <2>5. reqs[o][call[p]] = c
    BY <1>1, <2>2, <2>3, <2>4 DEF BusyInv, OwnerInv
  <2>6. ~(pc[o] = "leave" /\ at[o] = c)
    BY <1>1, <2>2, <2>4 DEF BusyInv, OwnerInv
  <2> QED  BY <2>2, <2>3, <2>5, <2>6
<1>2. CollInv /\ CountInv /\ BusyInv => BufferStillOwned
  BY <1>1
<1> QED  BY <1>2, WellInv, PTL

=============================================================================
