------------------------------ MODULE Datatypes ------------------------------
(***************************************************************************)
(* Datatypes and the movement of data: struct umpi_iovec, the constructors *)
(* MPI_Type_*, cookie::write_to_owner and cookie::read_from_owner.         *)
(*                                                                         *)
(* A layout is the array of umpi_iovec that stands for a type: one element *)
(* <<id, length>> when the bytes of the type are contiguous, otherwise     *)
(* <<SCATTERED, number of parts>>, <<stride, length>> and the parts, with  *)
(* their displacements and lengths.  A type is a record of its layout and  *)
(* of what the MPI standard makes of the same constructors: the            *)
(* displacements of its bytes in order, and its extent.                    *)
(***************************************************************************)
EXTENDS Integers, SequencesExt

CONSTANT IovMax   \* the longest list process_vm_readv and process_vm_writev take

ASSUME IovMaxAssumption == IovMax \in Nat

MPI_SUCCESS == 0
MPI_FAIL    == 1

CONTIGUOUS == 0
SCATTERED  == 1
BYTE       == 3
SHORT      == 6

Iovec(dis, len) == [dis |-> dis, len |-> len]

Scattered(v) == v[1].dis = SCATTERED
Parts(v)     == SubSeq(v, 3, Len(v))
Stride(v)    == IF Scattered(v) THEN v[2].dis ELSE v[1].len
Length(v)    == IF Scattered(v) THEN v[2].len ELSE v[1].len

\* An array of umpi_iovec that says itself how long it is, which is all that is known
\* of it once it is in the pool.
IsLayout(v) ==
  /\ v # <<>> /\ v \in Seq([dis: Int, len: Nat])
  /\ Len(v) = IF Scattered(v) THEN v[1].len + 2 ELSE 1

-----------------------------------------------------------------------------
(* The constructors. All but MPI_Type_contiguous take contiguous old types *)
(* here, as the code demands of the first two.                             *)

Basic(id, len) == [layout |-> <<Iovec(id, len)>>, bytes |-> [k \in 1..len |-> k - 1], extent |-> len]

\* The bytes of n elements of type t, the first of them element number s.
Elements(t, s, n) ==
  LET len == Len(t.bytes) IN
  [k \in 1..(n * len) |-> (s + (k - 1) \div len) * t.extent + t.bytes[((k - 1) % len) + 1]]

\* MPI_Type_contiguous. The parts of a scattered type are repeated as they are.
Contiguous(n, t) ==
  LET v == t.layout IN
  [layout |-> IF Scattered(v)
              THEN <<Iovec(SCATTERED, n * Len(Parts(v))), Iovec(n * Stride(v), n * Length(v))>>
                   \o FlattenSeq([i \in 1..n |-> Parts(v)])
              ELSE <<Iovec(CONTIGUOUS, n * Length(v))>>,
   bytes  |-> Elements(t, 0, n),
   extent |-> n * t.extent]

\* MPI_Type_create_struct, and MPI_Type_create_hindexed when all types are the same.
Struct(lengths, displacements, types) ==
  LET parts == [i \in 1..Len(types) |-> Iovec(displacements[i], lengths[i] * Length(types[i].layout))]
      end   == Max({e.dis + e.len : e \in ToSet(parts)})
      sum   == FoldLeft(LAMBDA x, e : x + e.len, 0, parts)
  IN
  [layout |-> <<Iovec(SCATTERED, Len(types)), Iovec(end, sum)>> \o parts,
   bytes  |-> FlattenSeq([i \in 1..Len(types) |->
                LET part == Elements(types[i], 0, lengths[i]) IN
                [k \in 1..Len(part) |-> displacements[i] + part[k]]]),
   extent |-> Max({displacements[i] + lengths[i] * types[i].extent : i \in 1..Len(types)})
              - Min(ToSet(displacements))]

\* MPI_Type_create_resized, with extent no less than the stride of t.
Resized(t, extent) ==
  LET v == t.layout IN
  [t EXCEPT
     !.layout = IF Scattered(v) THEN [v EXCEPT ![2].dis = extent]
                ELSE <<Iovec(SCATTERED, 1), Iovec(extent, Length(v)), Iovec(0, Length(v))>>,
     !.extent = extent]

-----------------------------------------------------------------------------
(* process_vm_readv and process_vm_writev                                  *)

\* Slips of the code that the properties must notice stand before the definition
\* they would replace; no action uses them.
VectorsPacked(v, from, to, total) ==
  IF Scattered(v)
  THEN FlattenSeq([j \in 1..(to - from) |->
         [i \in 1..Len(Parts(v)) |->
            Iovec((from + j - 1) * Length(v) + Parts(v)[i].dis, Parts(v)[i].len)]])
  ELSE <<Iovec(from * Length(v), total)>>

\* The list for elements from, from + 1, ... to - 1 of a buffer: its parts one after
\* the other, or total bytes in one piece.
Vectors(v, from, to, total) ==
  IF Scattered(v)
  THEN FlattenSeq([j \in 1..(to - from) |->
         [i \in 1..Len(Parts(v)) |->
            Iovec((from + j - 1) * Stride(v) + Parts(v)[i].dis, Parts(v)[i].len)]])
  ELSE <<Iovec(from * Length(v), total)>>

Bytes(list) == FlattenSeq([i \in 1..Len(list) |-> [k \in 1..list[i].len |-> list[i].dis + k - 1]])

TooLong(source, target) == Len(source) > IovMax \/ Len(target) > IovMax

\* The system call fills the pieces of one list from those of the other, as far as both
\* go: pairs of the place a byte comes from and the place it goes to.
Moves(source, target) ==
  LET s == Bytes(source)
      t == Bytes(target)
  IN
  IF TooLong(source, target) THEN {}
  ELSE {<<s[k], t[k]>> : k \in 1..Min({Len(s), Len(t)})}

\* The outcome of a transfer of total bytes; the caller's check is that all were moved.
Result(total, source, target, count) ==
  [err   |-> IF ~TooLong(source, target) /\ Cardinality(Moves(source, target)) = total
             THEN MPI_SUCCESS ELSE MPI_FAIL,
   moved |-> Moves(source, target),
   count |-> count]

Refused(count) == [err |-> MPI_FAIL, moved |-> {}, count |-> count]

RoomToSpare(v, size, at, total) == at * Length(v) + total < size * Length(v)

\* From element at on, a buffer of size elements has total bytes.
Room(v, size, at, total) == at * Length(v) + total <= size * Length(v)

\* cookie::write_to_owner: the owner's buffer holds size elements of layout o, of which
\* count are asked for. count elements of layout v go there, from element skip of the
\* caller's buffer to element seek of the owner's.
WriteToOwner(o, size, asked, v, count, seek, skip) ==
  LET total == count * Length(v)
      done  == IF asked * Length(o) < total THEN asked ELSE total \div Length(o)
  IN
  IF ~Room(o, size, seek, total) THEN Refused(asked)
  ELSE Result(total, Vectors(v, skip, skip + count, total), Vectors(o, seek, size, total), done)

\* cookie::read_from_owner: count elements, or as many whole ones as the owner offers when
\* count is 0, go from element skip of the owner's buffer to element seek of the
\* caller's, which has room for size.
ReadFromOwner(o, offered, asked, v, size, count, seek, skip) ==
  LET n     == IF count # 0 THEN count ELSE ((offered - skip) * Length(o)) \div Length(v)
      total == n * Length(v)
  IN
  IF ~Room(o, offered, skip, total) \/ ~Room(v, size, seek, total) THEN Refused(asked)
  ELSE Result(total, Vectors(o, skip, offered, total), Vectors(v, seek, seek + n, total), asked)

=============================================================================
