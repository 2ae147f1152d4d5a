----------------------------- MODULE ConduitTable -----------------------------
(***************************************************************************)
(* The table of connections that one TcpSlaveServer keeps                  *)
(* (Network/TcpServer.h, lines 91-98): the vector _conduits, the set       *)
(* _emptySet of slots that can be used again and the counter _count.  The  *)
(* operators are the effects of _accepted and _remove on the three, which  *)
(* the code computes while it holds _mutex.                                *)
(*                                                                         *)
(* Slots are numbered from 0 in the code; slot id is conduits[id + 1].     *)
(***************************************************************************)
EXTENDS Integers, Sequences, FiniteSets

CONSTANTS
    Conduits,   \* identities of TcpConduit objects, each allocated once
    NULL        \* the null pointer

ASSUME NullAssumption == NULL \notin Conduits
ASSUME ConduitsAssumption == IsFiniteSet(Conduits)

Table == [conduits : Seq(Conduits \cup {NULL}),
          emptySet : SUBSET Nat,
          count    : Nat]

\* The members of a slave server before its thread runs.
NoConduits == [conduits |-> <<>>, emptySet |-> {}, count |-> 0]

Slots(t) == 0 .. Len(t.conduits) - 1

At(t, id) == t.conduits[id + 1]

\* The shared_ptr in slot rid, or the empty one when rid is out of range.
Entry(t, rid) == IF rid \in Slots(t) THEN At(t, rid) ELSE NULL

LiveSlots(t) == {id \in Slots(t) : At(t, id) # NULL}

IsLeast(n, S) == n \in S /\ \A m \in S : n =< m

\* The first element of the ordered std::set.
First(S) == CHOOSE n \in S : IsLeast(n, S)

-------------------------------------------------------------------------------
(***************************************************************************)
(* _accepted.  The while loop leaves only by returning, and it returns only*)
(* when the smallest free slot is inside the vector: a table with a free   *)
(* slot beyond the end keeps the slave thread in the loop, with _mutex     *)
(* held, forever.                                                          *)
(***************************************************************************)
Spins(t) == t.emptySet # {} /\ First(t.emptySet) >= Len(t.conduits)

\* The slot that the next accepted conduit is given.
NextSlot(t) == IF t.emptySet # {} THEN First(t.emptySet) ELSE Len(t.conduits)

Place(t, c) ==
    IF t.emptySet # {}
    THEN [conduits |-> [t.conduits EXCEPT ![First(t.emptySet) + 1] = c],
          emptySet |-> t.emptySet \ {First(t.emptySet)},
          count    |-> t.count + 1]
    ELSE [conduits |-> Append(t.conduits, c),
          emptySet |-> t.emptySet,
          count    |-> t.count + 1]

(***************************************************************************)
(* _remove.  Clearing the last slot also drops the empty slots before it,  *)
(* so that the vector never ends with an empty slot.                       *)
(***************************************************************************)
\* What is left of the vector once its last slot, rid, is cleared.
IsKept(t, rid, n) ==
    /\ n \in 0 .. rid
    /\ n > 0 => At(t, n - 1) # NULL
    /\ \A id \in n .. rid - 1 : At(t, id) = NULL

Kept(t, rid) == CHOOSE n \in 0 .. rid : IsKept(t, rid, n)

\* Mutant: the vector shrinks but the dropped slots stay marked as free.
ClearForgetsDropped(t, rid) ==
    IF Entry(t, rid) = NULL THEN t
    ELSE IF rid = Len(t.conduits) - 1
    THEN [conduits |-> SubSeq(t.conduits, 1, Kept(t, rid)),
          emptySet |-> t.emptySet \ {rid},
          count    |-> IF t.count > 0 THEN t.count - 1 ELSE t.count]
    ELSE [conduits |-> [t.conduits EXCEPT ![rid + 1] = NULL],
          emptySet |-> t.emptySet \cup {rid},
          count    |-> IF t.count > 0 THEN t.count - 1 ELSE t.count]

Clear(t, rid) ==
    IF Entry(t, rid) = NULL THEN t
    ELSE IF rid = Len(t.conduits) - 1
    THEN [conduits |-> SubSeq(t.conduits, 1, Kept(t, rid)),
          emptySet |-> t.emptySet \ (Kept(t, rid) .. rid),
          count    |-> IF t.count > 0 THEN t.count - 1 ELSE t.count]
    ELSE [conduits |-> [t.conduits EXCEPT ![rid + 1] = NULL],
          emptySet |-> t.emptySet \cup {rid},
          count    |-> IF t.count > 0 THEN t.count - 1 ELSE t.count]

\* destroy: the vector and the counter are cleared, the set is not.
Destroyed(t) == [conduits |-> <<>>, emptySet |-> t.emptySet, count |-> 0]

-------------------------------------------------------------------------------
(***************************************************************************)
(* What _accepted and _remove rely on: the free set is exactly the set of  *)
(* empty slots, the vector does not end with an empty slot, and _count,    *)
(* which the master reads without a lock, is the number of connections.    *)
(***************************************************************************)
FreeSetExact(t) == t.emptySet = {id \in Slots(t) : At(t, id) = NULL}

EndsLive(t) == Len(t.conduits) > 0 => At(t, Len(t.conduits) - 1) # NULL

CountExact(t) == t.count = Cardinality(LiveSlots(t))

Exact(t) == FreeSetExact(t) /\ EndsLive(t) /\ CountExact(t)
===============================================================================
