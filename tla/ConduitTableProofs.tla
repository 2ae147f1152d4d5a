-------------------------- MODULE ConduitTableProofs --------------------------
(***************************************************************************)
(* What _accepted and _remove do to an exact table, for tables of every    *)
(* size: the facts that the proofs about TcpServer rest on.                *)
(***************************************************************************)
EXTENDS ConduitTable, FiniteSetTheorems, SequenceTheorems, WellFoundedInduction, TLAPS

\* The ordered set _emptySet has a first element: begin() of the code.
LEMMA FirstIsLeast ==
    ASSUME NEW S \in SUBSET Nat, S # {}
    PROVE  IsLeast(First(S), S)
<1> DEFINE R == OpToRel(<, Nat)
<1>1. PICK x \in S : \A y \in S : ~(<<y, x>> \in R)
  <2>1. IsWellFoundedOn(R, Nat)
    BY NatLessThanWellFounded
  <2> HIDE DEF R
  <2> QED
    BY <2>1, WFMin
<1>2. \A y \in S : ~(y < x)
  BY <1>1 DEF OpToRel
<1>3. IsLeast(x, S)
  BY <1>2 DEF IsLeast
<1> QED
  BY <1>3 DEF First

-------------------------------------------------------------------------------
\* The shape of a table: its slots, and the finite set of those in use.
LEMMA TableShape ==
    ASSUME NEW t \in Table
    PROVE  /\ t.conduits \in Seq(Conduits \cup {NULL})
           /\ Len(t.conduits) \in Nat
           /\ t.emptySet \in SUBSET Nat
           /\ t.count \in Nat
           /\ \A id \in Slots(t) : id \in Nat /\ At(t, id) \in Conduits \cup {NULL}
           /\ IsFiniteSet(LiveSlots(t))
           /\ Cardinality(LiveSlots(t)) \in Nat
<1>1. /\ t.conduits \in Seq(Conduits \cup {NULL})
      /\ Len(t.conduits) \in Nat
      /\ t.emptySet \in SUBSET Nat
      /\ t.count \in Nat
  BY LenProperties DEF Table
<1>2. \A id \in Slots(t) : id \in Nat /\ At(t, id) \in Conduits \cup {NULL}
  BY <1>1, ElementOfSeq DEF Slots, At
<1>3. IsFiniteSet(Slots(t))
  BY <1>1, FS_Interval DEF Slots
<1>4. IsFiniteSet(LiveSlots(t))
  BY <1>3, FS_Subset DEF LiveSlots
<1>5. Cardinality(LiveSlots(t)) \in Nat
  BY <1>4, FS_CardinalityType
<1> QED
  BY <1>1, <1>2, <1>4, <1>5

\* The loop of _accepted ends on an exact table.
LEMMA ExactNeverSpins ==
    ASSUME NEW t \in Table, FreeSetExact(t)
    PROVE  /\ ~Spins(t)
           /\ t.emptySet # {} => First(t.emptySet) \in t.emptySet /\ First(t.emptySet) \in Slots(t)
<1>1. t.emptySet # {} => First(t.emptySet) \in t.emptySet
  BY FirstIsLeast, TableShape DEF IsLeast
<1>2. t.emptySet # {} => First(t.emptySet) \in Slots(t)
  BY <1>1 DEF FreeSetExact
<1> QED
  BY <1>1, <1>2, TableShape DEF Spins, Slots

\* A table stays exact when one slot that was not in use is taken, whether it
\* was inside the vector or just behind its end.
LEMMA TakeSlot ==
    ASSUME NEW t \in Table, Exact(t), NEW p \in Table, NEW c \in Conduits,
           NEW n \in Nat, n \notin LiveSlots(t), n =< Len(t.conduits),
           Slots(p) = Slots(t) \cup {n},
           Len(p.conduits) = IF n = Len(t.conduits) THEN n + 1 ELSE Len(t.conduits),
           At(p, n) = c,
           \A id \in Slots(t) : id # n => At(p, id) = At(t, id),
           p.emptySet = t.emptySet \ {n},
           p.count = t.count + 1
    PROVE  Exact(p)
<1>1. c # NULL
  BY NullAssumption
<1>2. FreeSetExact(p)
  <2>1. t.emptySet = {id \in Slots(t) : At(t, id) = NULL}
    BY DEF Exact, FreeSetExact
  <2>2. p.emptySet \subseteq {id \in Slots(p) : At(p, id) = NULL}
    BY <2>1
  <2>3. {id \in Slots(p) : At(p, id) = NULL} \subseteq p.emptySet
    BY <2>1, <1>1
  <2> QED
    BY <2>2, <2>3 DEF FreeSetExact
<1>3. EndsLive(p)
  <2>1. CASE n = Len(t.conduits)
    BY <2>1, <1>1 DEF EndsLive
  <2>2. CASE n # Len(t.conduits)
    <3>1. ASSUME Len(p.conduits) > 0 PROVE At(p, Len(p.conduits) - 1) # NULL
      <4>1. Len(p.conduits) = Len(t.conduits)
        BY <2>2
      <4>2. Len(t.conduits) - 1 \in Slots(t) /\ Len(t.conduits) > 0
        BY <3>1, <4>1, TableShape DEF Slots
      <4>3. At(t, Len(t.conduits) - 1) # NULL
        BY <4>2 DEF Exact, EndsLive
      <4> QED
        BY <4>1, <4>2, <4>3, <1>1
    <3> QED
      BY <3>1 DEF EndsLive
  <2> QED
    BY <2>1, <2>2
<1>4. LiveSlots(p) = LiveSlots(t) \cup {n}
  BY <1>1 DEF LiveSlots
<1>5. Cardinality(LiveSlots(p)) = Cardinality(LiveSlots(t)) + 1
  <2>1. IsFiniteSet(LiveSlots(t))
    BY TableShape
  <2> QED
    BY <2>1, <1>4, FS_AddElement
<1>6. CountExact(p)
  BY <1>5 DEF Exact, CountExact
<1> QED
  BY <1>2, <1>3, <1>6 DEF Exact

\* What Place changes: one slot, which was not in use.
LEMMA PlaceEffect ==
    ASSUME NEW t \in Table, Exact(t), NEW c \in Conduits
    PROVE  /\ Place(t, c) \in Table
           /\ NextSlot(t) \in Nat
           /\ NextSlot(t) \notin LiveSlots(t)
           /\ Slots(Place(t, c)) = Slots(t) \cup {NextSlot(t)}
           /\ At(Place(t, c), NextSlot(t)) = c
           /\ \A id \in Slots(t) : id # NextSlot(t) => At(Place(t, c), id) = At(t, id)
           /\ Exact(Place(t, c))
<1> DEFINE p == Place(t, c)
           n == NextSlot(t)
<1>1. /\ Len(t.conduits) \in Nat
      /\ t.conduits \in Seq(Conduits \cup {NULL})
      /\ t.emptySet \in SUBSET Nat
      /\ t.count \in Nat
  BY TableShape
<1>2. CASE t.emptySet # {}
  <2>1. n = First(t.emptySet) /\ n \in t.emptySet /\ n \in Slots(t) /\ At(t, n) = NULL
    BY <1>2, ExactNeverSpins DEF NextSlot, Exact, FreeSetExact
  <2>2. p = [conduits |-> [t.conduits EXCEPT ![n + 1] = c],
             emptySet |-> t.emptySet \ {n}, count |-> t.count + 1]
    BY <1>2, <2>1 DEF Place
  <2> HIDE DEF p, n
  <2>3. n \in Nat /\ n + 1 \in 1 .. Len(t.conduits) /\ n < Len(t.conduits)
    BY <2>1, <1>1 DEF Slots
  <2>4. /\ p.conduits \in Seq(Conduits \cup {NULL})
        /\ Len(p.conduits) = Len(t.conduits)
        /\ \A j \in 1 .. Len(t.conduits) :
                p.conduits[j] = IF j = n + 1 THEN c ELSE t.conduits[j]
    <3> DEFINE new == [t.conduits EXCEPT ![n + 1] = c]
    <3>1. p.conduits = new
      BY <2>2
    <3>2. /\ new \in Seq(Conduits \cup {NULL})
          /\ Len(new) = Len(t.conduits)
          /\ \A j \in 1 .. Len(t.conduits) : new[j] = IF j = n + 1 THEN c ELSE t.conduits[j]
      BY <2>3, <1>1, ExceptSeq
    <3> QED
      BY <3>1, <3>2
  <2>5. p \in Table
    BY <2>2, <2>4, <1>1 DEF Table
  <2>6. Slots(p) = Slots(t) \cup {n}
    BY <2>4, <2>1 DEF Slots
  <2>7. \A id \in Slots(t) : At(p, id) = IF id = n THEN c ELSE At(t, id)
    <3>1. TAKE id \in Slots(t)
    <3>2. id \in Nat /\ id + 1 \in 1 .. Len(t.conduits)
      BY <1>1 DEF Slots
    <3> QED
      BY <3>2, <2>4, <2>3 DEF At
  <2>8. n \notin LiveSlots(t)
    BY <2>1 DEF LiveSlots
  <2>9. p.emptySet = t.emptySet \ {n} /\ p.count = t.count + 1
    BY <2>2
  <2>10. Exact(p)
    BY <2>1, <2>3, <2>4, <2>5, <2>6, <2>7, <2>8, <2>9, TakeSlot
  <2> QED
    BY <2>1, <2>3, <2>5, <2>6, <2>7, <2>8, <2>10 DEF p, n
<1>3. CASE t.emptySet = {}
  <2>1. n = Len(t.conduits) /\ n \notin Slots(t)
    BY <1>3, <1>1 DEF NextSlot, Slots
  <2>2. p = [conduits |-> Append(t.conduits, c), emptySet |-> {}, count |-> t.count + 1]
    BY <1>3 DEF Place
  <2> HIDE DEF p, n
  <2>3. /\ p.conduits \in Seq(Conduits \cup {NULL})
        /\ Len(p.conduits) = Len(t.conduits) + 1
        /\ \A j \in 1 .. Len(t.conduits) : p.conduits[j] = t.conduits[j]
        /\ p.conduits[Len(t.conduits) + 1] = c
    BY <2>2, <1>1, AppendProperties
  <2>4. p \in Table
    BY <2>2, <2>3, <1>1 DEF Table
  <2>5. Slots(p) = Slots(t) \cup {n}
    BY <2>1, <2>3, <1>1 DEF Slots
  <2>6. At(p, n) = c /\ \A id \in Slots(t) : At(p, id) = At(t, id)
    <3>1. At(p, n) = c
      BY <2>1, <2>3, <1>1 DEF At
    <3>2. ASSUME NEW id \in Slots(t) PROVE At(p, id) = At(t, id)
      <4>1. id + 1 \in 1 .. Len(t.conduits)
        BY <1>1 DEF Slots
      <4> QED
        BY <4>1, <2>3 DEF At
    <3> QED
      BY <3>1, <3>2
  <2>7. n \notin LiveSlots(t)
    BY <2>1 DEF LiveSlots
  <2>8. p.emptySet = t.emptySet \ {n} /\ p.count = t.count + 1
    BY <2>2, <1>3
  <2>9. Exact(p)
    BY <2>1, <2>3, <2>4, <2>5, <2>6, <2>7, <2>8, <1>1, TakeSlot
  <2> QED
    BY <2>1, <2>4, <2>5, <2>6, <2>7, <2>9, <1>1 DEF p, n
<1> QED
  BY <1>2, <1>3

-------------------------------------------------------------------------------
\* The do-while loop of _remove finds the end of what is left of the vector.
LEMMA KeptIsKept ==
    ASSUME NEW t \in Table, NEW rid \in Slots(t)
    PROVE  IsKept(t, rid, Kept(t, rid))
<1> DEFINE S == {n \in 0 .. rid : \A id \in n .. rid - 1 : At(t, id) = NULL}
<1>1. rid \in Nat
  BY TableShape
<1>2. S \in SUBSET Nat /\ rid \in S
  BY <1>1
<1>3. IsLeast(First(S), S)
  BY <1>2, FirstIsLeast
<1> DEFINE m == First(S)
<1> HIDE DEF S
<1>4. m \in S /\ \A n \in S : m =< n
  BY <1>3 DEF IsLeast
<1> HIDE DEF m
<1>5. m \in 0 .. rid /\ \A id \in m .. rid - 1 : At(t, id) = NULL
  BY <1>4 DEF S
<1>6. ASSUME m > 0, At(t, m - 1) = NULL PROVE FALSE
  <2>1. m - 1 \in 0 .. rid
    BY <1>5, <1>6, <1>1
  <2>2. \A id \in m - 1 .. rid - 1 : id = m - 1 \/ id \in m .. rid - 1
    BY <1>5, <1>1
  <2>3. m - 1 \in S
    BY <2>1, <2>2, <1>5, <1>6 DEF S
  <2> QED
    BY <2>3, <1>4, <1>5
<1>7. IsKept(t, rid, m)
  BY <1>5, <1>6 DEF IsKept
<1> QED
  BY <1>7, <1>5 DEF Kept

\* A table stays exact when one slot in use is given up and no empty slot is
\* left at the end.
LEMMA GiveUpSlot ==
    ASSUME NEW t \in Table, Exact(t), NEW p \in Table, NEW rid \in LiveSlots(t),
           Slots(p) \subseteq Slots(t),
           LiveSlots(p) = LiveSlots(t) \ {rid},
           \A id \in LiveSlots(p) : At(p, id) = At(t, id),
           FreeSetExact(p), EndsLive(p),
           p.count = IF t.count > 0 THEN t.count - 1 ELSE t.count
    PROVE  Exact(p)
<1>1. IsFiniteSet(LiveSlots(t)) /\ Cardinality(LiveSlots(t)) \in Nat
  BY TableShape
<1>2. Cardinality(LiveSlots(p)) = Cardinality(LiveSlots(t)) - 1
  BY <1>1, FS_RemoveElement
<1>3. Cardinality(LiveSlots(p)) \in Nat
  BY TableShape
<1>4. t.count > 0 /\ t.count = Cardinality(LiveSlots(t))
  BY <1>1, <1>2, <1>3 DEF Exact, CountExact
<1>5. CountExact(p)
  BY <1>2, <1>4 DEF CountExact
<1> QED
  BY <1>5 DEF Exact

\* What Clear changes: the conduit in the slot, if there is one, leaves.
LEMMA ClearEffect ==
    ASSUME NEW t \in Table, Exact(t), NEW rid \in Nat
    PROVE  /\ Clear(t, rid) \in Table
           /\ LiveSlots(Clear(t, rid)) = LiveSlots(t) \ {rid}
           /\ \A id \in LiveSlots(Clear(t, rid)) : At(Clear(t, rid), id) = At(t, id)
           /\ Exact(Clear(t, rid))
<1> DEFINE p == Clear(t, rid)
<1>1. /\ Len(t.conduits) \in Nat
      /\ t.conduits \in Seq(Conduits \cup {NULL})
      /\ t.emptySet \in SUBSET Nat
      /\ t.count \in Nat
      /\ t.emptySet = {id \in Slots(t) : At(t, id) = NULL}
      /\ \A id \in Slots(t) : id \in Nat
  BY TableShape DEF Exact, FreeSetExact
<1>2. CASE Entry(t, rid) = NULL
  <2>1. p = t
    BY <1>2 DEF Clear
  <2>2. rid \notin LiveSlots(t)
    BY <1>2 DEF Entry, LiveSlots
  <2> QED
    BY <2>1, <2>2
<1>3. CASE Entry(t, rid) # NULL /\ rid = Len(t.conduits) - 1
  <2> DEFINE k == Kept(t, rid)
  <2>1. rid \in Slots(t) /\ rid \in LiveSlots(t)
    BY <1>3 DEF Entry, LiveSlots
  <2>2. IsKept(t, rid, k)
    BY <2>1, KeptIsKept
  <2>3. p = [conduits |-> SubSeq(t.conduits, 1, k),
             emptySet |-> t.emptySet \ (k .. rid),
             count    |-> IF t.count > 0 THEN t.count - 1 ELSE t.count]
    BY <1>3 DEF Clear
  <2> HIDE DEF p, k
  <2>4. /\ k \in 0 .. rid
        /\ k > 0 => At(t, k - 1) # NULL
        /\ \A id \in k .. rid - 1 : At(t, id) = NULL
    BY <2>2 DEF IsKept
  <2>5. /\ p.conduits \in Seq(Conduits \cup {NULL})
        /\ Len(p.conduits) = k
        /\ \A i \in 1 .. k : p.conduits[i] = t.conduits[i]
    <3>1. \A i \in 1 .. k : t.conduits[i] \in Conduits \cup {NULL}
      BY <1>1, <1>3, <2>4, ElementOfSeq
    <3>2. /\ SubSeq(t.conduits, 1, k) \in Seq(Conduits \cup {NULL})
          /\ Len(SubSeq(t.conduits, 1, k)) = IF 1 <= k THEN k - 1 + 1 ELSE 0
          /\ \A i \in 1 .. k - 1 + 1 : SubSeq(t.conduits, 1, k)[i] = t.conduits[1 + i - 1]
      BY <3>1, <2>4, SubSeqProperties
    <3>3. p.conduits = SubSeq(t.conduits, 1, k)
      BY <2>3
    <3> QED
      BY <3>2, <3>3, <2>4
  <2>6. p.count \in Nat /\ p.count = IF t.count > 0 THEN t.count - 1 ELSE t.count
    BY <2>3, <1>1
  <2>7. p.emptySet = t.emptySet \ (k .. rid)
    BY <2>3
  <2>8. p \in Table
    BY <2>3, <2>5, <2>6, <2>7, <1>1 DEF Table
  <2>9. /\ Slots(p) \subseteq Slots(t)
        /\ \A id \in Slots(t) : id \in Slots(p) <=> id < k
        /\ \A id \in Slots(p) : At(p, id) = At(t, id)
    <3>1. /\ Slots(p) \subseteq Slots(t)
          /\ \A id \in Slots(t) : id \in Slots(p) <=> id < k
      BY <2>4, <2>5, <1>1, <1>3 DEF Slots
    <3>2. ASSUME NEW id \in Slots(p) PROVE At(p, id) = At(t, id)
      <4>1. id + 1 \in 1 .. k
        BY <2>4, <2>5 DEF Slots
      <4> QED
        BY <4>1, <2>5 DEF At
    <3> QED
      BY <3>1, <3>2
  <2>10. \A id \in Slots(t) : id >= k => id = rid \/ At(t, id) = NULL
    BY <2>4, <1>1, <1>3 DEF Slots
  <2>11. FreeSetExact(p)
    <3>1. ASSUME NEW id \in p.emptySet PROVE id \in Slots(p) /\ At(p, id) = NULL
      <4>1. id \in Slots(t) /\ At(t, id) = NULL /\ ~(id >= k /\ id =< rid)
        BY <2>7, <1>1, <2>4
      <4>2. id < k
        BY <4>1, <1>1, <1>3, <2>4 DEF Slots
      <4> QED
        BY <4>1, <4>2, <2>9
    <3>2. ASSUME NEW id \in Slots(p), At(p, id) = NULL PROVE id \in p.emptySet
      BY <3>2, <2>7, <2>9, <1>1, <2>4
    <3> QED
      BY <3>1, <3>2 DEF FreeSetExact
  <2>12. EndsLive(p)
    <3>1. ASSUME k > 0 PROVE At(p, k - 1) # NULL
      <4>1. k - 1 \in Slots(p)
        BY <3>1, <2>4, <2>5 DEF Slots
      <4> QED
        BY <3>1, <4>1, <2>4, <2>9
    <3> QED
      BY <3>1, <2>5 DEF EndsLive
  <2>13. LiveSlots(p) = LiveSlots(t) \ {rid}
    <3>1. rid >= k /\ rid \in Nat
      BY <2>4
    <3>2. rid \notin Slots(p)
      BY <3>1, <2>1, <2>9, <2>4
    <3>3. \A id \in Slots(t) \ Slots(p) : id >= k
      BY <2>9, <1>1, <2>4
    <3> QED
      BY <3>2, <3>3, <2>9, <2>10 DEF LiveSlots
  <2>14. \A id \in LiveSlots(p) : At(p, id) = At(t, id)
    BY <2>9 DEF LiveSlots
  <2>15. Exact(p)
    BY <2>1, <2>6, <2>8, <2>9, <2>11, <2>12, <2>13, <2>14, GiveUpSlot
  <2> QED
    BY <2>8, <2>13, <2>14, <2>15 DEF p
<1>4. CASE Entry(t, rid) # NULL /\ rid # Len(t.conduits) - 1
  <2>1. rid \in Slots(t) /\ rid \in LiveSlots(t) /\ At(t, rid) # NULL
    BY <1>4 DEF Entry, LiveSlots
  <2>2. p = [conduits |-> [t.conduits EXCEPT ![rid + 1] = NULL],
             emptySet |-> t.emptySet \cup {rid},
             count    |-> IF t.count > 0 THEN t.count - 1 ELSE t.count]
    BY <1>4 DEF Clear
  <2> HIDE DEF p
  <2>3. rid + 1 \in 1 .. Len(t.conduits)
    BY <2>1, <1>1 DEF Slots
  <2>4. /\ p.conduits \in Seq(Conduits \cup {NULL})
        /\ Len(p.conduits) = Len(t.conduits)
        /\ \A j \in 1 .. Len(t.conduits) :
                p.conduits[j] = IF j = rid + 1 THEN NULL ELSE t.conduits[j]
    <3> DEFINE new == [t.conduits EXCEPT ![rid + 1] = NULL]
    <3>1. p.conduits = new
      BY <2>2
    <3>2. /\ new \in Seq(Conduits \cup {NULL})
          /\ Len(new) = Len(t.conduits)
          /\ \A j \in 1 .. Len(t.conduits) :
                new[j] = IF j = rid + 1 THEN NULL ELSE t.conduits[j]
      BY <2>3, <1>1, ExceptSeq
    <3> QED
      BY <3>1, <3>2
  <2>5. p.count \in Nat /\ p.count = IF t.count > 0 THEN t.count - 1 ELSE t.count
    BY <2>2, <1>1
  <2>6. p.emptySet = t.emptySet \cup {rid}
    BY <2>2
  <2>7. p \in Table
    BY <2>2, <2>4, <2>5, <2>6, <1>1 DEF Table
  <2>8. Slots(p) = Slots(t)
    BY <2>4 DEF Slots
  <2>9. \A id \in Slots(t) : At(p, id) = IF id = rid THEN NULL ELSE At(t, id)
    <3>1. TAKE id \in Slots(t)
    <3>2. id \in Nat /\ id + 1 \in 1 .. Len(t.conduits)
      BY <1>1 DEF Slots
    <3> QED
      BY <3>2, <2>4 DEF At
  <2>10. FreeSetExact(p)
    <3>1. \A id \in p.emptySet : id \in Slots(p) /\ At(p, id) = NULL
      BY <2>1, <2>6, <2>8, <2>9, <1>1
    <3>2. \A id \in Slots(p) : At(p, id) = NULL => id \in p.emptySet
      BY <2>6, <2>8, <2>9, <1>1
    <3>3. p.emptySet = {id \in Slots(p) : At(p, id) = NULL}
      BY <3>1, <3>2
    <3> QED
      BY <3>3 DEF FreeSetExact
  <2>11. EndsLive(p)
    <3>1. Len(t.conduits) - 1 \in Slots(t) /\ Len(t.conduits) > 0
      BY <2>1, <1>1 DEF Slots
    <3>2. At(t, Len(t.conduits) - 1) # NULL
      BY <3>1 DEF Exact, EndsLive
    <3> QED
      BY <3>1, <3>2, <2>4, <2>9, <1>4 DEF EndsLive
  <2>12. LiveSlots(p) = LiveSlots(t) \ {rid}
    BY <2>8, <2>9 DEF LiveSlots
  <2>13. \A id \in LiveSlots(p) : At(p, id) = At(t, id)
    BY <2>8, <2>9, <2>12 DEF LiveSlots
  <2>14. Exact(p)
    BY <2>1, <2>5, <2>7, <2>8, <2>10, <2>11, <2>12, <2>13, GiveUpSlot
  <2> QED
    BY <2>7, <2>12, <2>13, <2>14 DEF p
<1> QED
  BY <1>2, <1>3, <1>4
===============================================================================
