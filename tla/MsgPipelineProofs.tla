--------------------------- MODULE MsgPipelineProofs ---------------------------
(***************************************************************************)
(* Proofs about MsgPipeline for any number of threads, addresses, sizes and*)
(* messages: who owns a block, whether a message fits it, what a shutdown  *)
(* leaves behind, and that the pipeline is the channel of MsgChannel.      *)
(***************************************************************************)
EXTENDS MsgPipeline, SequenceTheorems, WellFoundedInduction, TLAPS

-------------------------------------------------------------------------------
(***************************************************************************)
(* Lists of addresses.                                                     *)
(***************************************************************************)
Elems(s) == {s[k] : k \in DOMAIN s}

\* No address is twice in the list.
Once(s) == \A k, l \in DOMAIN s : s[k] = s[l] => k = l

\* The empty list, and what the elements of a list are.
LEMMA ElemsBasics ==
    /\ Elems(<<>>) = {} /\ Once(<<>>)
    /\ \A S : \A s \in Seq(S) : Elems(s) \subseteq S /\ (Elems(s) = {} <=> s = <<>>)
<1>1. Elems(<<>>) = {} /\ Once(<<>>)
  BY DEF Elems, Once
<1>2. ASSUME NEW S, NEW s \in Seq(S)
      PROVE  Elems(s) \subseteq S /\ (Elems(s) = {} <=> s = <<>>)
  <2>1. DOMAIN s = 1 .. Len(s) /\ Len(s) \in Nat /\ \A k \in 1 .. Len(s) : s[k] \in S
    BY LenProperties, ElementOfSeq
  <2>2. s # <<>> => 1 \in DOMAIN s
    BY <2>1, EmptySeq
  <2> QED
    BY <1>1, <2>1, <2>2 DEF Elems
<1> QED
  BY <1>1, <1>2

\* An address is put at the end of a list.
LEMMA ElemsAppend ==
    ASSUME NEW S, NEW s \in Seq(S), NEW e \in S
    PROVE  /\ Append(s, e) \in Seq(S)
           /\ Elems(Append(s, e)) = Elems(s) \cup {e}
           /\ Once(s) /\ e \notin Elems(s) => Once(Append(s, e))
<1> DEFINE a == Append(s, e)
<1>1. /\ a \in Seq(S) /\ Len(a) = Len(s) + 1 /\ Len(s) \in Nat
      /\ DOMAIN s = 1 .. Len(s) /\ DOMAIN a = 1 .. Len(s) + 1
      /\ a[Len(s) + 1] = e /\ \A k \in 1 .. Len(s) : a[k] = s[k]
  BY AppendProperties, LenProperties
<1> HIDE DEF a
<1>2. Elems(a) = Elems(s) \cup {e}
  BY <1>1 DEF Elems
<1>3. Once(s) /\ e \notin Elems(s) => Once(a)
  BY <1>1 DEF Elems, Once
<1> QED
  BY <1>1, <1>2, <1>3 DEF a

\* The first address is taken from a list.
LEMMA ElemsTail ==
    ASSUME NEW S, NEW s \in Seq(S), s # <<>>
    PROVE  /\ Head(s) \in S /\ Head(s) \in Elems(s) /\ Tail(s) \in Seq(S)
           /\ Elems(Tail(s)) \subseteq Elems(s)
           /\ Once(s) => Once(Tail(s)) /\ Elems(Tail(s)) = Elems(s) \ {Head(s)}
<1> DEFINE a == Tail(s)
<1>1. /\ Head(s) \in S /\ a \in Seq(S) /\ Len(a) = Len(s) - 1
      /\ Len(s) \in Nat \ {0} /\ Head(s) = s[1]
      /\ DOMAIN s = 1 .. Len(s) /\ DOMAIN a = 1 .. Len(s) - 1
      /\ \A k \in 1 .. Len(s) - 1 : k + 1 \in 1 .. Len(s) /\ a[k] = s[k + 1]
  BY HeadTailProperties, LenProperties, EmptySeq
<1> HIDE DEF a
<1>2. Head(s) \in Elems(s)
  BY <1>1 DEF Elems
<1>3. Elems(a) \subseteq Elems(s)
  BY <1>1 DEF Elems
<1>4. ASSUME Once(s) PROVE Once(a) /\ Head(s) \notin Elems(a)
  <2>1. ASSUME NEW k \in 1 .. Len(s) - 1, NEW l \in 1 .. Len(s) - 1, a[k] = a[l] PROVE k = l
    <3>1. k + 1 = l + 1
      BY <1>1, <1>4, <2>1 DEF Once
    <3> QED
      BY <3>1
  <2>2. ASSUME NEW k \in 1 .. Len(s) - 1, a[k] = s[1] PROVE FALSE
    <3>1. k + 1 = 1
      BY <1>1, <1>4, <2>2 DEF Once
    <3> QED
      BY <3>1
  <2> QED
    BY <1>1, <2>1, <2>2 DEF Elems, Once
<1>5. \A x \in Elems(s) : x # Head(s) => x \in Elems(a)
  <2> SUFFICES ASSUME NEW k \in 1 .. Len(s), s[k] # s[1] PROVE s[k] \in Elems(a)
    BY <1>1 DEF Elems
  <2>1. k - 1 \in 1 .. Len(s) - 1 /\ a[k - 1] = s[k]
    BY <1>1
  <2> QED
    BY <2>1, <1>1 DEF Elems
<1> QED
  BY <1>1, <1>2, <1>3, <1>4, <1>5 DEF a

\* An address is put at the front of a list.
LEMMA ElemsCons ==
    ASSUME NEW S, NEW s \in Seq(S), NEW e \in S
    PROVE  /\ <<e>> \o s \in Seq(S)
           /\ Elems(<<e>> \o s) = Elems(s) \cup {e}
           /\ Once(s) /\ e \notin Elems(s) => Once(<<e>> \o s)
<1> DEFINE a == <<e>> \o s
<1>1. /\ a \in Seq(S) /\ Len(a) = Len(s) + 1 /\ Len(s) \in Nat
      /\ \A k \in 1 .. Len(s) + 1 : a[k] = IF k =< 1 THEN e ELSE s[k - 1]
  <2>1. <<e>> \in Seq(S) /\ Len(<<e>>) = 1 /\ <<e>>[1] = e
    OBVIOUS
  <2>2. Len(s) \in Nat
    BY LenProperties
  <2> HIDE DEF a
  <2>3. /\ a \in Seq(S) /\ Len(a) = 1 + Len(s)
        /\ \A k \in 1 .. 1 + Len(s) : a[k] = IF k =< 1 THEN <<e>>[k] ELSE s[k - 1]
    BY <2>1, ConcatProperties DEF a
  <2> QED
    BY <2>1, <2>2, <2>3
<1>2. DOMAIN s = 1 .. Len(s) /\ DOMAIN a = 1 .. Len(s) + 1
  BY <1>1, LenProperties
<1> HIDE DEF a
<1>3. \A k \in 1 .. Len(s) : k + 1 \in 1 .. Len(s) + 1 /\ a[k + 1] = s[k]
  BY <1>1
<1>4. a[1] = e /\ \A k \in 2 .. Len(s) + 1 : k - 1 \in 1 .. Len(s) /\ a[k] = s[k - 1]
  BY <1>1
<1>5. Elems(a) = Elems(s) \cup {e}
  <2>1. Elems(s) \cup {e} \subseteq Elems(a)
    BY <1>1, <1>2, <1>3, <1>4 DEF Elems
  <2>2. Elems(a) \subseteq Elems(s) \cup {e}
    BY <1>1, <1>2, <1>4 DEF Elems
  <2> QED
    BY <2>1, <2>2
<1>6. ASSUME Once(s), e \notin Elems(s) PROVE Once(a)
  <2>1. ASSUME NEW k \in 2 .. Len(s) + 1, NEW l \in 2 .. Len(s) + 1, a[k] = a[l] PROVE k = l
    <3>1. k - 1 = l - 1
      BY <1>2, <1>4, <1>6, <2>1 DEF Once
    <3> QED
      BY <3>1
  <2>2. \A k \in 2 .. Len(s) + 1 : a[k] # a[1]
    BY <1>2, <1>4, <1>6 DEF Elems
  <2>3. \A k \in DOMAIN a : k = 1 \/ k \in 2 .. Len(s) + 1
    BY <1>1, <1>2
  <2> QED
    BY <2>1, <2>2, <2>3 DEF Once
<1> QED
  BY <1>1, <1>5, <1>6 DEF a

-------------------------------------------------------------------------------
(***************************************************************************)
(* The sizes of the pools.                                                 *)
(***************************************************************************)
\* The blocks of every pool have a positive size.
LEMMA PoolSizes == \A i \in Pools : PoolSize(i) \in Nat \ {0}
<1>1. ASSUME NEW i \in Pools PROVE 2 ^ i \in Nat \ {0}
  <2>1. \/ i = 0 \/ i = 1 \/ i = 2 \/ i = 3 \/ i = 4
        \/ i = 5 \/ i = 6 \/ i = 7 \/ i = 8 \/ i = 9
    BY PoolAssumption DEF Pools
  <2>p0. i = 0 => 2 ^ i = 1
    OBVIOUS
  <2>p1. i = 1 => 2 ^ i = 2
    OBVIOUS
  <2>p2. i = 2 => 2 ^ i = 4
    OBVIOUS
  <2>p3. i = 3 => 2 ^ i = 8
    OBVIOUS
  <2>p4. i = 4 => 2 ^ i = 16
    OBVIOUS
  <2>p5. i = 5 => 2 ^ i = 32
    OBVIOUS
  <2>p6. i = 6 => 2 ^ i = 64
    OBVIOUS
  <2>p7. i = 7 => 2 ^ i = 128
    OBVIOUS
  <2>p8. i = 8 => 2 ^ i = 256
    OBVIOUS
  <2>p9. i = 9 => 2 ^ i = 512
    OBVIOUS
  <2> DEFINE p == 2 ^ i
  <2> HIDE DEF p
  <2>3. p \in Nat \ {0}
    BY <2>1, <2>p0, <2>p1, <2>p2, <2>p3, <2>p4, <2>p5, <2>p6, <2>p7, <2>p8, <2>p9 DEF p
  <2> QED
    BY <2>3 DEF p
<1> QED
  BY <1>1 DEF PoolSize, MIN_MEMBLOCK_SIZE

\* The loop of AllocMsgBlock and FreeMsgBlock finds a pool, and its blocks are
\* large enough.
LEMMA PoolFound ==
    ASSUME NEW size \in Nat, Pooled(size)
    PROVE  PoolOf(size) \in Pools /\ size =< PoolSize(PoolOf(size))
<1> DEFINE T == {i \in Pools : size =< PoolSize(i)}
<1> DEFINE R == OpToRel(<, Nat)
<1>1. MEMPOOL_NUM - 1 \in T /\ T \subseteq Nat
  BY PoolAssumption DEF Pools, Pooled, MaxPoolSize
<1>2. PICK x \in T : \A y \in T : ~(<<y, x>> \in R)
  <2>1. IsWellFoundedOn(R, Nat)
    BY NatLessThanWellFounded
  <2> HIDE DEF R, T
  <2> QED
    BY <1>1, <2>1, WFMin
<1>3. \A y \in T : ~(y < x)
  BY <1>1, <1>2 DEF OpToRel
<1>4. \A j \in 0 .. x - 1 : j \in Pools /\ j < x
  BY PoolAssumption DEF Pools
<1>5. \A j \in 0 .. x - 1 : PoolSize(j) < size
  BY <1>3, <1>4, PoolSizes
<1>6. \E i \in Pools : size =< PoolSize(i) /\ \A j \in 0 .. i - 1 : PoolSize(j) < size
  BY <1>5
<1> QED
  BY <1>6 DEF PoolOf

\* A block is at least as large as what it was allocated for.
LEMMA CapacityFits ==
    ASSUME NEW size \in Nat
    PROVE  Capacity(size) \in Nat /\ Capacity(size) >= size
  BY PoolFound, PoolSizes DEF Capacity

-------------------------------------------------------------------------------
(***************************************************************************)
(* The inductive invariant.                                                *)
(***************************************************************************)
InPools == UNION {Elems(pools[i]) : i \in Pools}

\* The blocks on their way from a network thread to FreeMsgBlock.
Held ==
    Elems(queue) \cup Elems(batch) \cup ({buf[t] : t \in Threads} \ {NULL})
        \cup ({hand} \ {NULL})

\* A free block is in one list, and once.
PoolsApart ==
    /\ \A i \in Pools : Once(pools[i])
    /\ \A i, j \in Pools : i # j => Elems(pools[i]) \cap Elems(pools[j]) = {}

\* A block on its way is in one place, and once.
HoldersApart ==
    /\ Once(queue) /\ Once(batch)
    /\ Elems(queue) \cap Elems(batch) = {}
    /\ \A t, u \in Threads : buf[t] # NULL /\ buf[t] = buf[u] => t = u
    /\ \A t \in Threads : buf[t] \notin Elems(queue) \cup Elems(batch)
    /\ hand \notin Elems(queue) \cup Elems(batch)
    /\ hand # NULL => \A t \in Threads : buf[t] # hand

\* A block is free, or on its way, or not allocated.
Owned ==
    /\ InPools \cap Held = {}
    /\ \A b \in Blocks : mem[b].cap > 0 <=> b \in InPools \cup Held

\* What is written in a block.
Written ==
    /\ \A b \in Held : /\ mem[b].msg \in Msg
                        /\ mem[b].size = Full(mem[b].msg.size)
                        /\ mem[b].cap = Capacity(mem[b].size)
    /\ \A b \in Blocks \ Held : mem[b].msg = NULL
    /\ \A i \in Pools : \A b \in Elems(pools[i]) : mem[b].cap = PoolSize(i)

BlockInv == TypeOK /\ PoolsApart /\ HoldersApart /\ Owned /\ Written

\* The order in which the server stops: the network threads, then Logic, which
\* empties the queue before it ends; and UnInit comes when all hands are empty.
StopInv ==
    /\ \A t \in Threads : ~up[t] => buf[t] = NULL
    /\ ~active => \A t \in Threads : ~up[t]
    /\ leaving => ~active /\ queue = <<>>
    /\ ~logic => ~active /\ queue = <<>> /\ Ready
    /\ glob # "up" => Ready /\ (Server => ~logic)

IInv == BlockInv /\ StopInv /\ (Server => ~fault)

-------------------------------------------------------------------------------
(***************************************************************************)
(* What AllocMsgBlock and FreeMsgBlock do to the pools and to the memory.  *)
(***************************************************************************)
\* The parts of the invariant that speak of the memory.
MemoryInv ==
    /\ pools \in [Pools -> Seq(Blocks)] /\ mem \in [Blocks -> Block]
    /\ Held \subseteq Blocks
    /\ PoolsApart /\ Owned /\ Written

\* The size that is looked up is a positive number, for every message.
LEMMA FullSize ==
    ASSUME NEW m \in Msg
    PROVE  Full(m.size) \in Nat /\ Full(m.size) >= WORD /\ m.size \in Nat
<1>1. m.size \in Sizes
  BY DEF Msg
<1>2. m.size \in Nat
  BY <1>1, SizesAssumption
<1> QED
  BY <1>2 DEF Full, WORD

\* Held blocks are addresses.
LEMMA HeldAreBlocks == TypeOK => Held \subseteq Blocks
  BY ElemsBasics DEF TypeOK, Held

\* A block that is allocated was in no hands, leaves the pools if it was in one,
\* and is as large as its pool says.
LEMMA AllocEffect ==
    ASSUME MemoryInv, NEW m \in Msg, NEW b \in Blocks, Alloc(m, b)
    PROVE  /\ b \notin Held
           /\ pools' \in [Pools -> Seq(Blocks)]
           /\ PoolsApart'
           /\ InPools' = InPools \ {b}
           /\ \A i \in Pools : Elems(pools'[i]) \subseteq Elems(pools[i])
           /\ mem' \in [Blocks -> Block]
           /\ mem'[b].cap = Capacity(Full(m.size))
           /\ mem'[b].size = Full(m.size) /\ mem'[b].msg = m
           /\ \A x \in Blocks : x # b => mem'[x] = mem[x]
<1> DEFINE full == Full(m.size)
<1> DEFINE p == PoolOf(full)
<1>0. full \in Nat /\ Capacity(full) \in Nat /\ mem[b] \in Block
  BY FullSize, CapacityFits DEF MemoryInv
<1>1. CASE /\ ~NeedsMalloc(full)
           /\ b = Head(pools[p])
           /\ pools' = [pools EXCEPT ![p] = Tail(@)]
           /\ mem' = [mem EXCEPT ![b].size = full, ![b].msg = m]
  <2>1. Pooled(full) /\ pools[p] # <<>>
    BY <1>1 DEF NeedsMalloc
  <2>2. p \in Pools
    BY <1>0, <2>1, PoolFound
  <2> HIDE DEF p, full
  <2>3. pools[p] \in Seq(Blocks) /\ Once(pools[p])
    BY <2>2 DEF MemoryInv, PoolsApart
  <2>4. /\ b \in Elems(pools[p]) /\ Tail(pools[p]) \in Seq(Blocks)
        /\ Once(Tail(pools[p])) /\ Elems(Tail(pools[p])) = Elems(pools[p]) \ {b}
    BY <1>1, <2>1, <2>3, ElemsTail
  <2>5. pools' \in [Pools -> Seq(Blocks)]
    BY <1>1, <2>4 DEF MemoryInv
  <2>6. \A i \in Pools : pools'[i] = IF i = p THEN Tail(pools[p]) ELSE pools[i]
    BY <1>1 DEF MemoryInv
  <2>7. \A i \in Pools : /\ Once(pools'[i])
                         /\ Elems(pools'[i]) = Elems(pools[i]) \ {b}
    <3> SUFFICES ASSUME NEW i \in Pools
                 PROVE  Once(pools'[i]) /\ Elems(pools'[i]) = Elems(pools[i]) \ {b}
      OBVIOUS
    <3>1. CASE i = p
      BY <3>1, <2>4, <2>6
    <3>2. CASE i # p
      <4>1. pools'[i] = pools[i]
        BY <3>2, <2>6
      <4>2. Once(pools[i]) /\ b \notin Elems(pools[i])
        BY <2>2, <2>4, <3>2 DEF MemoryInv, PoolsApart
      <4> QED
        BY <4>1, <4>2
    <3> QED
      BY <3>1, <3>2
  <2>8. PoolsApart' /\ InPools' = InPools \ {b}
    <3>1. PoolsApart'
      BY <2>7 DEF PoolsApart, MemoryInv
    <3>2. InPools' = UNION {Elems(pools'[i]) : i \in Pools}
      BY DEF InPools
    <3>3. \A x : x \in InPools' <=> \E i \in Pools : x \in Elems(pools[i]) \ {b}
      BY <3>2, <2>7
    <3> QED
      BY <3>1, <3>3 DEF InPools
  <2>9. b \notin Held
    BY <2>2, <2>4 DEF MemoryInv, Owned, InPools
  <2>10. mem[b].cap = Capacity(full)
    BY <2>1, <2>2, <2>4 DEF MemoryInv, Written, Capacity, p
  <2> DEFINE new == [mem[b] EXCEPT !.size = full, !.msg = m]
  <2>11. new \in Block /\ new.cap = Capacity(full) /\ new.size = full /\ new.msg = m
    BY <1>0, <2>10 DEF Block
  <2>12. mem' = [mem EXCEPT ![b] = new]
    BY <1>1 DEF MemoryInv
  <2> HIDE DEF new
  <2>13. /\ mem' \in [Blocks -> Block] /\ mem'[b] = new
         /\ \A x \in Blocks : x # b => mem'[x] = mem[x]
    BY <2>11, <2>12 DEF MemoryInv
  <2> QED
    BY <2>5, <2>7, <2>8, <2>9, <2>11, <2>13 DEF full
<1>2. CASE /\ NeedsMalloc(full)
           /\ mem[b].cap = 0
           /\ mem' = [mem EXCEPT ![b] = [cap |-> Capacity(full), size |-> full, msg |-> m]]
           /\ UNCHANGED pools
  <2>1. b \notin Held /\ b \notin InPools
    BY <1>2 DEF MemoryInv, Owned
  <2>2. InPools' = InPools /\ PoolsApart' /\ pools' \in [Pools -> Seq(Blocks)]
    BY <1>2 DEF MemoryInv, InPools, PoolsApart
  <2> DEFINE new == [cap |-> Capacity(full), size |-> full, msg |-> m]
  <2>3. new \in Block
    BY <1>0 DEF Block
  <2>4. /\ mem' \in [Blocks -> Block] /\ mem'[b] = new
        /\ \A x \in Blocks : x # b => mem'[x] = mem[x]
    BY <1>2, <2>3 DEF MemoryInv
  <2> QED
    BY <1>2, <2>1, <2>2, <2>4
<1> QED
  BY <1>1, <1>2 DEF Alloc

\* When the new block is the only one that is held in addition, the memory is in
\* order again.
LEMMA AllocKeeps ==
    ASSUME MemoryInv, NEW m \in Msg, NEW b \in Blocks, Alloc(m, b),
           Held' = Held \cup {b}
    PROVE  MemoryInv'
<1>1. /\ b \notin Held
      /\ pools' \in [Pools -> Seq(Blocks)]
      /\ PoolsApart'
      /\ InPools' = InPools \ {b}
      /\ \A i \in Pools : Elems(pools'[i]) \subseteq Elems(pools[i])
      /\ mem' \in [Blocks -> Block]
  BY AllocEffect
<1>2. /\ mem'[b].cap = Capacity(Full(m.size))
      /\ mem'[b].size = Full(m.size) /\ mem'[b].msg = m
      /\ \A x \in Blocks : x # b => mem'[x] = mem[x]
  BY AllocEffect
<1>3. mem'[b].cap > 0
  BY <1>2, FullSize, CapacityFits DEF WORD
<1>5. Owned'
  BY <1>1, <1>2, <1>3 DEF MemoryInv, Owned
<1>6. /\ \A x \in Held' : /\ mem'[x].msg \in Msg
                          /\ mem'[x].size = Full(mem'[x].msg.size)
                          /\ mem'[x].cap = Capacity(mem'[x].size)
      /\ \A x \in Blocks \ Held' : mem'[x].msg = NULL
  <2>1. \A x \in Held : x # b
    BY <1>1
  <2>2. \A x \in Held : mem'[x] = mem[x]
    BY <1>2, <2>1 DEF MemoryInv
  <2> QED
    BY <1>1, <1>2, <2>2 DEF MemoryInv, Written
<1>7. \A i \in Pools : \A x \in Elems(pools'[i]) : mem'[x].cap = PoolSize(i)
  <2> SUFFICES ASSUME NEW i \in Pools, NEW x \in Elems(pools'[i])
               PROVE  mem'[x].cap = PoolSize(i)
    OBVIOUS
  <2>1. x \in Elems(pools[i]) /\ x \in Blocks
    BY <1>1, ElemsBasics DEF MemoryInv
  <2>2. x # b
    BY <1>1 DEF InPools
  <2> QED
    BY <1>2, <2>1, <2>2 DEF MemoryInv, Written
<1> QED
  BY <1>1, <1>5, <1>6, <1>7 DEF MemoryInv, Written

\* A block that is freed goes to the front of the pool it came from, or back to
\* malloc.
LEMMA FreeKeeps ==
    ASSUME MemoryInv, NEW b \in Held, Free(b), Held' = Held \ {b}
    PROVE  MemoryInv'
<1>0. /\ b \in Blocks /\ mem[b].msg \in Msg /\ mem[b].size = Full(mem[b].msg.size)
      /\ mem[b].cap = Capacity(mem[b].size) /\ mem[b] \in Block
      /\ mem \in [Blocks -> Block] /\ b \notin InPools /\ mem[b].cap > 0
  BY DEF MemoryInv, Written, Owned
<1>1. mem[b].size \in Nat
  BY <1>0, FullSize
<1>2. CASE Pooled(mem[b].size)
  <2> DEFINE p == PoolOf(mem[b].size)
  <2>1. p \in Pools /\ mem[b].cap = PoolSize(p)
    BY <1>0, <1>1, <1>2, PoolFound DEF Capacity
  <2> DEFINE new == [mem[b] EXCEPT !.size = 0, !.msg = NULL]
  <2>2. new \in Block /\ new.cap = mem[b].cap /\ new.msg = NULL
    BY <1>0 DEF Block
  <2>3. mem' = [mem EXCEPT ![b] = new] /\ pools' = [pools EXCEPT ![p] = <<b>> \o @]
    BY <1>0, <1>2 DEF Free
  <2> HIDE DEF new, p
  <2>4. /\ mem' \in [Blocks -> Block] /\ mem'[b] = new
        /\ \A x \in Blocks : x # b => mem'[x] = mem[x]
    BY <1>0, <2>2, <2>3
  <2>5. /\ <<b>> \o pools[p] \in Seq(Blocks)
        /\ Elems(<<b>> \o pools[p]) = Elems(pools[p]) \cup {b}
        /\ Once(<<b>> \o pools[p])
    <3>1. pools[p] \in Seq(Blocks) /\ Once(pools[p]) /\ b \notin Elems(pools[p])
      BY <1>0, <2>1 DEF MemoryInv, PoolsApart, InPools
    <3> QED
      BY <1>0, <3>1, ElemsCons
  <2>6. /\ pools' \in [Pools -> Seq(Blocks)]
        /\ pools'[p] = <<b>> \o pools[p]
        /\ \A i \in Pools : i # p => pools'[i] = pools[i]
    BY <2>1, <2>3, <2>5 DEF MemoryInv
  <2>7. \A i \in Pools : /\ Once(pools'[i])
                         /\ Elems(pools'[i]) = IF i = p THEN Elems(pools[i]) \cup {b}
                                               ELSE Elems(pools[i])
    BY <2>5, <2>6 DEF MemoryInv, PoolsApart
  <2>8. \A i \in Pools : b \notin Elems(pools[i])
    BY <1>0 DEF InPools
  <2>9. PoolsApart'
    BY <2>7, <2>8 DEF MemoryInv, PoolsApart
  <2>10. InPools' = InPools \cup {b}
    <3>1. \A x : x \in InPools' <=> \E i \in Pools : x \in Elems(pools'[i])
      BY DEF InPools
    <3> QED
      BY <3>1, <2>1, <2>7 DEF InPools
  <2>11. Owned'
    BY <1>0, <2>2, <2>4, <2>10 DEF MemoryInv, Owned
  <2>12. /\ \A x \in Held' : /\ mem'[x].msg \in Msg
                             /\ mem'[x].size = Full(mem'[x].msg.size)
                             /\ mem'[x].cap = Capacity(mem'[x].size)
         /\ \A x \in Blocks \ Held' : mem'[x].msg = NULL
    BY <2>2, <2>4 DEF MemoryInv, Written
  <2>13. \A i \in Pools : \A x \in Elems(pools'[i]) : mem'[x].cap = PoolSize(i)
    <3> SUFFICES ASSUME NEW i \in Pools, NEW x \in Elems(pools'[i])
                 PROVE  mem'[x].cap = PoolSize(i)
      OBVIOUS
    <3>1. CASE x = b
      BY <3>1, <2>1, <2>2, <2>4, <2>7, <2>8
    <3>2. CASE x # b
      <4>1. x \in Elems(pools[i]) /\ pools[i] \in Seq(Blocks)
        BY <3>2, <2>7 DEF MemoryInv
      <4>2. x \in Blocks
        BY <4>1, ElemsBasics
      <4> QED
        BY <3>2, <4>1, <4>2, <2>4 DEF MemoryInv, Written
    <3> QED
      BY <3>1, <3>2
  <2> QED
    BY <2>4, <2>6, <2>9, <2>11, <2>12, <2>13 DEF MemoryInv, Written
<1>3. CASE ~Pooled(mem[b].size)
  <2>1. mem' = [mem EXCEPT ![b] = Unallocated] /\ pools' = pools
    BY <1>3 DEF Free
  <2>2. Unallocated \in Block /\ Unallocated.cap = 0 /\ Unallocated.msg = NULL
    BY DEF Unallocated, Block
  <2>3. /\ mem' \in [Blocks -> Block] /\ mem'[b].cap = 0 /\ mem'[b].msg = NULL
        /\ \A x \in Blocks : x # b => mem'[x] = mem[x]
    BY <1>0, <2>1, <2>2
  <2>4. InPools' = InPools /\ PoolsApart'
    BY <2>1 DEF MemoryInv, InPools, PoolsApart
  <2>5. Owned'
    BY <1>0, <2>3, <2>4 DEF MemoryInv, Owned
  <2>6. Written'
    <3>1. /\ \A x \in Held' : /\ mem'[x].msg \in Msg
                              /\ mem'[x].size = Full(mem'[x].msg.size)
                              /\ mem'[x].cap = Capacity(mem'[x].size)
          /\ \A x \in Blocks \ Held' : mem'[x].msg = NULL
      BY <2>3 DEF MemoryInv, Written
    <3>2. \A i \in Pools : \A x \in Elems(pools[i]) : x # b /\ x \in Blocks
      BY <1>0, ElemsBasics DEF MemoryInv, InPools
    <3>3. \A i \in Pools : \A x \in Elems(pools'[i]) : mem'[x].cap = PoolSize(i)
      BY <2>1, <2>3, <3>2 DEF MemoryInv, Written
    <3> QED
      BY <3>1, <3>3 DEF Written
  <2> QED
    BY <2>1, <2>3, <2>4, <2>5, <2>6 DEF MemoryInv
<1> QED
  BY <1>2, <1>3

\* Nothing is allocated or freed, and the same blocks are held.
LEMMA MoveKeeps ==
    ASSUME MemoryInv, UNCHANGED poolVars, Held' = Held
    PROVE  MemoryInv'
<1>1. InPools' = InPools /\ PoolsApart'
  BY DEF MemoryInv, InPools, PoolsApart, poolVars
<1> QED
  BY <1>1 DEF MemoryInv, Owned, Written, poolVars

-------------------------------------------------------------------------------
(***************************************************************************)
(* Every step preserves the ownership of the blocks.                       *)
(***************************************************************************)
LEMMA BlockInvSplits == BlockInv <=> TypeOK /\ HoldersApart /\ MemoryInv
  BY HeldAreBlocks DEF BlockInv, MemoryInv, TypeOK

\* The blocks that threads hold are addresses.
LEMMA BufIsBlock ==
    ASSUME TypeOK, NEW t \in Threads, buf[t] # NULL
    PROVE  buf[t] \in Blocks /\ buf[t] \in Held
  BY DEF TypeOK, Held

LEMMA BlockInit == Init => BlockInv
<1> SUFFICES ASSUME Init PROVE BlockInv
  OBVIOUS
<1>1. TypeOK
  <2>1. <<>> \in Seq(Blocks) /\ Unallocated \in Block
    BY DEF Unallocated, Block
  <2>2. 0 \in 0 .. MaxMsgs
    BY MaxMsgsAssumption
  <2> QED
    BY <2>1, <2>2 DEF Init, TypeOK
<1>2. InPools = {} /\ Held = {}
  BY ElemsBasics DEF Init, InPools, Held
<1>3. PoolsApart /\ HoldersApart
  BY ElemsBasics DEF Init, PoolsApart, HoldersApart
<1>4. Owned
  BY <1>2 DEF Init, Owned, Unallocated
<1>5. Written
  BY <1>2, ElemsBasics DEF Init, Written, Unallocated
<1> QED
  BY <1>1, <1>3, <1>4, <1>5 DEF BlockInv

\* PushMsg: the block that is allocated is the thread's alone.
LEMMA PushMsgStep ==
    ASSUME BlockInv, NEW t \in Threads, NEW size \in Sizes, PushMsg(t, size)
    PROVE  BlockInv'
<1> DEFINE m == Packet(t, size)
<1>1. num[t] \in 0 .. MaxMsgs /\ num[t] < MaxMsgs
  BY DEF BlockInv, TypeOK, PushMsg, Receives
<1>2. m \in Msg
  BY <1>1, MaxMsgsAssumption DEF Packet, Msg
<1>3. PICK b \in Blocks : Alloc(m, b) /\ buf' = [buf EXCEPT ![t] = b]
  BY DEF PushMsg
<1>4. MemoryInv /\ TypeOK /\ HoldersApart
  BY BlockInvSplits
<1>5. b \notin Held /\ b # NULL
  BY <1>2, <1>3, <1>4, AllocEffect, NullAssumption
<1>6. UNCHANGED <<queue, handVars, stopVars, fault>> /\ buf[t] = NULL
  BY DEF PushMsg, Receives
<1>7. /\ buf' \in [Threads -> Blocks \cup {NULL}] /\ buf'[t] = b
      /\ \A u \in Threads : u # t => buf'[u] = buf[u]
  BY <1>3, <1>4 DEF TypeOK
<1>8. Held' = Held \cup {b}
  <2>1. \A x : x \in {buf'[u] : u \in Threads} \ {NULL}
                <=> x \in ({buf[u] : u \in Threads} \ {NULL}) \cup {b}
    BY <1>5, <1>6, <1>7
  <2> QED
    BY <2>1, <1>6 DEF Held, handVars
<1>9. HoldersApart'
  BY <1>4, <1>5, <1>6, <1>7 DEF HoldersApart, Held, handVars
<1>10. MemoryInv'
  BY <1>2, <1>3, <1>4, <1>8, AllocKeeps
<1>11. TypeOK'
  <2>1. num' \in [Threads -> 0 .. MaxMsgs]
    BY <1>1, <1>4, MaxMsgsAssumption DEF PushMsg, Receives, TypeOK
  <2> QED
    BY <2>1, <1>4, <1>6, <1>7, <1>10 DEF TypeOK, MemoryInv, handVars, stopVars
<1> QED
  BY <1>9, <1>10, <1>11 DEF BlockInv, MemoryInv

\* Push: the block moves from the thread to the end of the queue.
LEMMA PushStep ==
    ASSUME BlockInv, NEW t \in Threads, Push(t)
    PROVE  BlockInv'
<1> DEFINE b == buf[t]
<1>1. MemoryInv /\ TypeOK /\ HoldersApart
  BY BlockInvSplits
<1>2. /\ b \in Blocks /\ b # NULL /\ queue' = Append(queue, b)
      /\ UNCHANGED <<poolVars, num, handVars, stopVars, fault>>
  BY <1>1 DEF Push, TypeOK
<1>3. /\ buf' \in [Threads -> Blocks \cup {NULL}] /\ buf'[t] = NULL
      /\ \A u \in Threads : u # t => buf'[u] = buf[u]
  BY <1>1 DEF Push, TypeOK
<1> HIDE DEF b
<1>4. /\ queue' \in Seq(Blocks) /\ Elems(queue') = Elems(queue) \cup {b} /\ Once(queue')
  <2>1. queue \in Seq(Blocks) /\ Once(queue) /\ b \notin Elems(queue)
    BY <1>1 DEF TypeOK, HoldersApart, b
  <2> QED
    BY <1>2, <2>1, ElemsAppend
<1>5. \A u \in Threads : u # t => buf'[u] # b
  BY <1>1, <1>2, <1>3 DEF HoldersApart, b
<1>6. Held' = Held
  <2>1. \A x : x \in {buf[u] : u \in Threads} \ {NULL}
                <=> x \in ({buf'[u] : u \in Threads} \ {NULL}) \cup {b}
    BY <1>2, <1>3 DEF b
  <2> QED
    BY <2>1, <1>2, <1>4 DEF Held, handVars
<1>7. HoldersApart'
  <2>1. b \notin Elems(batch) /\ b # hand
    BY <1>1, <1>2 DEF HoldersApart, b
  <2>2. NULL \notin Elems(queue) \cup Elems(batch)
    BY <1>1, ElemsBasics, NullAssumption DEF TypeOK
  <2>3. batch' = batch /\ hand' = hand
    BY <1>2 DEF handVars
  <2>4. \A u, v \in Threads : buf'[u] # NULL /\ buf'[u] = buf'[v] => u = v
    BY <1>1, <1>3 DEF HoldersApart
  <2>5. \A u \in Threads : buf'[u] \notin Elems(queue') \cup Elems(batch')
    BY <1>1, <1>2, <1>3, <1>4, <1>5, <2>2, <2>3 DEF HoldersApart
  <2>6. hand' # NULL => \A u \in Threads : buf'[u] # hand'
    BY <1>1, <1>3, <2>3 DEF HoldersApart
  <2> QED
    BY <1>1, <1>4, <2>1, <2>3, <2>4, <2>5, <2>6 DEF HoldersApart
<1>8. MemoryInv'
  BY <1>1, <1>2, <1>6, MoveKeeps
<1>9. TypeOK'
  BY <1>1, <1>2, <1>3, <1>4 DEF TypeOK, poolVars, handVars, stopVars
<1> QED
  BY <1>7, <1>8, <1>9 DEF BlockInv, MemoryInv

\* GetMsgQueue: all the blocks of the queue become the batch.
LEMMA GetMsgQueueStep ==
    ASSUME BlockInv, GetMsgQueue, batch = <<>>,
           UNCHANGED <<poolVars, hand, out, sideVars, active, up, glob, fault>>,
           leaving' \in BOOLEAN, logic' \in BOOLEAN
    PROVE  BlockInv'
<1>1. MemoryInv /\ TypeOK /\ HoldersApart
  BY BlockInvSplits
<1>2. batch' = queue /\ queue' = <<>> /\ Elems(batch) = {} /\ Elems(queue') = {} /\ Once(queue')
  BY ElemsBasics DEF GetMsgQueue
<1>3. Held' = Held
  BY <1>2 DEF Held, sideVars
<1>4. MemoryInv'
  BY <1>1, <1>3, MoveKeeps
<1>5. HoldersApart'
  BY <1>1, <1>2 DEF HoldersApart, sideVars
<1>6. TypeOK'
  BY <1>1, <1>2 DEF TypeOK, sideVars, poolVars
<1> QED
  BY <1>4, <1>5, <1>6 DEF BlockInv, MemoryInv

\* ProcessMsg: the first block of the batch is in the hands of the handler.
LEMMA ProcessMsgStep ==
    ASSUME BlockInv, ProcessMsg
    PROVE  BlockInv'
<1> DEFINE b == Head(batch)
<1>1. MemoryInv /\ TypeOK /\ HoldersApart
  BY BlockInvSplits
<1>2. /\ batch # <<>> /\ hand = NULL /\ hand' = b /\ batch' = Tail(batch)
      /\ out' = mem[b].msg
      /\ UNCHANGED <<poolVars, queue, leaving, sideVars, stopVars, fault>>
  BY DEF ProcessMsg
<1>3. /\ b \in Blocks /\ b \in Elems(batch) /\ batch' \in Seq(Blocks) /\ Once(batch')
      /\ Elems(batch') = Elems(batch) \ {b}
  BY <1>1, <1>2, ElemsTail DEF TypeOK, HoldersApart
<1> HIDE DEF b
<1>4. b # NULL
  BY <1>3, NullAssumption
<1>5. Held' = Held
  BY <1>2, <1>3, <1>4 DEF Held, sideVars
<1>6. MemoryInv'
  BY <1>1, <1>2, <1>5, MoveKeeps
<1>7. HoldersApart'
  BY <1>1, <1>2, <1>3, <1>4 DEF HoldersApart, sideVars
<1>8. mem[b].msg \in Msg \cup {NULL}
  BY <1>1, <1>3 DEF TypeOK, Block
<1>9. TypeOK'
  BY <1>1, <1>2, <1>3, <1>8 DEF TypeOK, sideVars, poolVars, stopVars
<1> QED
  BY <1>6, <1>7, <1>9 DEF BlockInv, MemoryInv

\* FreeMsgBlock: the block leaves the handler's hands.
LEMMA FreeMsgBlockStep ==
    ASSUME BlockInv, FreeMsgBlock
    PROVE  BlockInv'
<1>1. MemoryInv /\ TypeOK /\ HoldersApart
  BY BlockInvSplits
<1>2. /\ hand # NULL /\ Free(hand) /\ hand' = NULL
      /\ UNCHANGED <<queue, batch, leaving, out, sideVars, active, up, glob, fault>>
      /\ logic' \in BOOLEAN
  BY DEF FreeMsgBlock
<1>3. hand \in Held /\ Held' = Held \ {hand}
  <2>1. \A t \in Threads : buf[t] # hand
    BY <1>1, <1>2 DEF HoldersApart
  <2>2. hand \notin Elems(queue) \cup Elems(batch)
    BY <1>1 DEF HoldersApart
  <2> QED
    BY <1>2, <2>1, <2>2 DEF Held, sideVars
<1>4. MemoryInv'
  BY <1>1, <1>2, <1>3, FreeKeeps
<1>5. NULL \notin Elems(queue) \cup Elems(batch)
  BY <1>1, ElemsBasics, NullAssumption DEF TypeOK
<1>6. HoldersApart'
  BY <1>1, <1>2, <1>5 DEF HoldersApart, sideVars
<1>7. TypeOK'
  BY <1>1, <1>2, <1>4 DEF TypeOK, MemoryInv, sideVars
<1> QED
  BY <1>4, <1>6, <1>7 DEF BlockInv, MemoryInv

\* UnInit frees the block at the head of the queue.
LEMMA UnInitFreeStep ==
    ASSUME BlockInv, UnInitFree
    PROVE  BlockInv'
<1> DEFINE b == Head(queue)
<1>1. MemoryInv /\ TypeOK /\ HoldersApart
  BY BlockInvSplits
<1>2. /\ queue # <<>> /\ Free(b) /\ queue' = Tail(queue)
      /\ UNCHANGED <<sideVars, handVars, stopVars, fault>>
  BY DEF UnInitFree
<1>3. /\ b \in Blocks /\ b \in Elems(queue) /\ queue' \in Seq(Blocks) /\ Once(queue')
      /\ Elems(queue') = Elems(queue) \ {b}
  BY <1>1, <1>2, ElemsTail DEF TypeOK, HoldersApart
<1> HIDE DEF b
<1>4. b \in Held /\ Held' = Held \ {b}
  <2>1. b \notin Elems(batch) /\ b # hand /\ \A t \in Threads : buf[t] # b
    BY <1>1, <1>3 DEF HoldersApart
  <2> QED
    BY <1>2, <1>3, <2>1 DEF Held, sideVars, handVars
<1>5. MemoryInv'
  BY <1>1, <1>2, <1>4, FreeKeeps
<1>6. HoldersApart'
  BY <1>1, <1>2, <1>3 DEF HoldersApart, sideVars, handVars
<1>7. TypeOK'
  BY <1>1, <1>2, <1>3, <1>5 DEF TypeOK, MemoryInv, sideVars, handVars, stopVars
<1> QED
  BY <1>5, <1>6, <1>7 DEF BlockInv, MemoryInv

\* DeletePools: the free blocks are gone, the others stay as they are.
LEMMA DeletePoolsStep ==
    ASSUME BlockInv, DeletePools
    PROVE  BlockInv'
<1>1. MemoryInv /\ TypeOK /\ HoldersApart
  BY BlockInvSplits
<1>2. /\ pools' = [i \in Pools |-> <<>>]
      /\ UNCHANGED <<queue, sideVars, handVars, active, up, logic, fault>>
      /\ glob' = "down"
  BY DEF DeletePools
<1>3. Held' = Held /\ HoldersApart'
  BY <1>1, <1>2 DEF Held, HoldersApart, sideVars, handVars
<1>4. /\ \A i \in Pools : pools'[i] = <<>> /\ Elems(pools'[i]) = {} /\ Once(pools'[i])
      /\ pools' \in [Pools -> Seq(Blocks)]
  BY <1>2, ElemsBasics
<1>5. InPools' = {} /\ PoolsApart'
  BY <1>4 DEF InPools, PoolsApart
<1>6. \A b \in Blocks : (\E i \in Pools : \E k \in DOMAIN pools[i] : pools[i][k] = b)
                         <=> b \in InPools
  BY DEF InPools, Elems
<1>7. mem' = [b \in Blocks |-> IF b \in InPools THEN Unallocated ELSE mem[b]]
  BY <1>6 DEF DeletePools
<1>8. Unallocated \in Block /\ Unallocated.cap = 0 /\ Unallocated.msg = NULL
  BY DEF Unallocated, Block
<1>9. mem' \in [Blocks -> Block]
  BY <1>1, <1>7, <1>8 DEF TypeOK
<1>10. Owned'
  BY <1>1, <1>3, <1>5, <1>7, <1>8 DEF MemoryInv, Owned
<1>11. Written'
  <2>1. \A b \in Held : b \notin InPools /\ b \in Blocks
    BY <1>1 DEF MemoryInv, Owned
  <2>2. \A b \in Held : mem'[b] = mem[b]
    BY <1>7, <2>1
  <2>3. \A b \in Blocks \ Held : mem'[b].msg = NULL
    BY <1>1, <1>7, <1>8 DEF MemoryInv, Written
  <2> QED
    BY <1>1, <1>3, <1>4, <2>2, <2>3 DEF MemoryInv, Written
<1>12. TypeOK'
  BY <1>1, <1>2, <1>4, <1>9 DEF TypeOK, sideVars, handVars
<1> QED
  BY <1>3, <1>5, <1>10, <1>11, <1>12 DEF BlockInv

\* The other steps touch no block and no list.
LEMMA QuietStep ==
    ASSUME BlockInv, UNCHANGED <<poolVars, queue, buf, batch, hand, out>>,
           num' \in [Threads -> 0 .. MaxMsgs], leaving' \in BOOLEAN, active' \in BOOLEAN,
           up' \in [Threads -> BOOLEAN], logic' \in BOOLEAN, fault' \in BOOLEAN,
           glob' \in {"up", "draining", "drained", "down"}
    PROVE  BlockInv'
<1>1. MemoryInv /\ TypeOK /\ HoldersApart
  BY BlockInvSplits
<1>2. Held' = Held /\ HoldersApart'
  BY <1>1 DEF Held, HoldersApart
<1>3. MemoryInv'
  BY <1>1, <1>2, MoveKeeps
<1>4. TypeOK'
  BY <1>1 DEF TypeOK, poolVars
<1> QED
  BY <1>2, <1>3, <1>4 DEF BlockInv, MemoryInv

\* A message that has no block only counts.
LEMMA ReceivesCounts ==
    ASSUME TypeOK, NEW t \in Threads, Receives(t)
    PROVE  num' \in [Threads -> 0 .. MaxMsgs]
  BY MaxMsgsAssumption DEF TypeOK, Receives

LEMMA BlockStep == BlockInv /\ [Next]_vars => BlockInv'
<1> SUFFICES ASSUME BlockInv, [Next]_vars PROVE BlockInv'
  OBVIOUS
<1> USE DEF sideVars, handVars, stopVars
<1>0. TypeOK
  BY DEF BlockInv
<1>1. ASSUME NEW t \in Threads, NEW size \in Sizes, PushMsg(t, size) PROVE BlockInv'
  BY <1>1, PushMsgStep
<1>2. ASSUME NEW t \in Threads, NEW size \in Sizes, PushMsgFails(t, size) PROVE BlockInv'
  <2>1. num' \in [Threads -> 0 .. MaxMsgs]
    BY <1>0, <1>2, ReceivesCounts DEF PushMsgFails
  <2> QED
    BY <1>0, <1>2, <2>1, QuietStep DEF PushMsgFails, TypeOK
<1>3. ASSUME NEW t \in Threads, NEW size \in Sizes, PushMsgFaults(t, size) PROVE BlockInv'
  <2>1. num' \in [Threads -> 0 .. MaxMsgs]
    BY <1>0, <1>3, ReceivesCounts DEF PushMsgFaults
  <2> QED
    BY <1>0, <1>3, <2>1, QuietStep DEF PushMsgFaults, TypeOK
<1>4. ASSUME NEW t \in Threads, Push(t) PROVE BlockInv'
  BY <1>4, PushStep
<1>5. ASSUME NEW t \in Threads, StopThread(t) PROVE BlockInv'
  BY <1>0, <1>5, QuietStep DEF StopThread, TypeOK
<1>6. CASE DoProcessMsg
  <2>1. CASE GetMsgQueue /\ leaving' = ~active /\ UNCHANGED logic
    <3>1. leaving' \in BOOLEAN /\ logic' \in BOOLEAN /\ batch = <<>>
      BY <1>0, <1>6, <2>1 DEF TypeOK, DoProcessMsg, Ready
    <3> QED
      BY <1>6, <2>1, <3>1, GetMsgQueueStep DEF DoProcessMsg
  <2>2. CASE queue = <<>> /\ ~active /\ logic' = FALSE /\ UNCHANGED <<queue, batch, leaving>>
    BY <1>0, <1>6, <2>2, QuietStep DEF DoProcessMsg, TypeOK
  <2> QED
    BY <1>6, <2>1, <2>2 DEF DoProcessMsg
<1>7. CASE GetMsg
  BY <1>0, <1>7, GetMsgQueueStep DEF GetMsg, TypeOK, Ready
<1>8. CASE ProcessMsg
  BY <1>8, ProcessMsgStep
<1>9. CASE FreeMsgBlock
  BY <1>9, FreeMsgBlockStep
<1>10. CASE LogicShutdown
  BY <1>0, <1>10, QuietStep DEF LogicShutdown, TypeOK
<1>11. CASE UnInit
  BY <1>0, <1>11, QuietStep DEF UnInit, TypeOK
<1>12. CASE UnInitFree
  BY <1>12, UnInitFreeStep
<1>13. CASE UnInitUnlock
  BY <1>0, <1>13, QuietStep DEF UnInitUnlock, TypeOK
<1>14. CASE DeletePools
  BY <1>14, DeletePoolsStep
<1>15. CASE UNCHANGED vars
  BY <1>0, <1>15, QuietStep DEF vars, TypeOK
<1> QED
  BY <1>1, <1>2, <1>3, <1>4, <1>5, <1>6, <1>7, <1>8, <1>9, <1>10, <1>11, <1>12,
     <1>13, <1>14, <1>15 DEF Next, Consumer, Main

-------------------------------------------------------------------------------
(***************************************************************************)
(* Every step keeps the order of the shutdown.                             *)
(***************************************************************************)
LEMMA StopStep ==
    ASSUME TypeOK, StopInv, Server => ~fault, [Next]_vars
    PROVE  StopInv' /\ (Server => ~fault')
<1> USE DEF sideVars, handVars, stopVars, StopInv, Ready
<1>0. TypeOK
  OBVIOUS
<1>1. ASSUME NEW t \in Threads, NEW size \in Sizes, PushMsg(t, size)
      PROVE  StopInv' /\ (Server => ~fault')
  BY <1>0, <1>1 DEF PushMsg, Receives, TypeOK
<1>2. ASSUME NEW t \in Threads, NEW size \in Sizes, PushMsgFails(t, size)
      PROVE  StopInv' /\ (Server => ~fault')
  BY <1>2 DEF PushMsgFails
<1>3. ASSUME NEW t \in Threads, NEW size \in Sizes, PushMsgFaults(t, size)
      PROVE  StopInv' /\ (Server => ~fault')
  BY <1>3 DEF PushMsgFaults, Receives
<1>4. ASSUME NEW t \in Threads, Push(t) PROVE StopInv' /\ (Server => ~fault')
  BY <1>0, <1>4 DEF Push, TypeOK
<1>5. ASSUME NEW t \in Threads, StopThread(t) PROVE StopInv' /\ (Server => ~fault')
  BY <1>0, <1>5 DEF StopThread, TypeOK
<1>6. CASE DoProcessMsg
  BY <1>0, <1>6 DEF DoProcessMsg, GetMsgQueue, TypeOK
<1>7. CASE GetMsg
  BY <1>7 DEF GetMsg, GetMsgQueue
<1>8. CASE ProcessMsg
  BY <1>8 DEF ProcessMsg
<1>9. CASE FreeMsgBlock
  BY <1>0, <1>9 DEF FreeMsgBlock, TypeOK
<1>10. CASE LogicShutdown
  BY <1>10 DEF LogicShutdown
<1>11. CASE UnInit
  BY <1>11, ServerAssumption DEF UnInit, Done
<1>12. CASE UnInitFree
  BY <1>12 DEF UnInitFree
<1>13. CASE UnInitUnlock
  BY <1>13 DEF UnInitUnlock
<1>14. CASE DeletePools
  BY <1>14 DEF DeletePools
<1>15. CASE UNCHANGED vars
  BY <1>15 DEF vars
<1> QED
  BY <1>1, <1>2, <1>3, <1>4, <1>5, <1>6, <1>7, <1>8, <1>9, <1>10, <1>11, <1>12,
     <1>13, <1>14, <1>15 DEF Next, Consumer, Main

\* The inductive invariant holds in every reachable state.
LEMMA Invariance == Spec => []IInv
<1>1. Init => IInv
  BY BlockInit DEF Init, IInv, StopInv, Ready
<1>2. IInv /\ [Next]_vars => IInv'
  BY BlockStep, StopStep DEF IInv, BlockInv
<1> QED
  BY <1>1, <1>2, PTL DEF Spec

-------------------------------------------------------------------------------
(***************************************************************************)
(* The theorems.                                                           *)
(***************************************************************************)
\* Every variable keeps its type: no list ever holds the null pointer, whatever
\* PushMsg, GetMsgQueue, FreeMsgBlock and UnInit do meanwhile.
THEOREM TypeCorrect == Spec => []TypeOK
<1>1. IInv => TypeOK
  BY DEF IInv, BlockInv
<1> QED
  BY <1>1, Invariance, PTL

\* The Logic thread ends only when everything that was pushed is handled
\* (DoProcessMsg, WorldServer::Shutdown).
THEOREM ShutdownLosesNothing == Spec => []ShutdownHandlesAll
<1>1. IInv => ShutdownHandlesAll
  BY DEF IInv, StopInv, ShutdownHandlesAll, Ready
<1> QED
  BY <1>1, Invariance, PTL

\* In the server no thread uses a pool that UnInit has deleted, as the comment
\* in Main.cpp says.  In the client library one can: a run shows how.
THEOREM ServerUnInitIsLast == Spec => [](Server => UnInitIsLast)
<1>1. IInv => (Server => UnInitIsLast)
  BY DEF IInv, UnInitIsLast
<1> QED
  BY <1>1, Invariance, PTL

\* A message fits its block, and a block returns to the pool it came from, for
\* messages of every size (AllocMsgBlock, FreeMsgBlock).
THEOREM MessagesFit == Spec => []BlockFits
<1>1. ASSUME IInv PROVE BlockFits
  <2>1. \A i \in Pools : \A k \in DOMAIN pools[i] : mem[pools[i][k]].cap = PoolSize(i)
    BY <1>1 DEF IInv, BlockInv, Written, Elems
  <2>2. ASSUME NEW b \in Blocks, mem[b].msg # NULL
        PROVE  mem[b].cap >= mem[b].msg.size + WORD /\ mem[b].cap = Capacity(mem[b].size)
    <3>1. /\ mem[b].msg \in Msg /\ mem[b].size = Full(mem[b].msg.size)
          /\ mem[b].cap = Capacity(mem[b].size)
      BY <1>1, <2>2 DEF IInv, BlockInv, Written
    <3>2. Full(mem[b].msg.size) \in Nat /\ Full(mem[b].msg.size) = mem[b].msg.size + WORD
      BY <3>1, FullSize DEF Full
    <3> QED
      BY <3>1, <3>2, CapacityFits
  <2> QED
    BY <2>1, <2>2 DEF BlockFits
<1> QED
  BY <1>1, Invariance, PTL

\* The kinds of places of the property.
LEMMA PlaceKinds ==
    ASSUME NEW p
    PROVE  p \in Places <=>
              \/ \E i \in Pools : \E k \in DOMAIN pools[i] : p = <<"pool", i, k>>
              \/ \E k \in DOMAIN queue : p = <<"queue", 0, k>>
              \/ \E k \in DOMAIN batch : p = <<"batch", 0, k>>
              \/ \E t \in Threads : buf[t] # NULL /\ p = <<"buf", t, 0>>
              \/ hand # NULL /\ p = <<"hand", 0, 0>>
<1>1. \A i : p \in PoolPlaces(i) <=> \E k \in DOMAIN pools[i] : p = <<"pool", i, k>>
  BY Zenon DEF PoolPlaces
<1>2. p \in QueuePlaces <=> \E k \in DOMAIN queue : p = <<"queue", 0, k>>
  BY Zenon DEF QueuePlaces
<1>3. p \in BatchPlaces <=> \E k \in DOMAIN batch : p = <<"batch", 0, k>>
  BY Zenon DEF BatchPlaces
<1>4. p \in BufPlaces <=> \E t \in Threads : buf[t] # NULL /\ p = <<"buf", t, 0>>
  BY Zenon DEF BufPlaces
<1>5. p \in HandPlaces <=> hand # NULL /\ p = <<"hand", 0, 0>>
  BY Zenon DEF HandPlaces
<1>6. p \in Places <=> \/ \E i \in Pools : p \in PoolPlaces(i)
                       \/ p \in QueuePlaces \/ p \in BatchPlaces
                       \/ p \in BufPlaces \/ p \in HandPlaces
  BY DEF Places
<1> QED
  BY <1>1, <1>2, <1>3, <1>4, <1>5, <1>6, Zenon

\* The places of the property are the lists and hands of the invariant.
LEMMA PlacesAreHolders ==
    ASSUME TypeOK, NEW b
    PROVE  (\E p \in Places : Ptr(p) = b) <=> b \in InPools \cup Held
<1>1. ASSUME NEW p \in Places PROVE Ptr(p) \in InPools \cup Held
  <2>1. CASE \E i \in Pools : \E k \in DOMAIN pools[i] : p = <<"pool", i, k>>
    BY <2>1 DEF Ptr, InPools, Elems
  <2>2. CASE \E k \in DOMAIN queue : p = <<"queue", 0, k>>
    BY <2>2 DEF Ptr, Held, Elems
  <2>3. CASE \E k \in DOMAIN batch : p = <<"batch", 0, k>>
    BY <2>3 DEF Ptr, Held, Elems
  <2>4. CASE \E t \in Threads : buf[t] # NULL /\ p = <<"buf", t, 0>>
    BY <2>4 DEF Ptr, Held
  <2>5. CASE hand # NULL /\ p = <<"hand", 0, 0>>
    BY <2>5 DEF Ptr, Held
  <2> QED
    BY <1>1, <2>1, <2>2, <2>3, <2>4, <2>5, PlaceKinds, Zenon
<1>2. ASSUME b \in InPools PROVE \E p \in Places : Ptr(p) = b
  <2>1. PICK i \in Pools : \E k \in DOMAIN pools[i] : pools[i][k] = b
    BY <1>2 DEF InPools, Elems
  <2>2. PICK k \in DOMAIN pools[i] : pools[i][k] = b
    BY <2>1
  <2>3. <<"pool", i, k>> \in Places /\ Ptr(<<"pool", i, k>>) = b
    BY <2>2, PlaceKinds DEF Ptr
  <2> QED
    BY <2>3
<1>3. ASSUME b \in Elems(queue) PROVE \E p \in Places : Ptr(p) = b
  <2>1. PICK k \in DOMAIN queue : queue[k] = b
    BY <1>3 DEF Elems
  <2>2. <<"queue", 0, k>> \in Places /\ Ptr(<<"queue", 0, k>>) = b
    BY <2>1, PlaceKinds DEF Ptr
  <2> QED
    BY <2>2
<1>4. ASSUME b \in Elems(batch) PROVE \E p \in Places : Ptr(p) = b
  <2>1. PICK k \in DOMAIN batch : batch[k] = b
    BY <1>4 DEF Elems
  <2>2. <<"batch", 0, k>> \in Places /\ Ptr(<<"batch", 0, k>>) = b
    BY <2>1, PlaceKinds DEF Ptr
  <2> QED
    BY <2>2
<1>5. ASSUME NEW t \in Threads, b = buf[t], b # NULL PROVE \E p \in Places : Ptr(p) = b
  <2>1. <<"buf", t, 0>> \in Places /\ Ptr(<<"buf", t, 0>>) = b
    BY <1>5, PlaceKinds DEF Ptr
  <2> QED
    BY <2>1
<1>6. ASSUME b = hand, b # NULL PROVE \E p \in Places : Ptr(p) = b
  <2>1. <<"hand", 0, 0>> \in Places /\ Ptr(<<"hand", 0, 0>>) = b
    BY <1>6, PlaceKinds DEF Ptr
  <2> QED
    BY <2>1
<1> QED
  BY <1>1, <1>2, <1>3, <1>4, <1>5, <1>6 DEF Held

\* What a place of each kind points to.
LEMMA PtrKinds ==
    ASSUME NEW i, NEW k, NEW t
    PROVE  /\ Ptr(<<"pool", i, k>>) = pools[i][k]
           /\ Ptr(<<"queue", 0, k>>) = queue[k]
           /\ Ptr(<<"batch", 0, k>>) = batch[k]
           /\ Ptr(<<"buf", t, 0>>) = buf[t]
           /\ Ptr(<<"hand", 0, 0>>) = hand
  BY DEF Ptr

\* An address in a list or in someone's hands is in no other place.
LEMMA PlaceIsUnique ==
    ASSUME BlockInv, NEW p \in Places, NEW q \in Places, Ptr(p) = Ptr(q)
    PROVE  p = q
<1> DEFINE b == Ptr(q)
<1>0. /\ Ptr(p) = b
      /\ \A x \in Held : x \notin InPools
      /\ \A i, j \in Pools : i # j => Elems(pools[i]) \cap Elems(pools[j]) = {}
      /\ \A i \in Pools : Once(pools[i])
  BY DEF BlockInv, Owned, PoolsApart
<1>1. \A i \in Pools : \A k \in DOMAIN pools[i] :
          pools[i][k] \in InPools /\ pools[i][k] \in Elems(pools[i])
  BY DEF InPools, Elems
<1>2. /\ \A k \in DOMAIN queue : queue[k] \in Held /\ queue[k] \in Elems(queue)
      /\ \A k \in DOMAIN batch : batch[k] \in Held /\ batch[k] \in Elems(batch)
      /\ \A t \in Threads : buf[t] # NULL => buf[t] \in Held
      /\ hand # NULL => hand \in Held
  BY DEF Held, Elems
<1>q. \/ \E j \in Pools : \E l \in DOMAIN pools[j] : q = <<"pool", j, l>> /\ b = pools[j][l]
      \/ \E l \in DOMAIN queue : q = <<"queue", 0, l>> /\ b = queue[l]
      \/ \E l \in DOMAIN batch : q = <<"batch", 0, l>> /\ b = batch[l]
      \/ \E u \in Threads : buf[u] # NULL /\ q = <<"buf", u, 0>> /\ b = buf[u]
      \/ hand # NULL /\ q = <<"hand", 0, 0>> /\ b = hand
  <2>1. ASSUME NEW j \in Pools, NEW l \in DOMAIN pools[j], q = <<"pool", j, l>>
        PROVE  b = pools[j][l]
    BY <2>1, PtrKinds
  <2>2. ASSUME NEW l, q = <<"queue", 0, l>> PROVE b = queue[l]
    BY <2>2, PtrKinds
  <2>3. ASSUME NEW l, q = <<"batch", 0, l>> PROVE b = batch[l]
    BY <2>3, PtrKinds
  <2>4. ASSUME NEW u, q = <<"buf", u, 0>> PROVE b = buf[u]
    BY <2>4, PtrKinds
  <2>5. q = <<"hand", 0, 0>> => b = hand
    BY PtrKinds
  <2> HIDE DEF b
  <2> QED
    BY <2>1, <2>2, <2>3, <2>4, <2>5, PlaceKinds, Zenon
<1> HIDE DEF b
<1>3. ASSUME NEW i \in Pools, NEW k \in DOMAIN pools[i], p = <<"pool", i, k>> PROVE p = q
  <2>1. b = pools[i][k]
    BY <1>0, <1>3, PtrKinds
  <2>2. b \in InPools /\ b \notin Held
    BY <1>0, <1>1, <2>1
  <2>3. PICK j \in Pools : \E l \in DOMAIN pools[j] : q = <<"pool", j, l>> /\ b = pools[j][l]
    BY <2>2, <1>2, <1>q
  <2>4. PICK l \in DOMAIN pools[j] : q = <<"pool", j, l>> /\ b = pools[j][l]
    BY <2>3
  <2>5. b = pools[j][l]
    BY <2>4
  <2>6. i = j
    BY <2>1, <2>5, <1>0, <1>1
  <2>7. k = l
    BY <2>1, <2>5, <2>6, <1>0 DEF Once
  <2> QED
    BY <1>3, <2>4, <2>6, <2>7
<1>4. ASSUME NEW k \in DOMAIN queue, p = <<"queue", 0, k>> PROVE p = q
  <2>1. b = queue[k] /\ b \notin InPools /\ b \in Elems(queue)
    BY <1>0, <1>2, <1>4, PtrKinds
  <2>2. b \notin Elems(batch) /\ b # hand /\ \A t \in Threads : b # buf[t]
    BY <2>1 DEF BlockInv, HoldersApart
  <2>3. PICK l \in DOMAIN queue : q = <<"queue", 0, l>> /\ b = queue[l]
    BY <2>1, <2>2, <1>1, <1>2, <1>q
  <2>4. k = l
    BY <2>1, <2>3 DEF BlockInv, HoldersApart, Once
  <2> QED
    BY <1>4, <2>3, <2>4
<1>5. ASSUME NEW k \in DOMAIN batch, p = <<"batch", 0, k>> PROVE p = q
  <2>1. b = batch[k] /\ b \notin InPools /\ b \in Elems(batch)
    BY <1>0, <1>2, <1>5, PtrKinds
  <2>2. b \notin Elems(queue) /\ b # hand /\ \A t \in Threads : b # buf[t]
    BY <2>1 DEF BlockInv, HoldersApart
  <2>3. PICK l \in DOMAIN batch : q = <<"batch", 0, l>> /\ b = batch[l]
    BY <2>1, <2>2, <1>1, <1>2, <1>q
  <2>4. k = l
    BY <2>1, <2>3 DEF BlockInv, HoldersApart, Once
  <2> QED
    BY <1>5, <2>3, <2>4
<1>6. ASSUME NEW t \in Threads, buf[t] # NULL, p = <<"buf", t, 0>> PROVE p = q
  <2>1. b = buf[t] /\ b \notin InPools
    BY <1>0, <1>2, <1>6, PtrKinds
  <2>2. b \notin Elems(queue) /\ b \notin Elems(batch) /\ (hand # NULL => b # hand)
    BY <2>1 DEF BlockInv, HoldersApart
  <2>3. PICK u \in Threads : q = <<"buf", u, 0>> /\ b = buf[u]
    BY <1>6, <2>1, <2>2, <1>1, <1>2, <1>q
  <2>4. t = u
    BY <1>6, <2>1, <2>3 DEF BlockInv, HoldersApart
  <2> QED
    BY <1>6, <2>3, <2>4
<1>7. ASSUME hand # NULL, p = <<"hand", 0, 0>> PROVE p = q
  <2>1. b = hand /\ b \notin InPools
    BY <1>0, <1>2, <1>7, PtrKinds
  <2>2. b \notin Elems(queue) /\ b \notin Elems(batch) /\ \A t \in Threads : b # buf[t]
    BY <1>7, <2>1 DEF BlockInv, HoldersApart
  <2> QED
    BY <1>7, <2>1, <2>2, <1>1, <1>2, <1>q
<1> QED
  BY <1>3, <1>4, <1>5, <1>6, <1>7, PlaceKinds

\* Every block has one owner, although no lock guards a block (PushMsg,
\* ProcessMsg, FreeMsgBlock, UnInit).
THEOREM BlocksHaveOneOwner == Spec => []OneOwner
<1>1. ASSUME IInv PROVE OneOwner
  <2>0. BlockInv
    BY <1>1 DEF IInv
  <2>1. \A p, q \in Places : Ptr(p) = Ptr(q) => p = q
    BY <2>0, PlaceIsUnique
  <2>2. \A b : (\E p \in Places : Ptr(p) = b) <=> b \in InPools \cup Held
    BY <2>0, PlacesAreHolders DEF BlockInv
  <2>3. InPools \cup Held \subseteq Blocks
    BY <2>0, HeldAreBlocks, ElemsBasics DEF BlockInv, TypeOK, InPools
  <2>4. \A b \in Blocks : mem[b].cap > 0 <=> b \in InPools \cup Held
    BY <2>0 DEF BlockInv, Owned
  <2>5. {Ptr(p) : p \in Places} = {b \in Blocks : mem[b].cap > 0}
    BY <2>2, <2>3, <2>4
  <2> QED
    BY <2>1, <2>5 DEF OneOwner
<1> QED
  BY <1>1, Invariance, PTL

-------------------------------------------------------------------------------
(***************************************************************************)
(* The pipeline is a channel.                                              *)
(***************************************************************************)
\* The messages in the blocks of a list.
Msgs(m, w) == [k \in 1 .. Len(w) |-> m[w[k]].msg]

LEMMA MsgsType ==
    ASSUME NEW m \in [Blocks -> Block], NEW w \in Seq(Blocks)
    PROVE  /\ Msgs(m, w) \in Seq(Msg \cup {NULL}) /\ Len(Msgs(m, w)) = Len(w)
           /\ \A k \in 1 .. Len(w) : Msgs(m, w)[k] = m[w[k]].msg
<1>1. Len(w) \in Nat /\ \A k \in 1 .. Len(w) : w[k] \in Blocks
  BY LenProperties, ElementOfSeq
<1>2. \A k \in 1 .. Len(w) : m[w[k]].msg \in Msg \cup {NULL}
  BY <1>1 DEF Block
<1> QED
  BY <1>1, <1>2 DEF Msgs

\* Blocks that are not in the list do not matter.
LEMMA MsgsSame ==
    ASSUME NEW m \in [Blocks -> Block], NEW n \in [Blocks -> Block], NEW w \in Seq(Blocks),
           \A x \in Elems(w) : n[x].msg = m[x].msg
    PROVE  Msgs(n, w) = Msgs(m, w)
<1>1. \A k \in 1 .. Len(w) : w[k] \in Elems(w)
  BY LenProperties DEF Elems
<1> QED
  BY <1>1 DEF Msgs

LEMMA MsgsAppend ==
    ASSUME NEW m \in [Blocks -> Block], NEW w \in Seq(Blocks), NEW b \in Blocks
    PROVE  Msgs(m, Append(w, b)) = Append(Msgs(m, w), m[b].msg)
<1> DEFINE S == Msg \cup {NULL}
<1> DEFINE l == Msgs(m, Append(w, b))
<1> DEFINE r == Append(Msgs(m, w), m[b].msg)
<1>1. /\ Append(w, b) \in Seq(Blocks) /\ Len(Append(w, b)) = Len(w) + 1 /\ Len(w) \in Nat
      /\ \A k \in 1 .. Len(w) : Append(w, b)[k] = w[k]
      /\ Append(w, b)[Len(w) + 1] = b
  BY AppendProperties, LenProperties
<1>2. m[b].msg \in S
  BY DEF Block
<1>3. /\ l \in Seq(S) /\ Len(l) = Len(w) + 1
      /\ \A k \in 1 .. Len(w) + 1 : l[k] = m[Append(w, b)[k]].msg
  BY <1>1, MsgsType
<1>4. /\ r \in Seq(S) /\ Len(r) = Len(w) + 1
      /\ \A k \in 1 .. Len(w) : r[k] = m[w[k]].msg
      /\ r[Len(w) + 1] = m[b].msg
  <2>1. Msgs(m, w) \in Seq(S) /\ Len(Msgs(m, w)) = Len(w)
    BY MsgsType
  <2>2. \A k \in 1 .. Len(w) : Msgs(m, w)[k] = m[w[k]].msg
    BY MsgsType
  <2> HIDE DEF S
  <2> QED
    BY <1>2, <2>1, <2>2, AppendProperties
<1> HIDE DEF l, r, S
<1>5. \A k \in 1 .. Len(l) : l[k] = r[k]
  BY <1>1, <1>3, <1>4
<1>6. l = r
  BY <1>3, <1>4, <1>5, SeqEqual
<1> QED
  BY <1>6 DEF l, r

LEMMA MsgsTail ==
    ASSUME NEW m \in [Blocks -> Block], NEW w \in Seq(Blocks), w # <<>>
    PROVE  /\ Msgs(m, w) # <<>> /\ Head(Msgs(m, w)) = m[Head(w)].msg
           /\ Msgs(m, Tail(w)) = Tail(Msgs(m, w))
<1> DEFINE S == Msg \cup {NULL}
<1> DEFINE l == Msgs(m, Tail(w))
<1> DEFINE r == Tail(Msgs(m, w))
<1>1. /\ Tail(w) \in Seq(Blocks) /\ Len(Tail(w)) = Len(w) - 1 /\ Len(w) \in Nat \ {0}
      /\ \A k \in 1 .. Len(w) - 1 : Tail(w)[k] = w[k + 1]
      /\ Head(w) = w[1]
  BY HeadTailProperties, LenProperties, EmptySeq
<1>2. /\ Msgs(m, w) \in Seq(S) /\ Len(Msgs(m, w)) = Len(w)
      /\ \A k \in 1 .. Len(w) : Msgs(m, w)[k] = m[w[k]].msg
  BY MsgsType
<1>3. Msgs(m, w) # <<>>
  BY <1>1, <1>2, EmptySeq
<1>4. Head(Msgs(m, w)) = m[Head(w)].msg
  BY <1>1, <1>2, <1>3
<1>5. /\ l \in Seq(S) /\ Len(l) = Len(w) - 1
      /\ \A k \in 1 .. Len(w) - 1 : l[k] = m[Tail(w)[k]].msg
  BY <1>1, MsgsType
<1>6. /\ r \in Seq(S) /\ Len(r) = Len(w) - 1
      /\ \A k \in 1 .. Len(w) - 1 : r[k] = Msgs(m, w)[k + 1]
  BY <1>2, <1>3, HeadTailProperties
<1> HIDE DEF l, r, S
<1>7. \A k \in 1 .. Len(l) : l[k] = r[k]
  <2> SUFFICES ASSUME NEW k \in 1 .. Len(w) - 1 PROVE l[k] = r[k]
    BY <1>5
  <2>1. k + 1 \in 1 .. Len(w)
    BY <1>1
  <2> QED
    BY <1>1, <1>2, <1>5, <1>6, <2>1
<1>8. l = r
  BY <1>5, <1>6, <1>7, SeqEqual
<1> QED
  BY <1>3, <1>4, <1>8 DEF l, r

\* Pushing behind and taking from the front of two lists in a row.
LEMMA ConcatMoves ==
    ASSUME NEW s \in Seq(Blocks), NEW q \in Seq(Blocks), NEW b \in Blocks
    PROVE  /\ s \o Append(q, b) = Append(s \o q, b)
           /\ s # <<>> => /\ Tail(s) \o q = Tail(s \o q) /\ Head(s \o q) = Head(s)
                          /\ s \o q # <<>>
           /\ Elems(s \o q) = Elems(s) \cup Elems(q)
           /\ s \o q \in Seq(Blocks) /\ Len(s \o q) = Len(s) + Len(q)
<1> DEFINE c == s \o q
<1>1. /\ c \in Seq(Blocks) /\ Len(c) = Len(s) + Len(q)
      /\ \A k \in 1 .. Len(s) + Len(q) : c[k] = IF k =< Len(s) THEN s[k] ELSE q[k - Len(s)]
  BY ConcatProperties
<1>2. /\ Len(s) \in Nat /\ Len(q) \in Nat /\ DOMAIN s = 1 .. Len(s) /\ DOMAIN q = 1 .. Len(q)
      /\ DOMAIN c = 1 .. Len(s) + Len(q)
  BY <1>1, LenProperties
<1>3. s \o Append(q, b) = Append(c, b)
  <2>1. <<b>> \in Seq(Blocks)
    OBVIOUS
  <2>2. Append(q, b) = q \o <<b>>
    BY AppendIsConcat
  <2>3. s \o (q \o <<b>>) = (s \o q) \o <<b>>
    BY <2>1, ConcatAssociative
  <2>4. Append(s \o q, b) = (s \o q) \o <<b>>
    BY <1>1, AppendIsConcat
  <2> QED
    BY <2>2, <2>3, <2>4
<1>4. ASSUME s # <<>> PROVE Tail(s) \o q = Tail(c) /\ Head(c) = Head(s) /\ c # <<>>
  <2> DEFINE l == Tail(s) \o q
  <2> DEFINE r == Tail(c)
  <2> HIDE DEF c
  <2>1. Len(s) \in Nat \ {0} /\ Head(s) = s[1]
    BY <1>4, <1>2, EmptySeq
  <2>2. c # <<>> /\ Head(c) = c[1] /\ c[1] = s[1]
    BY <1>1, <1>2, <2>1, EmptySeq
  <2>3. /\ Tail(s) \in Seq(Blocks) /\ Len(Tail(s)) = Len(s) - 1
        /\ \A k \in 1 .. Len(s) - 1 : Tail(s)[k] = s[k + 1]
    BY <1>4, HeadTailProperties
  <2>4. /\ r \in Seq(Blocks) /\ Len(r) = Len(s) + Len(q) - 1
        /\ \A k \in 1 .. Len(s) + Len(q) - 1 : r[k] = c[k + 1]
    BY <1>1, <2>2, HeadTailProperties
  <2>5. /\ l \in Seq(Blocks) /\ Len(l) = Len(s) - 1 + Len(q)
        /\ \A k \in 1 .. Len(s) - 1 + Len(q) :
              l[k] = IF k =< Len(s) - 1 THEN Tail(s)[k] ELSE q[k - (Len(s) - 1)]
    <3>1. /\ l \in Seq(Blocks) /\ Len(l) = Len(Tail(s)) + Len(q)
          /\ \A k \in 1 .. Len(Tail(s)) + Len(q) :
                l[k] = IF k =< Len(Tail(s)) THEN Tail(s)[k] ELSE q[k - Len(Tail(s))]
      BY <2>3, ConcatProperties
    <3> QED
      BY <2>3, <3>1
  <2> HIDE DEF l, r
  <2>6. ASSUME NEW k \in 1 .. Len(s) + Len(q) - 1 PROVE l[k] = r[k]
    <3>1. k + 1 \in 1 .. Len(s) + Len(q) /\ k \in 1 .. Len(s) - 1 + Len(q)
      BY <1>2, <2>1
    <3>2. c[k + 1] = IF k + 1 =< Len(s) THEN s[k + 1] ELSE q[(k + 1) - Len(s)]
      BY <1>1, <3>1
    <3>3. CASE k =< Len(s) - 1
      BY <1>2, <2>1, <2>3, <2>4, <2>5, <3>1, <3>2, <3>3
    <3>4. CASE ~(k =< Len(s) - 1)
      <4>1. (k + 1) - Len(s) = k - (Len(s) - 1)
        BY <1>2, <2>1
      <4> QED
        BY <1>2, <2>1, <2>4, <2>5, <3>1, <3>2, <3>4, <4>1
    <3> QED
      BY <3>3, <3>4
  <2>7. l = r
    <3>1. Len(l) = Len(r) /\ \A k \in 1 .. Len(l) : l[k] = r[k]
      BY <1>2, <2>1, <2>4, <2>5, <2>6
    <3> QED
      BY <2>4, <2>5, <3>1, SeqEqual
  <2> QED
    BY <2>1, <2>2, <2>7 DEF l, r
<1>5. Elems(c) = Elems(s) \cup Elems(q)
  <2> HIDE DEF c
  <2>1. \A k \in 1 .. Len(q) : k + Len(s) \in 1 .. Len(s) + Len(q) /\ c[k + Len(s)] = q[k]
    BY <1>1, <1>2
  <2>2. \A k \in 1 .. Len(s) : k \in 1 .. Len(s) + Len(q) /\ c[k] = s[k]
    BY <1>1, <1>2
  <2>3. \A k \in 1 .. Len(s) + Len(q) : \/ k \in 1 .. Len(s) /\ c[k] = s[k]
                                        \/ k - Len(s) \in 1 .. Len(q) /\ c[k] = q[k - Len(s)]
    BY <1>1, <1>2
  <2>4. Elems(c) \subseteq Elems(s) \cup Elems(q)
    BY <1>2, <2>3 DEF Elems
  <2>5. Elems(s) \cup Elems(q) \subseteq Elems(c)
    BY <1>2, <2>1, <2>2 DEF Elems
  <2> QED
    BY <2>4, <2>5
<1> QED
  BY <1>1, <1>3, <1>4, <1>5

\* What waits is what the blocks of the batch and of the queue hold.
LEMMA WaitingIs ==
    ASSUME TypeOK
    PROVE  Waiting = Msgs(mem, batch \o queue)
<1>1. Len(batch \o queue) = Len(batch) + Len(queue)
  BY ConcatProperties DEF TypeOK
<1> QED
  BY <1>1 DEF Waiting, Msgs

\* The channel that the pipeline stands for.
Chan == IF glob = "up" THEN Waiting ELSE <<>>

\* A step after which the same messages wait in the same order.
LEMMA SameWaiting ==
    ASSUME TypeOK, TypeOK', batch' \o queue' = batch \o queue,
           \A x \in Elems(batch) \cup Elems(queue) : mem'[x].msg = mem[x].msg
    PROVE  Waiting' = Waiting
<1>1. /\ mem \in [Blocks -> Block] /\ mem' \in [Blocks -> Block]
      /\ batch \in Seq(Blocks) /\ queue \in Seq(Blocks)
      /\ batch' \in Seq(Blocks) /\ queue' \in Seq(Blocks)
  BY DEF TypeOK
<1> DEFINE w == batch \o queue
<1>2. w \in Seq(Blocks) /\ Len(w) = Len(batch) + Len(queue)
  BY <1>1, ConcatProperties
<1>3. Elems(w) = Elems(batch) \cup Elems(queue)
  <2>1. CASE Blocks = {}
    BY <2>1, <1>1, <1>2, ElemsBasics
  <2>2. CASE Blocks # {}
    BY <2>2, <1>1, ConcatMoves
  <2> QED
    BY <2>1, <2>2
<1>4. Len(batch' \o queue') = Len(batch') + Len(queue')
  BY <1>1, ConcatProperties
<1>5. Waiting' = Msgs(mem', w)
  BY <1>4 DEF Waiting, Msgs
<1>6. Waiting = Msgs(mem, w)
  BY WaitingIs
<1> HIDE DEF w
<1> QED
  BY <1>1, <1>2, <1>3, <1>5, <1>6, MsgsSame

\* Every step is a step of the channel, or leaves it as it is.
LEMMA ChannelStep ==
    ASSUME IInv, IInv', [Next]_vars
    PROVE  \/ Channel!ChanNext
           \/ UNCHANGED <<Chan, out, glob>>
           \/ UNCHANGED <<Chan, out>> /\ glob # "up" /\ glob' # "up"
<1> USE DEF sideVars, handVars, stopVars, poolVars
<1>0. /\ TypeOK /\ TypeOK' /\ BlockInv /\ MemoryInv /\ StopInv
      /\ \A x \in Elems(batch) \cup Elems(queue) : x \in Held /\ x \in Blocks /\ x # hand
  BY BlockInvSplits, HeldAreBlocks DEF IInv, BlockInv, Held, HoldersApart
<1>1. ASSUME NEW t \in Threads, NEW size \in Sizes, PushMsg(t, size)
      PROVE  UNCHANGED <<Chan, out, glob>>
  <2> DEFINE m == Packet(t, size)
  <2>1. num[t] \in 0 .. MaxMsgs /\ num[t] < MaxMsgs
    BY <1>0, <1>1 DEF TypeOK, PushMsg, Receives
  <2>2. m \in Msg
    BY <2>1, MaxMsgsAssumption DEF Packet, Msg
  <2>3. PICK b \in Blocks : Alloc(m, b)
    BY <1>1 DEF PushMsg
  <2>4. b \notin Held /\ \A x \in Blocks : x # b => mem'[x] = mem[x]
    BY <1>0, <2>2, <2>3, AllocEffect
  <2>5. UNCHANGED <<queue, batch, out, glob>>
    BY <1>1 DEF PushMsg
  <2>6. Waiting' = Waiting
    BY <1>0, <2>4, <2>5, SameWaiting
  <2> QED
    BY <2>5, <2>6 DEF Chan
<1>2. ASSUME NEW t \in Threads, Push(t)
      PROVE  Channel!ChanNext \/ UNCHANGED <<Chan, out, glob>>
  <2> DEFINE b == buf[t]
  <2>1. /\ b \in Blocks /\ b \in Held /\ queue' = Append(queue, b)
        /\ UNCHANGED <<mem, batch, out, glob>>
    BY <1>0, <1>2, BufIsBlock DEF Push
  <2>2. CASE glob # "up"
    BY <2>1, <2>2 DEF Chan
  <2>3. CASE glob = "up"
    <3>1. batch' \o queue' = Append(batch \o queue, b) /\ batch \o queue \in Seq(Blocks)
      BY <1>0, <2>1, ConcatMoves DEF TypeOK
    <3>2. Waiting' = Msgs(mem', batch' \o queue')
      <4>1. Len(batch' \o queue') = Len(batch') + Len(queue')
        BY <1>0, ConcatProperties DEF TypeOK
      <4> QED
        BY <4>1 DEF Waiting, Msgs
    <3>3. Waiting = Msgs(mem, batch \o queue)
      BY <1>0, WaitingIs
    <3>4. Waiting' = Append(Waiting, mem[b].msg)
      <4> DEFINE w == batch \o queue
      <4>1. mem \in [Blocks -> Block] /\ mem' = mem /\ w \in Seq(Blocks)
        BY <1>0, <2>1, <3>1 DEF TypeOK
      <4>2. Waiting' = Msgs(mem, Append(w, b)) /\ Waiting = Msgs(mem, w)
        BY <3>1, <3>2, <3>3, <4>1
      <4> HIDE DEF w, b
      <4>3. Msgs(mem, Append(w, b)) = Append(Msgs(mem, w), mem[b].msg)
        BY <2>1, <4>1, MsgsAppend
      <4> QED
        BY <4>2, <4>3
    <3>5. mem[b].msg \in Msg
      BY <1>0, <2>1 DEF MemoryInv, Written
    <3>6. Channel!Send(mem[b].msg)
      BY <2>1, <2>3, <3>4 DEF Channel!Send
    <3> QED
      BY <3>5, <3>6 DEF Channel!ChanNext
  <2> QED
    BY <2>2, <2>3
<1>3. ASSUME GetMsgQueue, batch = <<>>, UNCHANGED <<mem, out, glob>>
      PROVE  UNCHANGED <<Chan, out, glob>>
  <2>1. batch' \o queue' = batch \o queue
    <3>1. queue \in Seq(Blocks) /\ batch' = queue /\ queue' = <<>>
      BY <1>0, <1>3 DEF GetMsgQueue, TypeOK
    <3>2. queue \o <<>> = queue /\ <<>> \o queue = queue
      BY <3>1, ConcatEmptySeq
    <3> QED
      BY <1>3, <3>1, <3>2
  <2>2. Waiting' = Waiting
    BY <1>0, <1>3, <2>1, SameWaiting
  <2> QED
    BY <1>3, <2>2 DEF Chan
<1>4. CASE ProcessMsg
  <2>1. /\ batch # <<>> /\ batch' = Tail(batch) /\ out' = mem[Head(batch)].msg
        /\ UNCHANGED <<mem, queue, glob>>
    BY <1>4 DEF ProcessMsg
  <2>2. glob = "up"
    BY <1>0, <2>1 DEF StopInv, Ready
  <2>3. Head(batch) \in Blocks
    BY <1>0, <2>1, HeadTailProperties DEF TypeOK
  <2>4. /\ batch' \o queue' = Tail(batch \o queue) /\ Head(batch \o queue) = Head(batch)
        /\ batch \o queue # <<>> /\ batch \o queue \in Seq(Blocks)
    BY <1>0, <2>1, <2>3, ConcatMoves DEF TypeOK
  <2>5. Waiting' = Msgs(mem', batch' \o queue')
    <3>1. Len(batch' \o queue') = Len(batch') + Len(queue')
      BY <1>0, ConcatProperties DEF TypeOK
    <3> QED
      BY <3>1 DEF Waiting, Msgs
  <2>6. Waiting = Msgs(mem, batch \o queue)
    BY <1>0, WaitingIs
  <2>7. Waiting # <<>> /\ out' = Head(Waiting) /\ Waiting' = Tail(Waiting)
    <3> DEFINE w == batch \o queue
    <3>1. /\ mem \in [Blocks -> Block] /\ mem' = mem /\ w \in Seq(Blocks) /\ w # <<>>
          /\ out' = mem[Head(w)].msg
      BY <1>0, <2>1, <2>4 DEF TypeOK
    <3>2. Waiting' = Msgs(mem, Tail(w)) /\ Waiting = Msgs(mem, w)
      BY <2>4, <2>5, <2>6, <3>1
    <3> HIDE DEF w
    <3>3. /\ Msgs(mem, w) # <<>> /\ Head(Msgs(mem, w)) = mem[Head(w)].msg
          /\ Msgs(mem, Tail(w)) = Tail(Msgs(mem, w))
      BY <3>1, MsgsTail
    <3> QED
      BY <3>1, <3>2, <3>3
  <2>8. Channel!Receive
    BY <2>1, <2>2, <2>7 DEF Channel!Receive
  <2> QED
    BY <2>8 DEF Channel!ChanNext
<1>5. CASE FreeMsgBlock
  <2>1. UNCHANGED <<queue, batch, out, glob>> /\ Free(hand) /\ hand # NULL
    BY <1>5 DEF FreeMsgBlock
  <2>2. \A x \in Blocks : x # hand => mem'[x] = mem[x]
    BY <1>0, <2>1 DEF Free, TypeOK
  <2>3. Waiting' = Waiting
    BY <1>0, <2>1, <2>2, SameWaiting
  <2> QED
    BY <2>1, <2>3 DEF Chan
<1>6. CASE UnInit
  <2>1. Channel!Discard
    BY <1>6 DEF UnInit, Channel!Discard
  <2> QED
    BY <2>1 DEF Channel!ChanNext
<1>7. CASE UnInitFree \/ UnInitUnlock \/ DeletePools
  BY <1>7 DEF UnInitFree, UnInitUnlock, DeletePools, Chan
<1>8. ASSUME UNCHANGED <<mem, queue, batch, out, glob>> PROVE UNCHANGED <<Chan, out, glob>>
  BY <1>8 DEF Chan, Waiting
<1>9. ASSUME NEW t \in Threads, NEW size \in Sizes,
             PushMsgFails(t, size) \/ PushMsgFaults(t, size)
      PROVE  UNCHANGED <<Chan, out, glob>>
  BY <1>8, <1>9 DEF PushMsgFails, PushMsgFaults
<1>10. ASSUME NEW t \in Threads, StopThread(t) PROVE UNCHANGED <<Chan, out, glob>>
  BY <1>8, <1>10 DEF StopThread
<1>11. CASE DoProcessMsg
  BY <1>3, <1>8, <1>11 DEF DoProcessMsg, Ready
<1>12. CASE GetMsg
  BY <1>3, <1>12 DEF GetMsg, Ready
<1>13. CASE LogicShutdown \/ UNCHANGED vars
  BY <1>8, <1>13 DEF LogicShutdown, vars
<1> QED
  BY <1>1, <1>2, <1>4, <1>5, <1>6, <1>7, <1>9, <1>10, <1>11, <1>12, <1>13
  DEF Next, Consumer, Main

\* The queue with its pools and batches delivers what was pushed, once, unchanged
\* and in order, for every number of threads, blocks and messages.
THEOREM ImplementsChannel == Spec => IsChannel
<1>1. Init => Channel!ChanInit
  <2> SUFFICES ASSUME Init PROVE Channel!ChanInit
    OBVIOUS
  <2>1. Waiting = <<>>
    BY DEF Init, Waiting
  <2> QED
    BY <2>1 DEF Init, Channel!ChanInit
<1>2. IInv /\ IInv' /\ [Next]_vars => [Channel!ChanNext]_(Channel!chanVars)
  <2> SUFFICES ASSUME IInv, IInv', [Next]_vars
               PROVE  Channel!ChanNext \/ UNCHANGED Channel!chanVars
    OBVIOUS
  <2>1. \/ Channel!ChanNext
        \/ UNCHANGED <<Chan, out, glob>>
        \/ UNCHANGED <<Chan, out>> /\ glob # "up" /\ glob' # "up"
    BY ChannelStep
  <2>2. CASE UNCHANGED <<Chan, out, glob>>
    BY <2>2 DEF Channel!chanVars, Chan
  <2>3. CASE UNCHANGED <<Chan, out>> /\ glob # "up" /\ glob' # "up"
    BY <2>3 DEF Channel!chanVars, Chan
  <2> QED
    BY <2>1, <2>2, <2>3
<1> QED
  BY <1>1, <1>2, Invariance, PTL DEF Spec, IsChannel, Channel!ChanSpec
================================================================================
