--------------------------- MODULE ThreadPosixProofs ---------------------------
(***************************************************************************)
(* Proofs about ThreadPosix, for any number of starts.                     *)
(***************************************************************************)
EXTENDS ThreadPosix, FiniteSetTheorems, TLAPS

\* The pthreads that hold a reference to ThreadData.
Holders == {i \in Runs : run[i] \in {"body", "over", "set"}}

\* All of TypeOK but the bound of the reference count.
Typed ==
    /\ target \in BOOLEAN
    /\ thread \in 0 .. MaxStarts
    /\ run \in [Runs -> {"none", "new", "body", "over", "set", "exited"}]
    /\ fate \in [Runs -> {"joinable", "joined", "detached"}]
    /\ owner \in {"idle", "wait", "join", "gone"}
    /\ Done!TypeOK

\* The handle names the last pthread that was started, and none is started
\* beyond; the target is set exactly while the last pthread has it to run.
Handle ==
    /\ \A i \in Runs : run[i] # "none" => i =< thread
    /\ \A i \in Runs : run[i] \in {"new", "body"} => target /\ i = thread
    /\ target => thread # 0 /\ run[thread] \in {"new", "body"}

\* A pthread that was joined has ended.
Joined == \A i \in Runs : fate[i] = "joined" => run[i] = "exited"

\* The owner and the pthreads that hold ThreadData are counted; a pthread that
\* has not begun is not, so the owner is still there.
Counted ==
    /\ count = Cardinality(Holders) + (IF owner = "gone" THEN 0 ELSE 1)
    /\ owner = "gone" => \A i \in Runs : run[i] # "new"

IInv == Typed /\ Handle /\ Joined /\ Counted

LEMMA HoldersFinite ==
    /\ IsFiniteSet(Holders)
    /\ Cardinality(Holders) \in 0 .. MaxStarts
<1>1. IsFiniteSet(Runs) /\ Cardinality(Runs) = MaxStarts
  BY FS_Interval, MaxStartsAssumption DEF Runs
<1>2. Holders \subseteq Runs
  BY DEF Holders
<1> QED
  BY <1>1, <1>2, FS_Subset, FS_CardinalityType, MaxStartsAssumption

\* A step that leaves every pthread's hold as it is keeps the count.
LEMMA SameHolders ==
    ASSUME Typed, UNCHANGED run
    PROVE  Holders' = Holders
BY DEF Holders

LEMMA InitInv == Init => IInv
<1> SUFFICES ASSUME Init PROVE IInv
  OBVIOUS
<1>a. Done!TypeOK
  BY DEF Init, Done!Init, Done!TypeOK, Done!Waits, Done!Results
<1>b. Typed
  <2>1. thread \in 0 .. MaxStarts
    BY MaxStartsAssumption DEF Init
  <2>2. run \in [Runs -> {"none", "new", "body", "over", "set", "exited"}]
    BY DEF Init
  <2>3. fate \in [Runs -> {"joinable", "joined", "detached"}]
    BY DEF Init
  <2> QED
    BY <1>a, <2>1, <2>2, <2>3 DEF Init, Typed
<1>1. Handle /\ Joined
  BY DEF Init, Handle, Joined
<1>2. Holders = {}
  BY DEF Init, Holders
<1> QED
  BY <1>b, <1>1, <1>2, FS_EmptySet DEF Init, IInv, Counted

LEMMA StepInv == IInv /\ [Next]_vars => IInv'
<1> SUFFICES ASSUME IInv, [Next]_vars PROVE IInv'
  OBVIOUS
<1> USE MaxStartsAssumption DEF IInv
<1>0. IsFiniteSet(Holders) /\ Cardinality(Holders) \in Nat
  BY HoldersFinite
<1>1. CASE UNCHANGED vars
  BY <1>1, SameHolders DEF vars, threadVars, Typed, Handle, Joined, Counted, Done!TypeOK
<1>2. CASE Start
  <2>1. (Typed /\ Handle /\ Joined)'
    BY <1>2 DEF Start, Typed, Handle, Joined, Runs, Done!TypeOK
  <2>2. Holders' = Holders
    BY <1>2 DEF Start, Holders, Typed, Handle, Runs
  <2> QED
    BY <1>2, <2>1, <2>2 DEF Start, Counted
<1>3. ASSUME NEW kind \in Done!Waits, Join(kind) PROVE IInv'
  <2>1. (Typed /\ Handle /\ Joined)'
    BY <1>3 DEF Join, Typed, Handle, Joined, Done!Arrive, Done!TypeOK, Done!Waits, Done!Results
  <2> QED
    BY <1>3, <2>1, SameHolders DEF Join, Counted
<1>4. CASE JoinSeesDone
  <2>1. (Typed /\ Handle /\ Joined)'
    BY <1>4 DEF JoinSeesDone, Typed, Handle, Joined, Done!Pass, Done!TypeOK, Done!Waits, Done!Results
  <2> QED
    BY <1>4, <2>1, SameHolders DEF JoinSeesDone, Counted
<1>5. CASE JoinGivesUp
  <2>1. (Typed /\ Handle /\ Joined)'
    BY <1>5 DEF JoinGivesUp, Typed, Handle, Joined, Done!GiveUp, Done!TypeOK, Done!Waits, Done!Results
  <2> QED
    BY <1>5, <2>1, SameHolders DEF JoinGivesUp, Counted
<1>6. CASE PthreadJoin
  <2>1. (Typed /\ Handle /\ Joined)'
    BY <1>6 DEF PthreadJoin, Typed, Handle, Joined, Done!TypeOK
  <2> QED
    BY <1>6, <2>1, SameHolders DEF PthreadJoin, Counted
<1>7. CASE Destroy
  <2>1. (Typed /\ Handle /\ Joined)'
    BY <1>7 DEF Destroy, Typed, Handle, Joined, Runs, Done!TypeOK
  <2> QED
    BY <1>0, <1>7, <2>1, SameHolders DEF Destroy, Counted
<1>8. ASSUME NEW i \in Runs, Entry(i) PROVE IInv'
  <2>1. (Typed /\ Handle /\ Joined)'
    BY <1>8 DEF Entry, Move, Typed, Handle, Joined, Done!TypeOK
  <2>2. i \notin Holders /\ Holders' = Holders \cup {i}
    BY <1>8 DEF Entry, Move, Holders, Typed
  <2>3. Cardinality(Holders') = Cardinality(Holders) + 1
    BY <1>0, <2>2, FS_AddElement
  <2> QED
    BY <1>0, <1>8, <2>1, <2>3 DEF Entry, Move, Counted, Typed
<1>9. ASSUME NEW i \in Runs, TargetReturns(i) PROVE IInv'
  <2>1. (Typed /\ Handle /\ Joined)'
    BY <1>9 DEF TargetReturns, Move, Typed, Handle, Joined, Done!TypeOK
  <2>2. Holders' = Holders
    BY <1>9 DEF TargetReturns, Move, Holders, Typed
  <2> QED
    BY <1>9, <2>1, <2>2 DEF TargetReturns, Move, Counted, Typed
<1>10. ASSUME NEW i \in Runs, DoneSet(i) PROVE IInv'
  <2>1. (Typed /\ Handle /\ Joined)'
    BY <1>10 DEF DoneSet, Move, Typed, Handle, Joined, Done!Set, Done!TypeOK
  <2>2. Holders' = Holders
    BY <1>10 DEF DoneSet, Move, Holders, Typed
  <2> QED
    BY <1>10, <2>1, <2>2 DEF DoneSet, Move, Counted, Typed
<1>11. ASSUME NEW i \in Runs, Exit(i) PROVE IInv'
  <2>1. (Typed /\ Handle /\ Joined)'
    BY <1>11 DEF Exit, Move, Typed, Handle, Joined, Done!TypeOK
  <2>2. i \in Holders /\ Holders' = Holders \ {i}
    BY <1>11 DEF Exit, Move, Holders, Typed
  <2>3. Cardinality(Holders') = Cardinality(Holders) - 1
    BY <1>0, <2>2, FS_RemoveElement
  <2> QED
    BY <1>0, <1>11, <2>1, <2>3 DEF Exit, Move, Counted, Typed
<1> QED
  BY <1>1, <1>2, <1>3, <1>4, <1>5, <1>6, <1>7, <1>8, <1>9, <1>10, <1>11
     DEF Next, Owner, Pthread

LEMMA Invariant == Spec => []IInv
BY InitInv, StepInv, PTL DEF Spec

\* Every variable has its type; the reference count in particular never falls
\* below zero and never exceeds the number of pthreads by more than one.
THEOREM TypeCorrect == Spec => []TypeOK
<1>1. IInv => TypeOK
  BY HoldersFinite, MaxStartsAssumption DEF IInv, Typed, Counted, TypeOK
<1> QED
  BY <1>1, Invariant, PTL

\* Never do two pthreads run the target of one Thread object (startImpl).
THEOREM TargetAlone == Spec => []OneTarget
<1>1. IInv => OneTarget
  BY DEF IInv, Handle, OneTarget
<1> QED
  BY <1>1, Invariant, PTL

\* After a join has returned, isRunning is FALSE until the next start.
THEOREM JoinStops == Spec => []JoinedIsStopped
<1>1. IInv => JoinedIsStopped
  BY DEF IInv, Typed, Handle, Joined, Runs, JoinedIsStopped
<1> QED
  BY <1>1, Invariant, PTL

\* ThreadData lives exactly as long as the object or a pthread uses it, in
\* whichever order they end.
THEOREM DataLifetime == Spec => []DataLives
<1>1. IInv => DataLives
  <2> SUFFICES ASSUME IInv PROVE DataLives
    OBVIOUS
  <2>1. Cardinality(Holders) \in Nat /\ (Cardinality(Holders) = 0 <=> Holders = {})
    BY HoldersFinite, FS_EmptySet, FS_CardinalityType
  <2>2. Holders = {} <=> ~\E i \in Runs : run[i] \in {"body", "over", "set"}
    BY DEF Holders
  <2> QED
    BY <2>1, <2>2 DEF IInv, Counted, DataLives
<1> QED
  BY <1>1, Invariant, PTL
===============================================================================
